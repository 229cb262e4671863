-------------------------- MODULE ReplacementProofs --------------------------
(***************************************************************************)
(* The theorem about ReplacementReversal: the policy of the cache is never *)
(* eliminated, when it is FIFO, LRU or PLRU, for any number of ways,       *)
(* addresses, repetitions and rounds and any length of the sequences.      *)
(*                                                                         *)
(* A cache set is compared with a fresh simulation up to the names of the  *)
(* ways: whatever order or bits the accesses before have left, there is a  *)
(* renaming that leads from one policy object to the other, and hit and    *)
(* miss keep it.                                                           *)
(***************************************************************************)
EXTENDS ReplacementReversal, Lemmas

Addr == 0..(Symbols - 1)

-----------------------------------------------------------------------------
(* The loops.                                                              *)

\* The bodies of the loops: simulate_sequence, safe_measure_sequence, the growth of the
\* sequences, majority_element and filter_replacement_policies.
Simulate(x, a) == [sim  |-> SimAccess(x.sim, a),
                   hits |-> x.hits + IF CountsHit(x.sim, a) THEN 1 ELSE 0]
SafeMeasure(x, a) ==
    [sim  |-> SimAccess(x.sim, a),
     hits |-> IF x.hits = NoResult \/ (IsHit(x.sim, a) /\ ~CountsHit(x.sim, a))
              THEN NoResult
              ELSE x.hits + IF IsHit(x.sim, a) THEN 1 ELSE 0]
Grow(grown) ==
    UNION {{Append(s, a) : a \in 0..Min({Cardinality(Range(s)), Symbols - 1})} : s \in grown}
Vote(m, x) ==
    CASE x = m.maj               -> [m EXCEPT !.count = @ + 1]
      [] x # m.maj /\ m.count = 1 -> [m EXCEPT !.maj = x]
      [] OTHER                   -> [m EXCEPT !.count = @ - 1]
Sift(simulated, measured, x, i) ==
    IF simulated[x.names[i]] = measured
    THEN [names |-> Swap(x.names, x.out, i), out |-> x.out + 1]
    ELSE x

Pass(loop, x, e) ==
    CASE loop.name = "simulate"  -> Simulate(x, e)
      [] loop.name = "measure"   -> SafeMeasure(x, e)
      [] loop.name = "sequences" -> Grow(x)
      [] loop.name = "majority"  -> Vote(x, e)
      [] OTHER                   -> Sift(loop.simulated, loop.measured, x, e)

\* The accumulators of the first n steps of a loop.
Passes(g, loop, base, s, n) ==
    g = [i \in 0..n |-> IF i = 0 THEN base ELSE Pass(loop, g[i - 1], s[i])]

\* Every loop runs to its end.
LEMMA PassesExist ==
    ASSUME NEW loop, NEW base, NEW s
    PROVE  \A n \in Nat : \E g : Passes(g, loop, base, s, n)
  <1> DEFINE T == {n \in Nat : \E g : Passes(g, loop, base, s, n)}
  <1>1. 0 \in T
    <2> DEFINE h == [i \in 0..0 |-> base]
               e(i) == IF i = 0 THEN base ELSE Pass(loop, h[i - 1], s[i])
    <2>1. \A i \in 0..0 : e(i) = base
      <3>1. \A i \in 0..0 : i = 0
        OBVIOUS
      <3>2. QED
        BY <3>1, Zenon
    <2>2. h = [i \in 0..0 |-> e(i)]
      <3> HIDE DEF e
      <3>1. QED
        BY <2>1
    <2>3. Passes(h, loop, base, s, 0)
      <3> HIDE DEF h
      <3>1. QED
        BY <2>2, Zenon DEF Passes
    <2>4. QED
      BY <2>3
  <1>2. ASSUME NEW n \in Nat, n \in T PROVE n + 1 \in T
    <2>1. PICK g : Passes(g, loop, base, s, n)
      BY <1>2
    <2> DEFINE d(i) == IF i = 0 THEN base ELSE Pass(loop, g[i - 1], s[i])
               h == [i \in 0..(n + 1) |-> d(i)]
               e(i) == IF i = 0 THEN base ELSE Pass(loop, h[i - 1], s[i])
    <2>2. ASSUME NEW i \in 0..n PROVE h[i] = g[i]
      <3>1. g[i] = d(i)
        <4>1. g = [j \in 0..n |-> d(j)]
          BY <2>1, Zenon DEF Passes
        <4> HIDE DEF d
        <4>2. QED
          BY <4>1
      <3>2. h[i] = d(i)
        <4>1. i \in 0..(n + 1)
          OBVIOUS
        <4> HIDE DEF d
        <4>2. QED
          BY <4>1
      <3>3. QED
        BY <3>1, <3>2
    <2>3. \A i \in 0..(n + 1) : d(i) = e(i)
      <3> SUFFICES ASSUME NEW i \in 0..(n + 1), i # 0 PROVE h[i - 1] = g[i - 1]
        BY Zenon
      <3>1. i - 1 \in 0..n
        OBVIOUS
      <3>2. QED
        BY <2>2, <3>1
    <2>4. h = [i \in 0..(n + 1) |-> e(i)]
      <3> HIDE DEF d, e
      <3>1. QED
        BY <2>3
    <2>5. Passes(h, loop, base, s, n + 1)
      <3> HIDE DEF h
      <3>1. QED
        BY <2>4, Zenon DEF Passes
    <2>6. QED
      BY <2>5
  <1> HIDE DEF T
  <1>3. \A n \in Nat : n \in T
    BY <1>1, <1>2, Induct
  <1>4. QED
    BY <1>3 DEF T

\* The accumulators of a loop that ran: the first is base, the others come from the body.
Ran(F, loop, base, s) ==
    F[0] = base /\ \A i \in 1..Len(s) : F[i] = Pass(loop, F[i - 1], s[i])

\* A loop whose body is one of the bodies above.
Looped(loop, base, s) == Accumulate(LAMBDA x, e : Pass(loop, x, e), base, s)

\* A loop over s runs to its end, and its result is the last accumulator.
LEMMA LoopRan ==
    ASSUME NEW loop, NEW base, NEW s, Len(s) \in Nat
    PROVE  \E F : Ran(F, loop, base, s) /\ Looped(loop, base, s) = F[Len(s)]
  <1> DEFINE n == Len(s)
             Eq(g) == g = [i \in 0..n |-> IF i = 0 THEN base
                              ELSE Bind(g[i - 1], LAMBDA y : Pass(loop, y, s[i]))]
             F == CHOOSE g : Eq(g)
  <1>1. Looped(loop, base, s) = F[n]
    BY Zenon DEF Looped, Accumulate
  <1>2. \A x, e : Bind(x, LAMBDA y : Pass(loop, y, e)) = Pass(loop, x, e)
    <2>1. \A x, e : {Pass(loop, y, e) : y \in {x}} = {Pass(loop, x, e)}
      BY Zenon
    <2>2. QED
      BY <2>1 DEF Bind
  <1>3. PICK g : Passes(g, loop, base, s, n)
    BY PassesExist
  <1>4. Eq(g)
    <2> DEFINE d(i) == IF i = 0 THEN base ELSE Pass(loop, g[i - 1], s[i])
               e(i) == IF i = 0 THEN base ELSE Bind(g[i - 1], LAMBDA y : Pass(loop, y, s[i]))
    <2>1. \A i \in 0..n : d(i) = e(i)
      BY <1>2, Zenon
    <2>2. g = [i \in 0..n |-> d(i)]
      BY <1>3, Zenon DEF Passes
    <2> HIDE DEF d, e
    <2>3. g = [i \in 0..n |-> e(i)]
      BY <2>1, <2>2
    <2>4. QED
      BY <2>3, Zenon DEF e
  <1>5. F = CHOOSE h : Eq(h)
    OBVIOUS
  <1> HIDE DEF F, Eq
  <1>6. Eq(F)
    BY <1>4, <1>5, Zenon
  <1>7. Ran(F, loop, base, s)
    <2> DEFINE e(i) == IF i = 0 THEN base ELSE Bind(F[i - 1], LAMBDA y : Pass(loop, y, s[i]))
    <2>1. F = [i \in 0..n |-> e(i)]
      BY <1>6, Zenon DEF Eq
    <2>2. \A i \in 0..n : F[i] = e(i)
      <3> HIDE DEF e
      <3>1. QED
        BY <2>1
    <2>3. 0 \in 0..n /\ \A i \in 1..n : i \in 0..n /\ i # 0
      OBVIOUS
    <2> HIDE DEF n
    <2>4. F[0] = base
      BY <2>2, <2>3, Zenon
    <2>5. ASSUME NEW i \in 1..n PROVE F[i] = Pass(loop, F[i - 1], s[i])
      <3>1. F[i] = e(i) /\ i # 0
        BY <2>2, <2>3, Zenon
      <3>2. F[i] = Bind(F[i - 1], LAMBDA y : Pass(loop, y, s[i]))
        BY <3>1, Zenon
      <3>3. QED
        BY <1>2, <3>2, Zenon
    <2>6. QED
      BY <2>4, <2>5 DEF Ran, n
  <1>8. QED
    BY <1>1, <1>7

\* The loop of simulate_sequence.
LEMMA SimulateLoop ==
    ASSUME NEW base, NEW s
    PROVE  Accumulate(LAMBDA y, e : Simulate(y, e), base, s)
             = Looped([name |-> "simulate"], base, s)
  <1> DEFINE n == Len(s)
             loop == [name |-> "simulate"]
             P(g) == g = [i \in 0..n |-> IF i = 0 THEN base
                             ELSE Bind(g[i - 1], LAMBDA y : Simulate(y, s[i]))]
             Q(g) == g = [i \in 0..n |-> IF i = 0 THEN base
                             ELSE Bind(g[i - 1], LAMBDA y : Pass(loop, y, s[i]))]
  <1>1. \A x, e : Simulate(x, e) = Pass(loop, x, e)
    BY DEF Pass
  <1> HIDE DEF loop
  <1>2. \A x, e : /\ Bind(x, LAMBDA y : Simulate(y, e)) = Pass(loop, x, e)
                  /\ Bind(x, LAMBDA y : Pass(loop, y, e)) = Pass(loop, x, e)
    <2>1. \A x, e : /\ {Simulate(y, e) : y \in {x}} = {Pass(loop, x, e)}
                    /\ {Pass(loop, y, e) : y \in {x}} = {Pass(loop, x, e)}
      BY <1>1, Zenon
    <2>2. ASSUME NEW x, NEW e
          PROVE  /\ Bind(x, LAMBDA y : Simulate(y, e)) = Pass(loop, x, e)
                 /\ Bind(x, LAMBDA y : Pass(loop, y, e)) = Pass(loop, x, e)
      <3>1. Bind(x, LAMBDA y : Simulate(y, e)) = CHOOSE r \in {Pass(loop, x, e)} : TRUE
        BY <2>1, Zenon DEF Bind
      <3>2. Bind(x, LAMBDA y : Pass(loop, y, e)) = CHOOSE r \in {Pass(loop, x, e)} : TRUE
        BY <2>1, Zenon DEF Bind
      <3>3. QED
        BY <3>1, <3>2, OneOf
    <2>3. QED
      BY <2>2, Zenon
  <1>3. ASSUME NEW g PROVE P(g) <=> Q(g)
    <2> DEFINE d(i) == IF i = 0 THEN base ELSE Bind(g[i - 1], LAMBDA y : Simulate(y, s[i]))
               e(i) == IF i = 0 THEN base ELSE Bind(g[i - 1], LAMBDA y : Pass(loop, y, s[i]))
    <2>1. ASSUME NEW i PROVE d(i) = e(i)
      <3>1. CASE i = 0
        BY <3>1
      <3>2. CASE i # 0
        <4>1. d(i) = Pass(loop, g[i - 1], s[i])
          BY <1>2, <3>2, Zenon
        <4>2. e(i) = Pass(loop, g[i - 1], s[i])
          BY <1>2, <3>2, Zenon
        <4>3. QED
          BY <4>1, <4>2
      <3>3. QED
        BY <3>1, <3>2
    <2> HIDE DEF d, e
    <2>2. [i \in 0..n |-> d(i)] = [i \in 0..n |-> e(i)]
      BY <2>1
    <2>3. QED
      BY <2>2, Zenon DEF d, e
  <1>4. (CHOOSE g : P(g)) = (CHOOSE g : Q(g))
    <2> HIDE DEF P, Q
    <2>1. QED
      BY <1>3, Zenon
  <1>5. /\ Accumulate(LAMBDA y, e : Simulate(y, e), base, s) = (CHOOSE g : P(g))[n]
        /\ Looped(loop, base, s) = (CHOOSE g : Q(g))[n]
    BY Zenon DEF Accumulate, Looped
  <1> HIDE DEF P, Q
  <1>6. QED
    BY <1>4, <1>5, Zenon DEF loop

\* The loop of safe_measure_sequence.
LEMMA MeasureLoop ==
    ASSUME NEW base, NEW s
    PROVE  Accumulate(LAMBDA y, e : SafeMeasure(y, e), base, s)
             = Looped([name |-> "measure"], base, s)
  <1> DEFINE n == Len(s)
             loop == [name |-> "measure"]
             P(g) == g = [i \in 0..n |-> IF i = 0 THEN base
                             ELSE Bind(g[i - 1], LAMBDA y : SafeMeasure(y, s[i]))]
             Q(g) == g = [i \in 0..n |-> IF i = 0 THEN base
                             ELSE Bind(g[i - 1], LAMBDA y : Pass(loop, y, s[i]))]
  <1>1. \A x, e : SafeMeasure(x, e) = Pass(loop, x, e)
    BY DEF Pass
  <1> HIDE DEF loop
  <1>2. \A x, e : /\ Bind(x, LAMBDA y : SafeMeasure(y, e)) = Pass(loop, x, e)
                  /\ Bind(x, LAMBDA y : Pass(loop, y, e)) = Pass(loop, x, e)
    <2>1. \A x, e : /\ {SafeMeasure(y, e) : y \in {x}} = {Pass(loop, x, e)}
                    /\ {Pass(loop, y, e) : y \in {x}} = {Pass(loop, x, e)}
      BY <1>1, Zenon
    <2>2. ASSUME NEW x, NEW e
          PROVE  /\ Bind(x, LAMBDA y : SafeMeasure(y, e)) = Pass(loop, x, e)
                 /\ Bind(x, LAMBDA y : Pass(loop, y, e)) = Pass(loop, x, e)
      <3>1. Bind(x, LAMBDA y : SafeMeasure(y, e)) = CHOOSE r \in {Pass(loop, x, e)} : TRUE
        BY <2>1, Zenon DEF Bind
      <3>2. Bind(x, LAMBDA y : Pass(loop, y, e)) = CHOOSE r \in {Pass(loop, x, e)} : TRUE
        BY <2>1, Zenon DEF Bind
      <3>3. QED
        BY <3>1, <3>2, OneOf
    <2>3. QED
      BY <2>2, Zenon
  <1>3. ASSUME NEW g PROVE P(g) <=> Q(g)
    <2> DEFINE d(i) == IF i = 0 THEN base ELSE Bind(g[i - 1], LAMBDA y : SafeMeasure(y, s[i]))
               e(i) == IF i = 0 THEN base ELSE Bind(g[i - 1], LAMBDA y : Pass(loop, y, s[i]))
    <2>1. ASSUME NEW i PROVE d(i) = e(i)
      <3>1. CASE i = 0
        BY <3>1
      <3>2. CASE i # 0
        <4>1. d(i) = Pass(loop, g[i - 1], s[i])
          BY <1>2, <3>2, Zenon
        <4>2. e(i) = Pass(loop, g[i - 1], s[i])
          BY <1>2, <3>2, Zenon
        <4>3. QED
          BY <4>1, <4>2
      <3>3. QED
        BY <3>1, <3>2
    <2> HIDE DEF d, e
    <2>2. [i \in 0..n |-> d(i)] = [i \in 0..n |-> e(i)]
      BY <2>1
    <2>3. QED
      BY <2>2, Zenon DEF d, e
  <1>4. (CHOOSE g : P(g)) = (CHOOSE g : Q(g))
    <2> HIDE DEF P, Q
    <2>1. QED
      BY <1>3, Zenon
  <1>5. /\ Accumulate(LAMBDA y, e : SafeMeasure(y, e), base, s) = (CHOOSE g : P(g))[n]
        /\ Looped(loop, base, s) = (CHOOSE g : Q(g))[n]
    BY Zenon DEF Accumulate, Looped
  <1> HIDE DEF P, Q
  <1>6. QED
    BY <1>4, <1>5, Zenon DEF loop

\* The growth of the sequences.
LEMMA SequencesLoop ==
    ASSUME NEW base, NEW s
    PROVE  Accumulate(LAMBDA y, e : Grow(y), base, s)
             = Looped([name |-> "sequences"], base, s)
  <1> DEFINE n == Len(s)
             loop == [name |-> "sequences"]
             P(g) == g = [i \in 0..n |-> IF i = 0 THEN base
                             ELSE Bind(g[i - 1], LAMBDA y : Grow(y))]
             Q(g) == g = [i \in 0..n |-> IF i = 0 THEN base
                             ELSE Bind(g[i - 1], LAMBDA y : Pass(loop, y, s[i]))]
  <1>1. \A x, e : Grow(x) = Pass(loop, x, e)
    BY DEF Pass
  <1> HIDE DEF loop
  <1>2. \A x, e : /\ Bind(x, LAMBDA y : Grow(y)) = Pass(loop, x, e)
                  /\ Bind(x, LAMBDA y : Pass(loop, y, e)) = Pass(loop, x, e)
    <2>1. \A x, e : /\ {Grow(y) : y \in {x}} = {Pass(loop, x, e)}
                    /\ {Pass(loop, y, e) : y \in {x}} = {Pass(loop, x, e)}
      BY <1>1, Zenon
    <2>2. ASSUME NEW x, NEW e
          PROVE  /\ Bind(x, LAMBDA y : Grow(y)) = Pass(loop, x, e)
                 /\ Bind(x, LAMBDA y : Pass(loop, y, e)) = Pass(loop, x, e)
      <3>1. Bind(x, LAMBDA y : Grow(y)) = CHOOSE r \in {Pass(loop, x, e)} : TRUE
        BY <2>1, Zenon DEF Bind
      <3>2. Bind(x, LAMBDA y : Pass(loop, y, e)) = CHOOSE r \in {Pass(loop, x, e)} : TRUE
        BY <2>1, Zenon DEF Bind
      <3>3. QED
        BY <3>1, <3>2, OneOf
    <2>3. QED
      BY <2>2, Zenon
  <1>3. ASSUME NEW g PROVE P(g) <=> Q(g)
    <2> DEFINE d(i) == IF i = 0 THEN base ELSE Bind(g[i - 1], LAMBDA y : Grow(y))
               e(i) == IF i = 0 THEN base ELSE Bind(g[i - 1], LAMBDA y : Pass(loop, y, s[i]))
    <2>1. ASSUME NEW i PROVE d(i) = e(i)
      <3>1. CASE i = 0
        BY <3>1
      <3>2. CASE i # 0
        <4>1. d(i) = Pass(loop, g[i - 1], s[i])
          BY <1>2, <3>2, Zenon
        <4>2. e(i) = Pass(loop, g[i - 1], s[i])
          BY <1>2, <3>2, Zenon
        <4>3. QED
          BY <4>1, <4>2
      <3>3. QED
        BY <3>1, <3>2
    <2> HIDE DEF d, e
    <2>2. [i \in 0..n |-> d(i)] = [i \in 0..n |-> e(i)]
      BY <2>1
    <2>3. QED
      BY <2>2, Zenon DEF d, e
  <1>4. (CHOOSE g : P(g)) = (CHOOSE g : Q(g))
    <2> HIDE DEF P, Q
    <2>1. QED
      BY <1>3, Zenon
  <1>5. /\ Accumulate(LAMBDA y, e : Grow(y), base, s) = (CHOOSE g : P(g))[n]
        /\ Looped(loop, base, s) = (CHOOSE g : Q(g))[n]
    BY Zenon DEF Accumulate, Looped
  <1> HIDE DEF P, Q
  <1>6. QED
    BY <1>4, <1>5, Zenon DEF loop

\* The loop of majority_element.
LEMMA MajorityLoop ==
    ASSUME NEW base, NEW s
    PROVE  Accumulate(LAMBDA y, e : Vote(y, e), base, s)
             = Looped([name |-> "majority"], base, s)
  <1> DEFINE n == Len(s)
             loop == [name |-> "majority"]
             P(g) == g = [i \in 0..n |-> IF i = 0 THEN base
                             ELSE Bind(g[i - 1], LAMBDA y : Vote(y, s[i]))]
             Q(g) == g = [i \in 0..n |-> IF i = 0 THEN base
                             ELSE Bind(g[i - 1], LAMBDA y : Pass(loop, y, s[i]))]
  <1>1. \A x, e : Vote(x, e) = Pass(loop, x, e)
    BY DEF Pass
  <1> HIDE DEF loop
  <1>2. \A x, e : /\ Bind(x, LAMBDA y : Vote(y, e)) = Pass(loop, x, e)
                  /\ Bind(x, LAMBDA y : Pass(loop, y, e)) = Pass(loop, x, e)
    <2>1. \A x, e : /\ {Vote(y, e) : y \in {x}} = {Pass(loop, x, e)}
                    /\ {Pass(loop, y, e) : y \in {x}} = {Pass(loop, x, e)}
      BY <1>1, Zenon
    <2>2. ASSUME NEW x, NEW e
          PROVE  /\ Bind(x, LAMBDA y : Vote(y, e)) = Pass(loop, x, e)
                 /\ Bind(x, LAMBDA y : Pass(loop, y, e)) = Pass(loop, x, e)
      <3>1. Bind(x, LAMBDA y : Vote(y, e)) = CHOOSE r \in {Pass(loop, x, e)} : TRUE
        BY <2>1, Zenon DEF Bind
      <3>2. Bind(x, LAMBDA y : Pass(loop, y, e)) = CHOOSE r \in {Pass(loop, x, e)} : TRUE
        BY <2>1, Zenon DEF Bind
      <3>3. QED
        BY <3>1, <3>2, OneOf
    <2>3. QED
      BY <2>2, Zenon
  <1>3. ASSUME NEW g PROVE P(g) <=> Q(g)
    <2> DEFINE d(i) == IF i = 0 THEN base ELSE Bind(g[i - 1], LAMBDA y : Vote(y, s[i]))
               e(i) == IF i = 0 THEN base ELSE Bind(g[i - 1], LAMBDA y : Pass(loop, y, s[i]))
    <2>1. ASSUME NEW i PROVE d(i) = e(i)
      <3>1. CASE i = 0
        BY <3>1
      <3>2. CASE i # 0
        <4>1. d(i) = Pass(loop, g[i - 1], s[i])
          BY <1>2, <3>2, Zenon
        <4>2. e(i) = Pass(loop, g[i - 1], s[i])
          BY <1>2, <3>2, Zenon
        <4>3. QED
          BY <4>1, <4>2
      <3>3. QED
        BY <3>1, <3>2
    <2> HIDE DEF d, e
    <2>2. [i \in 0..n |-> d(i)] = [i \in 0..n |-> e(i)]
      BY <2>1
    <2>3. QED
      BY <2>2, Zenon DEF d, e
  <1>4. (CHOOSE g : P(g)) = (CHOOSE g : Q(g))
    <2> HIDE DEF P, Q
    <2>1. QED
      BY <1>3, Zenon
  <1>5. /\ Accumulate(LAMBDA y, e : Vote(y, e), base, s) = (CHOOSE g : P(g))[n]
        /\ Looped(loop, base, s) = (CHOOSE g : Q(g))[n]
    BY Zenon DEF Accumulate, Looped
  <1> HIDE DEF P, Q
  <1>6. QED
    BY <1>4, <1>5, Zenon DEF loop

\* The loop of filter_replacement_policies.
LEMMA FilterLoop ==
    ASSUME NEW base, NEW s, NEW h, NEW m
    PROVE  Accumulate(LAMBDA y, e : Sift(h, m, y, e), base, s)
             = Looped([name |-> "filter", simulated |-> h, measured |-> m], base, s)
  <1> DEFINE n == Len(s)
             loop == [name |-> "filter", simulated |-> h, measured |-> m]
             P(g) == g = [i \in 0..n |-> IF i = 0 THEN base
                             ELSE Bind(g[i - 1], LAMBDA y : Sift(h, m, y, s[i]))]
             Q(g) == g = [i \in 0..n |-> IF i = 0 THEN base
                             ELSE Bind(g[i - 1], LAMBDA y : Pass(loop, y, s[i]))]
  <1>1. \A x, e : Sift(h, m, x, e) = Pass(loop, x, e)
    BY DEF Pass
  <1> HIDE DEF loop
  <1>2. \A x, e : /\ Bind(x, LAMBDA y : Sift(h, m, y, e)) = Pass(loop, x, e)
                  /\ Bind(x, LAMBDA y : Pass(loop, y, e)) = Pass(loop, x, e)
    <2>1. \A x, e : /\ {Sift(h, m, y, e) : y \in {x}} = {Pass(loop, x, e)}
                    /\ {Pass(loop, y, e) : y \in {x}} = {Pass(loop, x, e)}
      BY <1>1, Zenon
    <2>2. ASSUME NEW x, NEW e
          PROVE  /\ Bind(x, LAMBDA y : Sift(h, m, y, e)) = Pass(loop, x, e)
                 /\ Bind(x, LAMBDA y : Pass(loop, y, e)) = Pass(loop, x, e)
      <3>1. Bind(x, LAMBDA y : Sift(h, m, y, e)) = CHOOSE r \in {Pass(loop, x, e)} : TRUE
        BY <2>1, Zenon DEF Bind
      <3>2. Bind(x, LAMBDA y : Pass(loop, y, e)) = CHOOSE r \in {Pass(loop, x, e)} : TRUE
        BY <2>1, Zenon DEF Bind
      <3>3. QED
        BY <3>1, <3>2, OneOf
    <2>3. QED
      BY <2>2, Zenon
  <1>3. ASSUME NEW g PROVE P(g) <=> Q(g)
    <2> DEFINE d(i) == IF i = 0 THEN base ELSE Bind(g[i - 1], LAMBDA y : Sift(h, m, y, s[i]))
               e(i) == IF i = 0 THEN base ELSE Bind(g[i - 1], LAMBDA y : Pass(loop, y, s[i]))
    <2>1. ASSUME NEW i PROVE d(i) = e(i)
      <3>1. CASE i = 0
        BY <3>1
      <3>2. CASE i # 0
        <4>1. d(i) = Pass(loop, g[i - 1], s[i])
          BY <1>2, <3>2, Zenon
        <4>2. e(i) = Pass(loop, g[i - 1], s[i])
          BY <1>2, <3>2, Zenon
        <4>3. QED
          BY <4>1, <4>2
      <3>3. QED
        BY <3>1, <3>2
    <2> HIDE DEF d, e
    <2>2. [i \in 0..n |-> d(i)] = [i \in 0..n |-> e(i)]
      BY <2>1
    <2>3. QED
      BY <2>2, Zenon DEF d, e
  <1>4. (CHOOSE g : P(g)) = (CHOOSE g : Q(g))
    <2> HIDE DEF P, Q
    <2>1. QED
      BY <1>3, Zenon
  <1>5. /\ Accumulate(LAMBDA y, e : Sift(h, m, y, e), base, s) = (CHOOSE g : P(g))[n]
        /\ Looped(loop, base, s) = (CHOOSE g : Q(g))[n]
    BY Zenon DEF Accumulate, Looped
  <1> HIDE DEF P, Q
  <1>6. QED
    BY <1>4, <1>5, Zenon DEF loop

\* HitsFrom is its loop.
LEMMA HitsLoop ==
    ASSUME NEW s, NEW q
    PROVE  HitsFrom(s, q) = Looped([name |-> "simulate"], [sim |-> s, hits |-> 0], q).hits
  <1>1. HitsFrom(s, q) = Accumulate(LAMBDA y, e : Simulate(y, e), [sim |-> s, hits |-> 0], q).hits
    BY Zenon DEF HitsFrom, Simulate
  <1>2. QED
    BY <1>1, SimulateLoop, Zenon

\* safe_measure_sequence is its loop.
LEMMA SafeLoop ==
    ASSUME NEW s, NEW q
    PROVE  safe_measure_sequence(s, q)
             = Looped([name |-> "measure"], [sim |-> s, hits |-> 0], q).hits
  <1>1. safe_measure_sequence(s, q)
          = Accumulate(LAMBDA y, e : SafeMeasure(y, e), [sim |-> s, hits |-> 0], q).hits
    BY Zenon DEF safe_measure_sequence, SafeMeasure
  <1>2. QED
    BY <1>1, MeasureLoop, Zenon

\* Sequences is its loop.
LEMMA SequencesAre ==
    Sequences = Looped([name |-> "sequences"], {<<>>}, [i \in 1..Length |-> i])
  <1>1. Sequences = Accumulate(LAMBDA y, e : Grow(y), {<<>>}, [i \in 1..Length |-> i])
    BY Zenon DEF Sequences, Grow
  <1>2. QED
    BY <1>1, SequencesLoop, Zenon

\* majority_element is its loop.
LEMMA MajorityIs ==
    ASSUME NEW range
    PROVE  majority_element(range)
             = Looped([name |-> "majority"], [maj |-> range[1], count |-> 1], range).maj
  <1>1. majority_element(range)
          = Accumulate(LAMBDA y, e : Vote(y, e), [maj |-> range[1], count |-> 1], range).maj
    BY Zenon DEF majority_element, Vote
  <1>2. QED
    BY <1>1, MajorityLoop, Zenon

\* filter_replacement_policies is its loop, cut off behind the result.
LEMMA FilterIs ==
    ASSUME NEW names, NEW measured
    PROVE  LET loop == [name |-> "filter", simulated |-> outcomes.simulated, measured |-> measured]
               pass == Looped(loop, [names |-> names, out |-> 1], [i \in 1..Len(names) |-> i])
           IN  filter_replacement_policies(names, measured)
                 = SubSeq(pass.names, 1, pass.out - 1)
  <1> DEFINE pass == Accumulate(LAMBDA y, e : Sift(outcomes.simulated, measured, y, e),
                                [names |-> names, out |-> 1], [i \in 1..Len(names) |-> i])
  <1>1. filter_replacement_policies(names, measured) = SubSeq(pass.names, 1, pass.out - 1)
    BY Zenon DEF filter_replacement_policies, Sift
  <1>2. QED
    BY <1>1, FilterLoop, Zenon

-----------------------------------------------------------------------------
(* Policies that differ in the names of the ways only.                     *)

\* phi maps the ways of p to those of q; what hit and miss look at is mapped as well.
SameOrders(p, q, phi) == \A k \in DOMAIN p.order : q.order[k] = phi[p.order[k]]
SameTrees(p, q, phi, n) ==
    /\ p.height = q.height
    /\ \A w \in 0..(n - 1), l \in 0..(p.height - 1) : Toward(p, w, l) <=> Toward(q, phi[w], l)
Renames(phi, n) ==
    /\ phi \in [0..(n - 1) -> 0..(n - 1)]
    /\ \A u, w \in 0..(n - 1) : phi[u] = phi[w] => u = w
Alike(p, q, phi, n) ==
    /\ Renames(phi, n)
    /\ \/ p \in OrderPolicies(n) /\ q \in OrderPolicies(n) /\ p.kind = q.kind
          /\ SameOrders(p, q, phi)
       \/ p \in Trees(n) /\ q \in Trees(n) /\ SameTrees(p, q, phi, n)

\* Both are turned to a way and its image.
LEMMA TurnedSame ==
    ASSUME NEW n \in Nat \ {0}, NEW p \in Trees(n), NEW q \in Trees(n),
           NEW phi \in [0..(n - 1) -> 0..(n - 1)], SameTrees(p, q, phi, n),
           NEW w \in 0..(n - 1), NEW p2 \in Trees(n), NEW q2 \in Trees(n),
           Turned(p, p2, w), Turned(q, q2, phi[w])
    PROVE  SameTrees(p2, q2, phi, n)
  <1> DEFINE h == p.height
  <1>1. h = p.height /\ h = q.height /\ h = p2.height /\ h = q2.height /\ h \in Nat
    <2>1. h = p.height /\ h = q.height /\ h = p2.height /\ q.height = q2.height
      BY DEF SameTrees, Turned
    <2>2. QED
      BY <2>1, TreeFields
  <1>2. \A x \in 0..(n - 1), l \in 0..(h - 1) : Toward(p, x, l) <=> Toward(q, phi[x], l)
    BY DEF SameTrees
  <1> HIDE DEF h
  <1>3. ASSUME NEW r \in Trees(n), NEW r2 \in Trees(n), r.height = h, r2.height = h,
               NEW v \in 0..(n - 1), Turned(r, r2, v), NEW x \in 0..(n - 1), NEW l \in 0..(h - 1)
        PROVE  Toward(r2, x, l) <=> IF Prefix(h, x, l) = Prefix(h, v, l)
                                    THEN Prefix(h, x, l + 1) = Prefix(h, v, l + 1)
                                    ELSE Toward(r, x, l)
    <2>1. /\ DOMAIN r.bits = 0..(n - 2) /\ 2^h = n /\ Doubling(h)
      BY <1>3, TreeFields
    <2>2. /\ \A j \in 0..(h - 1) : Toward(r2, v, j)
          /\ \A i \in 0..(n - 2) :
                (\A j \in 0..(h - 1) : i # Node(h, v, j)) => r2.bits[i] = r.bits[i]
      BY <1>3, <2>1, Zenon DEF Turned
    <2>3. CASE Prefix(h, x, l) = Prefix(h, v, l)
      <3>1. /\ Node(h, x, l) = Node(h, v, l)
            /\ Prefix(h, x, l + 1) = Prefix(h, v, l + 1) <=> Side(h, x, l + 1) = Side(h, v, l + 1)
        <4>1. Parting(h, x, v, l)
          BY <1>3, Shared
        <4>2. QED
          BY <2>3, <4>1, Zenon DEF Parting
      <3>2. r2.bits[Node(h, v, l)] = Side(h, v, l + 1)
        BY <1>3, <2>2, Zenon DEF Toward
      <3>3. Toward(r2, x, l) <=> Side(h, v, l + 1) = Side(h, x, l + 1)
        BY <1>3, <3>1, <3>2, Zenon DEF Toward
      <3>4. QED
        BY <2>3, <3>1, <3>3, Zenon
    <2>4. CASE Prefix(h, x, l) # Prefix(h, v, l)
      <3>1. NodesLie(h, x, v, n)
        BY <1>1, <2>1, Nodes
      <3>2. /\ Node(h, x, l) = Node(h, v, l) <=> Prefix(h, x, l) = Prefix(h, v, l)
            /\ \A j, k \in 0..(h - 1) : Node(h, x, j) = Node(h, v, k) => j = k
        BY <3>1, Zenon DEF NodesLie
      <3>3. Node(h, x, l) \in 0..(n - 2)
        BY <3>1, Zenon DEF NodesLie
      <3>4. ASSUME NEW j \in 0..(h - 1) PROVE Node(h, x, l) # Node(h, v, j)
        BY <2>4, <3>2, Zenon
      <3>5. r2.bits[Node(h, x, l)] = r.bits[Node(h, x, l)]
        BY <2>2, <3>3, <3>4, Zenon
      <3>6. Toward(r2, x, l) <=> Toward(r, x, l)
        BY <1>3, <3>5, Zenon DEF Toward
      <3>7. QED
        BY <2>4, <3>6, Zenon
    <2>5. QED
      BY <2>3, <2>4, Zenon
  <1>4. ASSUME NEW x \in 0..(n - 1), NEW l \in 0..h
        PROVE  /\ phi[x] \in 0..(n - 1) /\ phi[w] \in 0..(n - 1)
               /\ Prefix(h, x, l) = Prefix(h, w, l)
                    <=> Prefix(h, phi[x], l) = Prefix(h, phi[w], l)
    <2>1. phi[x] \in 0..(n - 1) /\ phi[w] \in 0..(n - 1)
      OBVIOUS
    <2>2. Prefix(h, x, l) = Prefix(h, w, l)
            <=> \A j \in 0..(l - 1) : Toward(p, x, j) <=> Toward(p, w, j)
      <3>1. Together(p, h, x, w, l)
        BY <1>1, Shared
      <3>2. QED
        BY <3>1, Zenon DEF Together
    <2>3. Prefix(h, phi[x], l) = Prefix(h, phi[w], l)
            <=> \A j \in 0..(l - 1) : Toward(q, phi[x], j) <=> Toward(q, phi[w], j)
      <3>1. Together(q, h, phi[x], phi[w], l)
        BY <1>1, <2>1, Shared
      <3>2. QED
        BY <3>1, Zenon DEF Together
    <2>4. \A j \in 0..(l - 1) : j \in 0..(h - 1)
      <3>1. h \in Nat
        BY <1>1, Zenon
      <3>2. QED
        BY <3>1
    <2>5. \A j \in 0..(l - 1) : /\ Toward(p, x, j) <=> Toward(q, phi[x], j)
                                /\ Toward(p, w, j) <=> Toward(q, phi[w], j)
      BY <1>2, <2>4, Zenon
    <2>6. ASSUME \A j \in 0..(l - 1) : Toward(p, x, j) <=> Toward(p, w, j)
          PROVE  \A j \in 0..(l - 1) : Toward(q, phi[x], j) <=> Toward(q, phi[w], j)
      BY <2>5, <2>6, Zenon
    <2>7. ASSUME \A j \in 0..(l - 1) : Toward(q, phi[x], j) <=> Toward(q, phi[w], j)
          PROVE  \A j \in 0..(l - 1) : Toward(p, x, j) <=> Toward(p, w, j)
      BY <2>5, <2>7, Zenon
    <2> DEFINE A == \A j \in 0..(l - 1) : Toward(p, x, j) <=> Toward(p, w, j)
               B == \A j \in 0..(l - 1) : Toward(q, phi[x], j) <=> Toward(q, phi[w], j)
    <2>8. A <=> B
      BY <2>6, <2>7, Zenon
    <2>9. /\ Prefix(h, x, l) = Prefix(h, w, l) <=> A
          /\ Prefix(h, phi[x], l) = Prefix(h, phi[w], l) <=> B
      BY <2>2, <2>3, Zenon
    <2> HIDE DEF A, B
    <2>10. QED
      BY <2>1, <2>8, <2>9, Zenon
  <1>5. ASSUME NEW x \in 0..(n - 1), NEW l \in 0..(h - 1)
        PROVE  Toward(p2, x, l) <=> Toward(q2, phi[x], l)
    <2>1. l \in 0..h /\ l + 1 \in 0..h
      <3>1. h \in Nat
        BY <1>1, Zenon
      <3>2. QED
        BY <3>1
    <2>2. /\ Prefix(h, x, l) = Prefix(h, w, l) <=> Prefix(h, phi[x], l) = Prefix(h, phi[w], l)
          /\ Prefix(h, x, l + 1) = Prefix(h, w, l + 1)
               <=> Prefix(h, phi[x], l + 1) = Prefix(h, phi[w], l + 1)
          /\ phi[x] \in 0..(n - 1) /\ phi[w] \in 0..(n - 1)
      BY <1>4, <2>1, Zenon
    <2>3. Toward(p2, x, l) <=> IF Prefix(h, x, l) = Prefix(h, w, l)
                               THEN Prefix(h, x, l + 1) = Prefix(h, w, l + 1)
                               ELSE Toward(p, x, l)
      BY <1>1, <1>3
    <2>4. Toward(q2, phi[x], l) <=> IF Prefix(h, phi[x], l) = Prefix(h, phi[w], l)
                                    THEN Prefix(h, phi[x], l + 1) = Prefix(h, phi[w], l + 1)
                                    ELSE Toward(q, phi[x], l)
      BY <1>1, <1>3, <2>2
    <2>5. Toward(p, x, l) <=> Toward(q, phi[x], l)
      BY <1>2
    <2>6. QED
      BY <2>2, <2>3, <2>4, <2>5, Zenon
  <1>6. QED
    BY <1>1, <1>5, Zenon DEF SameTrees

\* miss takes a way and its image.
LEMMA SameVictim ==
    ASSUME NEW n \in Nat \ {0}, NEW p \in Trees(n), NEW q \in Trees(n),
           NEW phi \in [0..(n - 1) -> 0..(n - 1)], SameTrees(p, q, phi, n)
    PROVE  Miss(q).way = phi[Miss(p).way]
  <1> DEFINE h == p.height
             v == Miss(p).way
             u == Miss(q).way
  <1>1. h = p.height /\ h = q.height /\ h \in Nat
    BY TreeFields DEF SameTrees
  <1>2. v \in 0..(n - 1) /\ \A l \in 0..(h - 1) : ~Toward(p, v, l)
    BY TreeMiss, Zenon
  <1>3. u \in 0..(n - 1) /\ \A l \in 0..(h - 1) : ~Toward(q, u, l)
    BY <1>1, TreeMiss, Zenon
  <1> HIDE DEF h, u, v
  <1>4. phi[v] \in 0..(n - 1) /\ \A l \in 0..(h - 1) : ~Toward(q, phi[v], l)
    <2>1. phi[v] \in 0..(n - 1)
      BY <1>2
    <2>2. QED
      BY <1>2, <2>1, Zenon DEF SameTrees, h
  <1>5. h \in 0..h
    BY <1>1
  <1>6. /\ Together(q, h, u, phi[v], h)
        /\ Prefix(h, u, h) = Prefix(h, phi[v], h) <=> u = phi[v]
    <2>1. Together(q, h, u, phi[v], h)
      BY <1>1, <1>3, <1>4, <1>5, Shared
    <2>2. Prefix(h, u, h) = u /\ Prefix(h, phi[v], h) = phi[v]
      <3>1. 2^h = n /\ Doubling(h)
        BY <1>1, TreeFields
      <3>2. u \in 0..(2^h - 1) /\ phi[v] \in 0..(2^h - 1)
        BY <1>3, <1>4, <3>1
      <3>3. QED
        BY <1>1, <3>1, <3>2, Digits
    <2>3. QED
      BY <2>1, <2>2
  <1>7. u = phi[v]
    BY <1>3, <1>4, <1>6, Zenon DEF Together
  <1>8. QED
    BY <1>7 DEF u, v

\* All trees of a height are the same but for the names of the ways.
LEMMA TreesAlike ==
    ASSUME NEW n \in Nat \ {0}, NEW p \in Trees(n), NEW q \in Trees(n), p.height = q.height
    PROVE  \E phi \in [0..(n - 1) -> 0..(n - 1)] :
             /\ \A x, y \in 0..(n - 1) : phi[x] = phi[y] => x = y
             /\ SameTrees(p, q, phi, n)
  <1> DEFINE h == p.height
             W == 0..(n - 1)
             Fits(x, v) == \A l \in 0..(h - 1) : Toward(p, x, l) <=> Toward(q, v, l)
             phi == [x \in W |-> CHOOSE v \in W : Fits(x, v)]
  <1>1. h \in Nat /\ h = p.height /\ h = q.height
    BY TreeFields
  <1>2. ASSUME NEW x \in W PROVE \E v \in W : Fits(x, v)
    <2> DEFINE side == [l \in 1..h |-> Toward(p, x, l - 1)]
    <2>1. side \in [1..q.height -> BOOLEAN]
      BY DEF Toward
    <2>2. ASSUME NEW l \in 0..(h - 1) PROVE side[l + 1] <=> Toward(p, x, l)
      <3>1. l + 1 \in 1..h /\ (l + 1) - 1 = l
        BY <1>1
      <3>2. QED
        BY <3>1
    <2> HIDE DEF side
    <2>3. PICK v \in W : \A l \in 0..(q.height - 1) : Toward(q, v, l) <=> side[l + 1]
      BY <2>1, TreeFind
    <2>4. Fits(x, v)
      BY <1>1, <2>2, <2>3, Zenon
    <2>5. QED
      BY <2>4
  <1> HIDE DEF Fits
  <1>3. phi \in [W -> W] /\ \A x \in W : Fits(x, phi[x])
    BY <1>2
  <1> HIDE DEF phi
  <1>4. SameTrees(p, q, phi, n)
    BY <1>3, Zenon DEF SameTrees, Fits
  <1> HIDE DEF h
  <1>5. ASSUME NEW x \in W, NEW y \in W, phi[x] = phi[y] PROVE x = y
    <2>1. Fits(x, phi[x]) /\ Fits(y, phi[x])
      BY <1>3, <1>5
    <2>2. \A l \in 0..(h - 1) : Toward(p, x, l) <=> Toward(p, y, l)
      BY <2>1, Zenon DEF Fits
    <2>3. h \in 0..h
      BY <1>1
    <2>4. /\ Together(p, h, x, y, h)
          /\ Prefix(h, x, h) = Prefix(h, y, h) <=> x = y
      BY <1>1, <2>3, Shared
    <2>5. \A l \in 0..(h - 1) : Toward(p, x, l) <=> Toward(p, y, l)
      BY <2>2, <1>1
    <2>6. QED
      BY <2>4, <2>5, Zenon DEF Together
  <1>6. QED
    BY <1>3, <1>4, <1>5

\* Every way has one that is mapped to it.
LEMMA Onto ==
    ASSUME NEW n \in Nat \ {0}, NEW phi, Renames(phi, n), NEW v \in 0..(n - 1)
    PROVE  \E w \in 0..(n - 1) : phi[w] = v
  <1> DEFINE W == 0..(n - 1)
  <1>1. phi \in Injection(W, W)
    BY DEF Renames, Injection, IsInjective
  <1>2. IsFiniteSet(W) /\ Cardinality(W) = n
    <2>1. ~(0 > n - 1) /\ (n - 1) - 0 + 1 = n /\ 0 \in Int /\ n - 1 \in Int
      OBVIOUS
    <2>2. QED
      BY <2>1, FS_Interval
  <1>3. phi \in Surjection(W, W)
    BY <1>1, <1>2, FS_Injection
  <1>4. QED
    BY <1>3 DEF Surjection

\* All orders are the same but for the names of the ways.
LEMMA OrdersAlike ==
    ASSUME NEW n \in Nat \ {0}, NEW p \in OrderPolicies(n), NEW q \in OrderPolicies(n)
    PROVE  \E phi : Renames(phi, n) /\ SameOrders(p, q, phi)
  <1> DEFINE W == 0..(n - 1)
             at == [w \in W |-> CHOOSE k \in 1..n : p.order[k] = w]
             phi == [w \in W |-> q.order[at[w]]]
  <1>1. p.order \in Orders(n) /\ q.order \in Orders(n)
    BY DEF OrderPolicies
  <1>2. \A w \in W : at[w] \in 1..n /\ p.order[at[w]] = w
    BY <1>1, EveryWay
  <1> HIDE DEF at
  <1>3. phi \in [W -> W] /\ \A w \in W : phi[w] = q.order[at[w]]
    BY <1>1, <1>2 DEF Orders
  <1> HIDE DEF phi
  <1>4. ASSUME NEW u \in W, NEW w \in W, phi[u] = phi[w] PROVE u = w
    <2>1. at[u] \in 1..n /\ at[w] \in 1..n /\ q.order[at[u]] = q.order[at[w]]
      BY <1>2, <1>3, <1>4, Zenon
    <2>2. at[u] = at[w]
      BY <1>1, <2>1 DEF Orders
    <2>3. QED
      BY <1>2, <2>2
  <1>5. ASSUME NEW k \in 1..n PROVE q.order[k] = phi[p.order[k]]
    <2>1. p.order[k] \in W
      BY <1>1 DEF Orders
    <2>2. at[p.order[k]] = k
      BY <1>1, <1>2, <2>1 DEF Orders
    <2>3. QED
      BY <1>3, <2>1, <2>2
  <1>6. DOMAIN p.order = 1..n
    BY <1>1 DEF Orders
  <1>7. QED
    BY <1>3, <1>4, <1>5, <1>6 DEF Renames, SameOrders

\* What is needed for two objects to be the same but for the names of the ways.
Related(p, q, n) ==
    \/ p \in OrderPolicies(n) /\ q \in OrderPolicies(n) /\ p.kind = q.kind
    \/ p \in Trees(n) /\ q \in Trees(n) /\ p.height = q.height

LEMMA AlikeExists ==
    ASSUME NEW n \in Nat \ {0}, NEW p, NEW q, Related(p, q, n)
    PROVE  \E phi : Alike(p, q, phi, n)
  <1>1. CASE p \in OrderPolicies(n) /\ q \in OrderPolicies(n) /\ p.kind = q.kind
    BY <1>1, OrdersAlike DEF Alike
  <1>2. CASE p \in Trees(n) /\ q \in Trees(n) /\ p.height = q.height
    <2>1. PICK phi \in [0..(n - 1) -> 0..(n - 1)] :
            /\ \A x, y \in 0..(n - 1) : phi[x] = phi[y] => x = y
            /\ SameTrees(p, q, phi, n)
      BY <1>2, TreesAlike
    <2>2. QED
      BY <1>2, <2>1 DEF Alike, Renames
  <1>3. QED
    BY <1>1, <1>2 DEF Related

\* hit keeps two objects alike.
LEMMA AlikeHit ==
    ASSUME NEW n \in Nat \ {0}, NEW p, NEW q, NEW phi, Alike(p, q, phi, n),
           NEW w \in 0..(n - 1)
    PROVE  Alike(Hit(p, w), Hit(q, phi[w]), phi, n)
  <1>1. Renames(phi, n) /\ phi[w] \in 0..(n - 1) /\ phi \in [0..(n - 1) -> 0..(n - 1)]
    BY DEF Alike, Renames
  <1>2. CASE p \in OrderPolicies(n) /\ q \in OrderPolicies(n) /\ p.kind = q.kind
             /\ SameOrders(p, q, phi)
    <2>1. p.order \in Orders(n) /\ q.order \in Orders(n) /\ p.kind \in {"FIFO", "LRU"}
      BY <1>2 DEF OrderPolicies
    <2>2. PICK i \in 1..n : p.order[i] = w
      BY <2>1, EveryWay
    <2>3. \A k \in 1..n : q.order[k] = phi[p.order[k]]
      BY <1>2, <2>1 DEF SameOrders, Orders
    <2>4. q.order[i] = phi[w]
      BY <2>2, <2>3
    <2> DEFINE p2 == Hit(p, w)
               q2 == Hit(q, phi[w])
    <2> HIDE DEF p2, q2
    <2>5. p \in OrderPolicies(n) /\ q \in OrderPolicies(n)
      BY <1>2
    <2>6. /\ p2 \in OrderPolicies(n) /\ p2.kind = p.kind
          /\ p.kind = "FIFO" => p2 = p
          /\ p.kind = "LRU" => \A k \in 1..n : p2.order[k] = p.order[Before(i, k)]
      <3>1. p2 = Hit(p, p.order[i])
        BY <2>2 DEF p2
      <3>2. \A j \in 1..n :
              /\ Hit(p, p.order[j]) \in OrderPolicies(n) /\ Hit(p, p.order[j]).kind = p.kind
              /\ p.kind = "FIFO" => Hit(p, p.order[j]) = p
              /\ p.kind = "LRU" => \A k \in 1..n :
                    Hit(p, p.order[j]).order[k] = p.order[Before(j, k)]
        BY <2>5, OrderSteps
      <3>3. QED
        BY <3>1, <3>2, Zenon
    <2>7. /\ q2 \in OrderPolicies(n) /\ q2.kind = q.kind
          /\ q.kind = "FIFO" => q2 = q
          /\ q.kind = "LRU" => \A k \in 1..n : q2.order[k] = q.order[Before(i, k)]
      <3>1. q2 = Hit(q, q.order[i])
        BY <2>4 DEF q2
      <3>2. \A j \in 1..n :
              /\ Hit(q, q.order[j]) \in OrderPolicies(n) /\ Hit(q, q.order[j]).kind = q.kind
              /\ q.kind = "FIFO" => Hit(q, q.order[j]) = q
              /\ q.kind = "LRU" => \A k \in 1..n :
                    Hit(q, q.order[j]).order[k] = q.order[Before(j, k)]
        BY <2>5, OrderSteps
      <3>3. QED
        BY <3>1, <3>2, Zenon
    <2>8. SameOrders(p2, q2, phi)
      <3>1. CASE p.kind = "FIFO"
        BY <1>2, <2>6, <2>7, <3>1
      <3>2. CASE p.kind = "LRU"
        <4>1. \A k \in 1..n : Before(i, k) \in 1..n
          BY BeforeFacts
        <4>2. \A k \in 1..n : q2.order[k] = phi[p2.order[k]]
          BY <1>2, <2>3, <2>6, <2>7, <3>2, <4>1
        <4>3. DOMAIN p2.order = 1..n
          BY <2>6 DEF OrderPolicies, Orders
        <4>4. QED
          BY <4>2, <4>3 DEF SameOrders
      <3>3. QED
        BY <2>1, <3>1, <3>2
    <2>9. QED
      BY <1>1, <1>2, <2>6, <2>7, <2>8 DEF Alike, p2, q2
  <1>3. CASE p \in Trees(n) /\ q \in Trees(n) /\ SameTrees(p, q, phi, n)
    <2>1. Hit(p, w) \in Trees(n) /\ Turned(p, Hit(p, w), w)
      BY <1>3, TreeHit
    <2>2. Hit(q, phi[w]) \in Trees(n) /\ Turned(q, Hit(q, phi[w]), phi[w])
      BY <1>1, <1>3, TreeHit
    <2>3. SameTrees(Hit(p, w), Hit(q, phi[w]), phi, n)
      BY <1>1, <1>3, <2>1, <2>2, TurnedSame
    <2>4. QED
      BY <1>1, <2>1, <2>2, <2>3 DEF Alike
  <1>4. QED
    BY <1>2, <1>3 DEF Alike

\* miss gives up a way and its image and keeps two objects alike.
LEMMA AlikeMiss ==
    ASSUME NEW n \in Nat \ {0}, NEW p, NEW q, NEW phi, Alike(p, q, phi, n)
    PROVE  /\ Miss(q).way = phi[Miss(p).way]
           /\ Alike(Miss(p).policy, Miss(q).policy, phi, n)
  <1>1. Renames(phi, n) /\ phi \in [0..(n - 1) -> 0..(n - 1)]
    BY DEF Alike, Renames
  <1>2. CASE p \in OrderPolicies(n) /\ q \in OrderPolicies(n) /\ p.kind = q.kind
             /\ SameOrders(p, q, phi)
    <2>1. p.order \in Orders(n) /\ q.order \in Orders(n)
      BY <1>2 DEF OrderPolicies
    <2>2. \A k \in 1..n : q.order[k] = phi[p.order[k]]
      BY <1>2, <2>1 DEF SameOrders, Orders
    <2> DEFINE p2 == Miss(p).policy
               q2 == Miss(q).policy
    <2>3. /\ n \in 1..n /\ Miss(p).way = p.order[n]
          /\ p2 \in OrderPolicies(n) /\ p2.kind = p.kind
          /\ \A k \in 1..n : p2.order[k] = p.order[Before(n, k)]
      BY <1>2, OrderSteps
    <2>4. /\ Miss(q).way = q.order[n]
          /\ q2 \in OrderPolicies(n) /\ q2.kind = q.kind
          /\ \A k \in 1..n : q2.order[k] = q.order[Before(n, k)]
      BY <1>2, OrderSteps
    <2> HIDE DEF p2, q2
    <2>5. \A k \in 1..n : Before(n, k) \in 1..n
      BY <2>3, BeforeFacts
    <2>6. \A k \in 1..n : q2.order[k] = phi[p2.order[k]]
      BY <2>2, <2>3, <2>4, <2>5
    <2>7. DOMAIN p2.order = 1..n
      BY <2>3 DEF OrderPolicies, Orders
    <2>8. SameOrders(p2, q2, phi)
      BY <2>6, <2>7 DEF SameOrders
    <2>9. Miss(q).way = phi[Miss(p).way]
      BY <2>2, <2>3, <2>4
    <2>10. QED
      BY <1>1, <1>2, <2>3, <2>4, <2>8, <2>9 DEF Alike, p2, q2
  <1>3. CASE p \in Trees(n) /\ q \in Trees(n) /\ SameTrees(p, q, phi, n)
    <2>1. /\ Miss(p).way \in 0..(n - 1)
          /\ Miss(p).policy \in Trees(n) /\ Turned(p, Miss(p).policy, Miss(p).way)
      BY <1>3, TreeMiss
    <2>2. Miss(q).policy \in Trees(n) /\ Turned(q, Miss(q).policy, Miss(q).way)
      BY <1>3, TreeMiss
    <2>3. Miss(q).way = phi[Miss(p).way]
      BY <1>1, <1>3, SameVictim
    <2>4. PICK v, p2, q2 : v = Miss(p).way /\ p2 = Miss(p).policy /\ q2 = Miss(q).policy
      OBVIOUS
    <2>5. /\ v \in 0..(n - 1) /\ p2 \in Trees(n) /\ q2 \in Trees(n)
          /\ Turned(p, p2, v) /\ Turned(q, q2, phi[v])
      BY <2>1, <2>2, <2>3, <2>4
    <2>6. SameTrees(p2, q2, phi, n)
      BY <1>1, <1>3, <2>4, <2>5, TurnedSame
    <2>7. QED
      BY <1>1, <2>3, <2>4, <2>5, <2>6 DEF Alike
  <1>4. QED
    BY <1>2, <1>3 DEF Alike

-----------------------------------------------------------------------------
(* One access to a cache set.                                              *)

Sims(n) == [policy : Policies(n), seen : SUBSET Addr,
            addr_way : [Addr -> 0..(n - 1)], way_addr : [0..(n - 1) -> Int]]

\* addr_way is where the address is, if it is anywhere.
Sound(s, n) ==
    /\ s \in Sims(n)
    /\ \A a \in Addr, w \in 0..(n - 1) : s.way_addr[w] = a => s.addr_way[a] = w

\* The simulation: every way holds an address that was accessed, or nothing.
Fresh(s, n) == \A w \in 0..(n - 1) : s.way_addr[w] \in s.seen \cup {Dirty}

\* The same but for the names of the ways and for what was there before.
Holding(s, t, phi, n) ==
    \A w \in 0..(n - 1), a \in s.seen : s.way_addr[w] = a <=> t.way_addr[phi[w]] = a
Same(s, t, n) ==
    /\ s.seen = t.seen
    /\ \E phi : Alike(s.policy, t.policy, phi, n) /\ Holding(s, t, phi, n)

\* The fields of a cache set.
LEMMA SimFields ==
    ASSUME NEW n \in Nat \ {0}, NEW s \in Sims(n)
    PROVE  /\ s = [policy |-> s.policy, seen |-> s.seen, addr_way |-> s.addr_way,
                   way_addr |-> s.way_addr]
           /\ s.policy \in Policies(n) /\ s.seen \in SUBSET Addr
           /\ s.addr_way \in [Addr -> 0..(n - 1)] /\ s.way_addr \in [0..(n - 1) -> Int]
  BY DEF Sims

\* A hit is in a way that holds the address.
LEMMA HitSomewhere ==
    ASSUME NEW n \in Nat \ {0}, NEW s, Sound(s, n), NEW a \in Addr
    PROVE  /\ IsHit(s, a) => s.addr_way[a] \in 0..(n - 1) /\ s.way_addr[s.addr_way[a]] = a
           /\ \A w \in 0..(n - 1) : s.way_addr[w] = a => IsHit(s, a) /\ s.addr_way[a] = w
  <1>1. s.addr_way \in [Addr -> 0..(n - 1)]
    BY SimFields DEF Sound
  <1>2. QED
    BY <1>1 DEF Sound, IsHit

\* The cache set after a hit.
LEMMA HitAccess ==
    ASSUME NEW n \in Nat \ {0}, NEW s, Sound(s, n), NEW a \in Addr, IsHit(s, a)
    PROVE  SimAccess(s, a) = [policy |-> Hit(s.policy, s.addr_way[a]), seen |-> s.seen \cup {a},
                              addr_way |-> s.addr_way, way_addr |-> s.way_addr]
  <1>1. s = [policy |-> s.policy, seen |-> s.seen, addr_way |-> s.addr_way,
             way_addr |-> s.way_addr]
    BY SimFields DEF Sound
  <1>2. SimAccess(s, a) = [[s EXCEPT !.policy = Hit(s.policy, s.addr_way[a])]
                              EXCEPT !.seen = s.seen \cup {a}]
    BY <1>1 DEF SimAccess
  <1>3. QED
    BY <1>1, <1>2

\* The cache set after a miss.
LEMMA MissAccess ==
    ASSUME NEW n \in Nat \ {0}, NEW s, Sound(s, n), NEW a \in Addr, ~IsHit(s, a),
           NEW way, way = Miss(s.policy).way
    PROVE  /\ way \in 0..(n - 1)
           /\ \A w \in 0..(n - 1) : s.way_addr[w] # a
           /\ SimAccess(s, a) = [policy |-> Miss(s.policy).policy, seen |-> s.seen \cup {a},
                                 addr_way |-> [s.addr_way EXCEPT ![a] = way],
                                 way_addr |-> [s.way_addr EXCEPT ![way] = a]]
  <1>1. /\ s \in Sims(n) /\ s.policy \in Policies(n)
        /\ s = [policy |-> s.policy, seen |-> s.seen, addr_way |-> s.addr_way,
                way_addr |-> s.way_addr]
    BY SimFields DEF Sound
  <1>2. way \in 0..(n - 1)
    BY <1>1, PolicySteps
  <1>3. \A w \in 0..(n - 1) : s.way_addr[w] # a
    BY HitSomewhere
  <1>4. SimAccess(s, a) = [[s EXCEPT !.policy = Miss(s.policy).policy, !.addr_way[a] = way,
                                     !.way_addr[way] = a]
                              EXCEPT !.seen = s.seen \cup {a}]
    BY <1>1 DEF SimAccess
  <1>5. SimAccess(s, a) = [policy |-> Miss(s.policy).policy, seen |-> s.seen \cup {a},
                           addr_way |-> [s.addr_way EXCEPT ![a] = way],
                           way_addr |-> [s.way_addr EXCEPT ![way] = a]]
    BY <1>1, <1>4
  <1>6. QED
    BY <1>2, <1>3, <1>5

\* An access keeps addr_way right.
LEMMA SoundAccess ==
    ASSUME NEW n \in Nat \ {0}, NEW s, Sound(s, n), NEW a \in Addr
    PROVE  Sound(SimAccess(s, a), n)
  <1> DEFINE t == SimAccess(s, a)
  <1>1. s \in Sims(n) /\ \A b \in Addr, w \in 0..(n - 1) : s.way_addr[w] = b => s.addr_way[b] = w
    BY DEF Sound
  <1>2. /\ s.policy \in Policies(n) /\ s.seen \cup {a} \in SUBSET Addr
        /\ s.addr_way \in [Addr -> 0..(n - 1)] /\ s.way_addr \in [0..(n - 1) -> Int]
    BY <1>1, SimFields
  <1>3. CASE IsHit(s, a)
    <2>1. t = [policy |-> Hit(s.policy, s.addr_way[a]), seen |-> s.seen \cup {a},
               addr_way |-> s.addr_way, way_addr |-> s.way_addr]
      BY <1>3, HitAccess
    <2>2. Hit(s.policy, s.addr_way[a]) \in Policies(n)
      BY <1>2, PolicySteps
    <2> HIDE DEF t
    <2>3. t \in Sims(n)
      BY <1>2, <2>1, <2>2 DEF Sims
    <2>4. t.way_addr = s.way_addr /\ t.addr_way = s.addr_way
      BY <2>1
    <2>5. QED
      BY <1>1, <2>3, <2>4 DEF Sound, t
  <1>4. CASE ~IsHit(s, a)
    <2>0. PICK way : way = Miss(s.policy).way
      OBVIOUS
    <2>1. /\ way \in 0..(n - 1)
          /\ \A w \in 0..(n - 1) : s.way_addr[w] # a
          /\ t = [policy |-> Miss(s.policy).policy, seen |-> s.seen \cup {a},
                  addr_way |-> [s.addr_way EXCEPT ![a] = way],
                  way_addr |-> [s.way_addr EXCEPT ![way] = a]]
      BY <1>4, <2>0, MissAccess
    <2>2. Miss(s.policy).policy \in Policies(n)
      BY <1>2, PolicySteps
    <2> HIDE DEF t
    <2>3. /\ t.addr_way = [s.addr_way EXCEPT ![a] = way]
          /\ t.way_addr = [s.way_addr EXCEPT ![way] = a]
      BY <2>1
    <2>4. a \in Int
      BY ReversalAssumption DEF Addr
    <2>5. /\ [s.addr_way EXCEPT ![a] = way] \in [Addr -> 0..(n - 1)]
          /\ [s.way_addr EXCEPT ![way] = a] \in [0..(n - 1) -> Int]
      BY <1>2, <2>1, <2>4
    <2>6. t \in Sims(n)
      BY <1>2, <2>1, <2>2, <2>5 DEF Sims
    <2>7. ASSUME NEW b \in Addr, NEW w \in 0..(n - 1), t.way_addr[w] = b PROVE t.addr_way[b] = w
      <3>1. CASE w = way
        BY <1>2, <2>1, <2>3, <2>7, <3>1
      <3>2. CASE w # way
        <4>1. s.way_addr[w] = b /\ b # a
          BY <1>2, <2>1, <2>3, <2>7, <3>2
        <4>2. QED
          BY <1>1, <1>2, <2>3, <4>1
      <3>3. QED
        BY <3>1, <3>2
    <2>8. QED
      BY <2>6, <2>7 DEF Sound, t
  <1>5. QED
    BY <1>3, <1>4

\* In the simulation only addresses that were accessed can be hit, and it stays so.
LEMMA FreshAccess ==
    ASSUME NEW n \in Nat \ {0}, NEW s, Sound(s, n), Fresh(s, n), NEW a \in Addr
    PROVE  /\ IsHit(s, a) => a \in s.seen
           /\ Fresh(SimAccess(s, a), n)
  <1> DEFINE t == SimAccess(s, a)
  <1>1. s \in Sims(n)
    BY DEF Sound
  <1>2. s.addr_way \in [Addr -> 0..(n - 1)] /\ s.way_addr \in [0..(n - 1) -> Int] /\ a # Dirty
    BY <1>1, SimFields DEF Dirty, Addr
  <1>3. IsHit(s, a) => a \in s.seen
    BY <1>2 DEF IsHit, Fresh
  <1>4. CASE IsHit(s, a)
    <2>1. t.seen = s.seen \cup {a} /\ t.way_addr = s.way_addr
      BY <1>4, HitAccess
    <2>2. QED
      BY <1>3, <2>1 DEF Fresh
  <1>5. CASE ~IsHit(s, a)
    <2>0. PICK way : way = Miss(s.policy).way
      OBVIOUS
    <2>1. /\ way \in 0..(n - 1)
          /\ t = [policy |-> Miss(s.policy).policy, seen |-> s.seen \cup {a},
                  addr_way |-> [s.addr_way EXCEPT ![a] = way],
                  way_addr |-> [s.way_addr EXCEPT ![way] = a]]
      BY <1>5, <2>0, MissAccess
    <2> HIDE DEF t
    <2>2. t.seen = s.seen \cup {a} /\ t.way_addr = [s.way_addr EXCEPT ![way] = a]
      BY <2>1
    <2>3. QED
      BY <1>2, <1>3, <2>1, <2>2 DEF Fresh, t
  <1>6. QED
    BY <1>3, <1>4, <1>5

\* As long as a cache set is only hit in addresses that were accessed, it is hit
\* exactly when the simulation is, and the two stay the same.
LEMMA SameAccess ==
    ASSUME NEW n \in Nat \ {0}, NEW s, NEW t, Sound(s, n), Sound(t, n), Fresh(s, n),
           Same(s, t, n), NEW a \in Addr, IsHit(t, a) => a \in t.seen
    PROVE  /\ IsHit(s, a) <=> IsHit(t, a)
           /\ Same(SimAccess(s, a), SimAccess(t, a), n)
  <1>1. PICK phi : /\ s.seen = t.seen
                   /\ Alike(s.policy, t.policy, phi, n) /\ Holding(s, t, phi, n)
    BY DEF Same
  <1>2. /\ Renames(phi, n) /\ phi \in [0..(n - 1) -> 0..(n - 1)]
        /\ \A u, w \in 0..(n - 1) : phi[u] = phi[w] => u = w
    BY <1>1 DEF Alike, Renames
  <1>3. ASSUME IsHit(s, a)
        PROVE  /\ a \in s.seen /\ IsHit(t, a) /\ s.addr_way[a] \in 0..(n - 1)
               /\ t.addr_way[a] = phi[s.addr_way[a]]
    <2>1. a \in s.seen
      BY <1>3, FreshAccess
    <2>2. PICK w \in 0..(n - 1) : w = s.addr_way[a] /\ s.way_addr[w] = a
      BY <1>3, HitSomewhere
    <2>3. t.way_addr[phi[w]] = a /\ phi[w] \in 0..(n - 1)
      BY <1>1, <1>2, <2>1, <2>2 DEF Holding
    <2>4. IsHit(t, a) /\ t.addr_way[a] = phi[w]
      BY <2>3, HitSomewhere
    <2>5. QED
      BY <2>1, <2>2, <2>4
  <1>4. ASSUME IsHit(t, a) PROVE IsHit(s, a)
    <2>1. a \in s.seen
      BY <1>1, <1>4
    <2>2. PICK v \in 0..(n - 1) : t.way_addr[v] = a
      BY <1>4, HitSomewhere
    <2>3. PICK w \in 0..(n - 1) : phi[w] = v
      BY <1>2, Onto
    <2>4. s.way_addr[w] = a
      BY <1>1, <2>1, <2>2, <2>3 DEF Holding
    <2>5. QED
      BY <2>4, HitSomewhere
  <1>5. CASE IsHit(s, a)
    <2>1. PICK w \in 0..(n - 1) : w = s.addr_way[a] /\ t.addr_way[a] = phi[w]
      BY <1>3, <1>5
    <2>2. a \in s.seen /\ IsHit(t, a)
      BY <1>3, <1>5
    <2> DEFINE s2 == SimAccess(s, a)
               t2 == SimAccess(t, a)
    <2> HIDE DEF s2, t2
    <2>3. s2.policy = Hit(s.policy, w) /\ s2.seen = s.seen /\ s2.way_addr = s.way_addr
      <3>1. s2 = [policy |-> Hit(s.policy, s.addr_way[a]), seen |-> s.seen \cup {a},
                  addr_way |-> s.addr_way, way_addr |-> s.way_addr]
        BY <1>5, HitAccess DEF s2
      <3>2. s.seen \cup {a} = s.seen
        BY <2>2
      <3>3. QED
        BY <2>1, <3>1, <3>2
    <2>4. t2.policy = Hit(t.policy, phi[w]) /\ t2.seen = s.seen /\ t2.way_addr = t.way_addr
      <3>1. t2 = [policy |-> Hit(t.policy, t.addr_way[a]), seen |-> t.seen \cup {a},
                  addr_way |-> t.addr_way, way_addr |-> t.way_addr]
        BY <2>2, HitAccess DEF t2
      <3>2. t.seen \cup {a} = s.seen
        BY <1>1, <2>2
      <3>3. QED
        BY <2>1, <3>1, <3>2
    <2>5. Alike(s2.policy, t2.policy, phi, n)
      BY <1>1, <2>1, <2>3, <2>4, AlikeHit
    <2>6. Holding(s2, t2, phi, n)
      BY <1>1, <2>3, <2>4 DEF Holding
    <2>7. Same(s2, t2, n)
      BY <2>3, <2>4, <2>5, <2>6 DEF Same
    <2>8. QED
      BY <1>5, <2>2, <2>7 DEF s2, t2
  <1>6. CASE ~IsHit(s, a)
    <2>1. ~IsHit(t, a)
      BY <1>4, <1>6
    <2> DEFINE s2 == SimAccess(s, a)
               t2 == SimAccess(t, a)
    <2>2. PICK way, image : way = Miss(s.policy).way /\ image = Miss(t.policy).way
      OBVIOUS
    <2>3. /\ way \in 0..(n - 1) /\ \A w \in 0..(n - 1) : s.way_addr[w] # a
          /\ s2.policy = Miss(s.policy).policy /\ s2.seen = s.seen \cup {a}
          /\ s2.way_addr = [s.way_addr EXCEPT ![way] = a]
      BY <1>6, <2>2, MissAccess
    <2>4. /\ image \in 0..(n - 1) /\ \A w \in 0..(n - 1) : t.way_addr[w] # a
          /\ t2.policy = Miss(t.policy).policy /\ t2.seen = t.seen \cup {a}
          /\ t2.way_addr = [t.way_addr EXCEPT ![image] = a]
      BY <2>1, <2>2, MissAccess
    <2> HIDE DEF s2, t2
    <2>5. image = phi[way] /\ Alike(s2.policy, t2.policy, phi, n)
      BY <1>1, <2>2, <2>3, <2>4, AlikeMiss
    <2>6. DOMAIN s.way_addr = 0..(n - 1) /\ DOMAIN t.way_addr = 0..(n - 1)
      BY SimFields DEF Sound
    <2>7. ASSUME NEW w \in 0..(n - 1), NEW b \in s2.seen
          PROVE  s2.way_addr[w] = b <=> t2.way_addr[phi[w]] = b
      <3>1. CASE w = way
        BY <1>2, <2>3, <2>4, <2>5, <2>6, <3>1
      <3>2. CASE w # way
        <4>1. phi[w] # image /\ phi[w] \in 0..(n - 1)
          BY <1>2, <2>3, <2>5, <3>2
        <4>2. s2.way_addr[w] = s.way_addr[w] /\ t2.way_addr[phi[w]] = t.way_addr[phi[w]]
          BY <2>3, <2>4, <2>6, <3>2, <4>1
        <4>3. CASE b = a
          BY <2>3, <2>4, <4>1, <4>2, <4>3
        <4>4. CASE b \in s.seen
          BY <1>1, <4>2, <4>4 DEF Holding
        <4>5. QED
          BY <2>3, <4>3, <4>4
      <3>3. QED
        BY <3>1, <3>2
    <2>8. s2.seen = t2.seen /\ Holding(s2, t2, phi, n)
      BY <1>1, <2>3, <2>4, <2>7 DEF Holding
    <2>9. Same(s2, t2, n)
      BY <2>5, <2>8 DEF Same
    <2>10. QED
      BY <1>6, <2>1, <2>9 DEF s2, t2
  <1>7. QED
    BY <1>5, <1>6

-----------------------------------------------------------------------------
(* Measurement and simulation.                                             *)

\* The accumulators of a simulation and of a measurement that agree so far.
Agree(x, y, n) ==
    /\ Sound(x.sim, n) /\ Fresh(x.sim, n) /\ x.hits \in Nat
    /\ \/ y.hits = NoResult
       \/ y.hits = x.hits /\ Sound(y.sim, n) /\ Same(x.sim, y.sim, n)

\* They agree after the next access.
LEMMA AgreeStep ==
    ASSUME NEW n \in Nat \ {0}, NEW x, NEW y, Agree(x, y, n), NEW a \in Addr
    PROVE  Agree(Simulate(x, a), SafeMeasure(y, a), n)
  <1> DEFINE u == Simulate(x, a)
             v == SafeMeasure(y, a)
  <1>1. Sound(x.sim, n) /\ Fresh(x.sim, n) /\ x.hits \in Nat
    BY DEF Agree
  <1>2. u.sim = SimAccess(x.sim, a) /\ v.sim = SimAccess(y.sim, a)
    BY DEF Simulate, SafeMeasure
  <1>3. u.hits = IF CountsHit(x.sim, a) THEN x.hits + 1 ELSE x.hits
    BY <1>1 DEF Simulate
  <1>4. v.hits = IF y.hits = NoResult \/ (IsHit(y.sim, a) /\ ~CountsHit(y.sim, a))
                 THEN NoResult
                 ELSE y.hits + IF IsHit(y.sim, a) THEN 1 ELSE 0
    BY DEF SafeMeasure
  <1>5. Sound(u.sim, n) /\ Fresh(u.sim, n) /\ u.hits \in Nat
    <2>1. Sound(SimAccess(x.sim, a), n) /\ Fresh(SimAccess(x.sim, a), n)
      BY <1>1, SoundAccess, FreshAccess
    <2> HIDE DEF u, v
    <2>2. u.hits \in Nat
      BY <1>1, <1>3
    <2>3. QED
      BY <1>2, <2>1, <2>2
  <1> HIDE DEF u, v
  <1>6. CASE y.hits = NoResult
    <2>1. v.hits = NoResult
      BY <1>4, <1>6
    <2>2. QED
      BY <1>5, <2>1 DEF Agree, u, v
  <1>7. CASE y.hits # NoResult
    <2>1. y.hits = x.hits /\ Sound(y.sim, n) /\ Same(x.sim, y.sim, n)
      BY <1>7 DEF Agree
    <2>2. x.sim.seen = y.sim.seen
      BY <2>1 DEF Same
    <2>3. CASE IsHit(y.sim, a) => a \in y.sim.seen
      <3>1. /\ IsHit(x.sim, a) <=> IsHit(y.sim, a)
            /\ Same(u.sim, v.sim, n)
        BY <1>1, <1>2, <2>1, <2>3, SameAccess
      <3>2. Sound(v.sim, n)
        BY <1>2, <2>1, SoundAccess
      <3>3. CountsHit(x.sim, a) <=> CountsHit(y.sim, a)
        BY <2>2, <3>1 DEF CountsHit
      <3>4. CASE IsHit(y.sim, a)
        <4>1. CountsHit(y.sim, a)
          BY <2>3, <3>4 DEF CountsHit
        <4>2. v.hits = y.hits + 1
          BY <1>4, <1>7, <3>4, <4>1, Zenon
        <4>3. u.hits = x.hits + 1
          BY <1>3, <3>3, <4>1, Zenon
        <4>4. QED
          BY <1>5, <2>1, <3>1, <3>2, <4>2, <4>3, Zenon DEF Agree, u, v
      <3>5. CASE ~IsHit(y.sim, a)
        <4>1. ~CountsHit(y.sim, a)
          BY <3>5 DEF CountsHit
        <4>2. v.hits = y.hits
          <5>1. v.hits = y.hits + 0
            BY <1>4, <1>7, <3>5
          <5>2. QED
            BY <1>1, <2>1, <5>1
        <4>3. u.hits = x.hits
          BY <1>3, <3>3, <4>1, Zenon
        <4>4. QED
          BY <1>5, <2>1, <3>1, <3>2, <4>2, <4>3, Zenon DEF Agree, u, v
      <3>6. QED
        BY <3>4, <3>5
    <2>4. CASE IsHit(y.sim, a) /\ a \notin y.sim.seen
      <3>1. ~CountsHit(y.sim, a)
        BY <2>4 DEF CountsHit
      <3>2. v.hits = NoResult
        BY <1>4, <1>7, <2>4, <3>1
      <3>3. QED
        BY <1>5, <3>2 DEF Agree, u, v
    <2>5. QED
      BY <2>3, <2>4
  <1>8. QED
    BY <1>6, <1>7

\* A measurement has no result or the hits of the simulation, whatever the ways held
\* before: a hit counts in both or the measurement is given up.
LEMMA HitsAgree ==
    ASSUME NEW n \in Nat \ {0}, NEW s, NEW t, Sound(s, n), Sound(t, n), Fresh(s, n),
           Same(s, t, n), NEW q \in Seq(Addr)
    PROVE  /\ HitsFrom(s, q) \in Nat
           /\ safe_measure_sequence(t, q) \in {NoResult, HitsFrom(s, q)}
  <1> DEFINE sims == [name |-> "simulate"]
             meas == [name |-> "measure"]
             x0 == [sim |-> s, hits |-> 0]
             y0 == [sim |-> t, hits |-> 0]
             m == Len(q)
  <1>0. m \in Nat /\ \A i \in 1..m : q[i] \in Addr
    OBVIOUS
  <1>1. Agree(x0, y0, n)
    BY DEF Agree
  <1>2. \A x, e : Pass(sims, x, e) = Simulate(x, e) /\ Pass(meas, x, e) = SafeMeasure(x, e)
    BY DEF Pass
  <1> HIDE DEF sims, meas, x0, y0, m
  <1>3. PICK F : Ran(F, sims, x0, q) /\ Looped(sims, x0, q) = F[m]
    BY <1>0, LoopRan, Zenon DEF m
  <1>4. PICK G : Ran(G, meas, y0, q) /\ Looped(meas, y0, q) = G[m]
    BY <1>0, LoopRan, Zenon DEF m
  <1> DEFINE T == {i \in Nat : i \in 0..m => Agree(F[i], G[i], n)}
  <1>5. 0 \in T
    <2>1. F[0] = x0 /\ G[0] = y0
      BY <1>3, <1>4 DEF Ran
    <2>2. QED
      BY <1>1, <2>1
  <1>6. ASSUME NEW i \in Nat, i \in T PROVE i + 1 \in T
    <2> SUFFICES ASSUME i + 1 \in 0..m PROVE Agree(F[i + 1], G[i + 1], n)
      OBVIOUS
    <2>1. i \in 0..m /\ i + 1 \in 1..m /\ (i + 1) - 1 = i
      BY <1>0
    <2>2. Agree(F[i], G[i], n) /\ q[i + 1] \in Addr
      BY <1>0, <1>6, <2>1
    <2>3. F[i + 1] = Simulate(F[i], q[i + 1]) /\ G[i + 1] = SafeMeasure(G[i], q[i + 1])
      <3>1. F[i + 1] = Pass(sims, F[(i + 1) - 1], q[i + 1])
        BY <1>3, <2>1, Zenon DEF Ran, m
      <3>2. G[i + 1] = Pass(meas, G[(i + 1) - 1], q[i + 1])
        BY <1>4, <2>1, Zenon DEF Ran, m
      <3>3. QED
        BY <1>2, <2>1, <3>1, <3>2, Zenon
    <2>4. QED
      BY <2>2, <2>3, AgreeStep
  <1> HIDE DEF T
  <1>7. \A i \in Nat : i \in T
    BY <1>5, <1>6, Induct, Zenon
  <1>8. Agree(F[m], G[m], n)
    <2>1. m \in 0..m
      BY <1>0
    <2>2. QED
      BY <1>0, <1>7, <2>1 DEF T
  <1>9. HitsFrom(s, q) = F[m].hits /\ safe_measure_sequence(t, q) = G[m].hits
    <2>1. HitsFrom(s, q) = Looped(sims, x0, q).hits
      BY HitsLoop DEF sims, x0
    <2>2. safe_measure_sequence(t, q) = Looped(meas, y0, q).hits
      BY SafeLoop DEF meas, y0
    <2>3. QED
      BY <1>3, <1>4, <2>1, <2>2
  <1>10. QED
    BY <1>8, <1>9 DEF Agree

-----------------------------------------------------------------------------
(* The cache sets that are measured and simulated.                         *)

\* The remainders of the numbers up to two turns.
LEMMA Turns ==
    ASSUME NEW n \in Nat \ {0}, NEW x \in 0..(n + n)
    PROVE  /\ x < n => x % n = x
           /\ n <= x /\ x < n + n => x % n = x - n
           /\ x = n + n => x % n = 0
  <1>0. \A q \in Nat, r \in 0..(n - 1) : (n * q + r) % n = r
    OBVIOUS
  <1>1. ASSUME x < n PROVE x % n = x
    BY <1>1
  <1>2. ASSUME n <= x, x < n + n PROVE x % n = x - n
    <2>1. x - n \in 0..(n - 1) /\ n * 1 + (x - n) = x
      BY <1>2
    <2>2. (n * 1 + (x - n)) % n = x - n
      BY <1>0, <2>1
    <2>3. QED
      BY <2>1, <2>2
  <1>3. ASSUME x = n + n PROVE x % n = 0
    <2>1. 0 \in 0..(n - 1) /\ n * 2 + 0 = x
      BY <1>3
    <2>2. (n * 2 + 0) % n = 0
      BY <1>0, <2>1
    <2>3. QED
      BY <2>1, <2>2
  <1>4. QED
    BY <1>1, <1>2, <1>3

\* What accesses to other addresses make of a list has the same kind.
LEMMA UsedOrders ==
    ASSUME NEW n \in Nat \ {0}, NEW p \in OrderPolicies(n), NEW q \in Used(p)
    PROVE  q \in OrderPolicies(n) /\ q.kind = p.kind
  <1>1. /\ p = [kind |-> p.kind, order |-> p.order] /\ Ways(p) = n
        /\ p.kind \in {"FIFO", "LRU"}
    BY OrderSteps DEF OrderPolicies
  <1>2. CASE p.kind = "FIFO"
    <2>1. Used(p) = {[p EXCEPT !.order = [i \in 1..n |-> (i + k) % n]] : k \in 1..n}
      BY <1>1, <1>2 DEF Used
    <2>2. PICK k \in 1..n : q = [p EXCEPT !.order = [i \in 1..n |-> (i + k) % n]]
      BY <2>1
    <2>3. [i \in 1..n |-> (i + k) % n] \in Orders(n)
      <3>1. ASSUME NEW i \in 1..n
            PROVE  /\ i + k \in 0..(n + n)
                   /\ i + k < n => (i + k) % n = i + k
                   /\ n <= i + k /\ i + k < n + n => (i + k) % n = (i + k) - n
                   /\ i + k = n + n => (i + k) % n = 0
        <4>1. i + k \in 0..(n + n)
          OBVIOUS
        <4>2. QED
          BY <4>1, Turns
      <3>2. ASSUME NEW i \in 1..n PROVE (i + k) % n \in 0..(n - 1)
        BY <3>1
      <3>3. ASSUME NEW i \in 1..n, NEW j \in 1..n, (i + k) % n = (j + k) % n PROVE i = j
        BY <3>1, <3>3
      <3>4. QED
        BY <3>2, <3>3 DEF Orders
    <2>4. q = [kind |-> p.kind, order |-> [i \in 1..n |-> (i + k) % n]]
      BY <1>1, <2>2
    <2>5. QED
      BY <1>1, <2>3, <2>4 DEF OrderPolicies
  <1>3. CASE p.kind = "LRU"
    <2>1. Used(p) = {[p EXCEPT !.order = o] : o \in SetToSeqs(0..(n - 1))}
      BY <1>1, <1>3 DEF Used
    <2>2. PICK o \in SetToSeqs(0..(n - 1)) : q = [p EXCEPT !.order = o]
      BY <2>1
    <2>3. Cardinality(0..(n - 1)) = n
      <3>1. ~(0 > n - 1) /\ (n - 1) - 0 + 1 = n /\ 0 \in Int /\ n - 1 \in Int
        OBVIOUS
      <3>2. QED
        BY <3>1, FS_Interval
    <2>4. o \in Orders(n)
      BY <2>3 DEF SetToSeqs, Orders
    <2>5. q = [kind |-> p.kind, order |-> o]
      BY <1>1, <2>2
    <2>6. QED
      BY <1>1, <2>4, <2>5 DEF OrderPolicies
  <1>4. QED
    BY <1>1, <1>2, <1>3

\* What they make of an object is the same as before but for the names of the ways.
LEMMA UsedFacts ==
    ASSUME NEW n \in Nat \ {0}, NEW p \in Policies(n), NEW q \in Used(p)
    PROVE  q \in Policies(n) /\ Related(p, q, n)
  <1>1. CASE p \in OrderPolicies(n)
    BY <1>1, UsedOrders DEF Policies, Related
  <1>2. CASE p \in Trees(n)
    <2>1. /\ p = [kind |-> "PLRU", height |-> p.height, bits |-> p.bits]
          /\ p.kind = "PLRU" /\ p.height \in Nat /\ 2^p.height = n /\ Doubling(p.height)
          /\ DOMAIN p.bits = 0..(n - 2)
      BY <1>2, TreeFields
    <2>2. Used(p) = {[p EXCEPT !.bits = b] : b \in [0..(n - 2) -> {0, 1}]}
      BY <2>1 DEF Used
    <2>3. PICK b \in [0..(n - 2) -> {0, 1}] : q = [p EXCEPT !.bits = b]
      BY <2>2
    <2>4. q = [kind |-> "PLRU", height |-> p.height, bits |-> b]
      BY <2>1, <2>3
    <2>5. q \in Trees(n) /\ q.height = p.height
      BY <2>1, <2>4 DEF Trees
    <2>6. QED
      BY <1>2, <2>5 DEF Policies, Related
  <1>3. QED
    BY <1>1, <1>2 DEF Policies

\* A fresh simulation.
LEMMA FreshStart ==
    ASSUME NEW n \in Nat \ {0}, NEW p \in Policies(n), Symbols \in Nat \ {0}
    PROVE  LET s == NewSim(p, Symbols)
           IN  Sound(s, n) /\ Fresh(s, n) /\ s.seen = {} /\ s.policy = p
  <1> DEFINE s == NewSim(p, Symbols)
  <1>1. Ways(p) = n
    BY PolicySteps
  <1>2. s = [policy |-> p, seen |-> {}, addr_way |-> [a \in Addr |-> 0],
             way_addr |-> [w \in 0..(n - 1) |-> -1]]
    BY <1>1 DEF NewSim, Addr, Dirty
  <1> HIDE DEF s
  <1>3. /\ s.policy = p /\ s.seen = {} /\ s.addr_way = [a \in Addr |-> 0]
        /\ s.way_addr = [w \in 0..(n - 1) |-> -1]
    BY <1>2
  <1>4. /\ s.addr_way \in [Addr -> 0..(n - 1)] /\ s.way_addr \in [0..(n - 1) -> Int]
        /\ \A w \in 0..(n - 1) : s.way_addr[w] = -1
    BY <1>3
  <1>5. s \in Sims(n)
    BY <1>2, <1>3, <1>4 DEF Sims
  <1>6. \A a \in Addr : a # -1
    BY DEF Addr
  <1>7. Sound(s, n)
    BY <1>4, <1>5, <1>6 DEF Sound
  <1>8. Fresh(s, n)
    BY <1>4 DEF Fresh, Dirty
  <1>9. QED
    BY <1>3, <1>7, <1>8 DEF s

\* Before the first access any two with related policies are the same.
LEMMA SameStart ==
    ASSUME NEW n \in Nat \ {0}, NEW s, NEW t, s.seen = {}, t.seen = {},
           Related(s.policy, t.policy, n)
    PROVE  Same(s, t, n)
  <1>1. PICK phi : Alike(s.policy, t.policy, phi, n)
    BY AlikeExists
  <1>2. Holding(s, t, phi, n)
    BY DEF Holding
  <1>3. QED
    BY <1>1, <1>2 DEF Same

\* A cache set after the pollution.
LEMMA PollutedStart ==
    ASSUME NEW n \in Nat \ {0}, Doubling(n), NEW c, c.ways = n, c.policy \in Known(n),
           Symbols \in Nat \ {0}, NEW left \in Addr \cup {Dirty}, NEW t \in Pollution(c, left)
    PROVE  /\ Sound(t, n) /\ t.seen = {}
           /\ Related(make_replacement_policy(c.policy, n), t.policy, n)
  <1> DEFINE p == make_replacement_policy(c.policy, n)
             holds(w) == IF w = 0 /\ left # Dirty THEN left ELSE Symbols + w
  <1>1. p \in Policies(n)
    BY Made
  <1> HIDE DEF p
  <1>2. PICK q \in Used(p) : t = [NewSim(q, Symbols) EXCEPT !.way_addr =
                                     [w \in DOMAIN @ |-> holds(w)]]
    BY DEF Pollution, p
  <1>3. q \in Policies(n) /\ Related(p, q, n) /\ Ways(q) = n
    BY <1>1, UsedFacts, PolicySteps
  <1>4. NewSim(q, Symbols) = [policy |-> q, seen |-> {}, addr_way |-> [a \in Addr |-> 0],
                              way_addr |-> [w \in 0..(n - 1) |-> -1]]
    BY <1>3 DEF NewSim, Addr, Dirty
  <1> HIDE DEF holds
  <1>5. t = [policy |-> q, seen |-> {}, addr_way |-> [a \in Addr |-> 0],
             way_addr |-> [w \in 0..(n - 1) |-> holds(w)]]
    <2> DEFINE ns == NewSim(q, Symbols)
    <2>1. DOMAIN ns.way_addr = 0..(n - 1)
      BY <1>4
    <2>2. t = [ns EXCEPT !.way_addr = [w \in 0..(n - 1) |-> holds(w)]]
      <3>1. t = [ns EXCEPT !.way_addr = [w \in DOMAIN ns.way_addr |-> holds(w)]]
        BY <1>2
      <3>2. QED
        BY <2>1, <3>1, Zenon
    <2> DEFINE f == [w \in 0..(n - 1) |-> holds(w)]
               d == [a \in Addr |-> 0]
               z == [w \in 0..(n - 1) |-> -1]
    <2>3. ns = [policy |-> q, seen |-> {}, addr_way |-> d, way_addr |-> z]
      BY <1>4
    <2>4. t = [ns EXCEPT !.way_addr = f]
      BY <2>2
    <2> HIDE DEF f, d, z, ns
    <2>5. t = [policy |-> q, seen |-> {}, addr_way |-> d, way_addr |-> f]
      BY <2>3, <2>4
    <2>6. QED
      BY <2>5 DEF f, d
  <1>6. /\ t.policy = q /\ t.seen = {} /\ t.addr_way = [a \in Addr |-> 0]
        /\ t.way_addr = [w \in 0..(n - 1) |-> holds(w)]
    BY <1>5
  <1>7. \A w \in 0..(n - 1) : holds(w) \in Int /\ (w # 0 => holds(w) \notin Addr)
    BY DEF holds, Addr, Dirty
  <1>8. \A w \in 0..(n - 1) : holds(w) \in Addr => w = 0
    BY <1>7
  <1>9. /\ t.addr_way \in [Addr -> 0..(n - 1)] /\ t.way_addr \in [0..(n - 1) -> Int]
    BY <1>6, <1>7
  <1>10. t \in Sims(n)
    BY <1>3, <1>5, <1>6, <1>9 DEF Sims
  <1>11. Sound(t, n)
    BY <1>6, <1>8, <1>10 DEF Sound
  <1>12. QED
    BY <1>3, <1>6, <1>11 DEF p

\* What is measured is what the simulation of the policy of the cache counts, or nothing.
LEMMA MeasuredIsSimulated ==
    ASSUME NEW n \in Nat \ {0}, Doubling(n), NEW c, c.ways = n, c.policy \in Known(n),
           Symbols \in Nat \ {0}, NEW left \in Addr \cup {Dirty}, NEW t \in Pollution(c, left),
           NEW q \in Seq(Addr)
    PROVE  LET h == simulate_sequence(q, make_replacement_policy(c.policy, n), Symbols)
           IN  h \in Nat /\ safe_measure_sequence(t, q) \in {NoResult, h}
  <1> DEFINE p == make_replacement_policy(c.policy, n)
             s == NewSim(p, Symbols)
  <1>1. p \in Policies(n)
    BY Made
  <1>2. Sound(t, n) /\ t.seen = {} /\ Related(p, t.policy, n)
    BY PollutedStart
  <1> HIDE DEF p
  <1>3. Sound(s, n) /\ Fresh(s, n) /\ s.seen = {} /\ s.policy = p
    BY <1>1, FreshStart
  <1> HIDE DEF s
  <1>4. Same(s, t, n)
    BY <1>2, <1>3, SameStart
  <1>5. /\ HitsFrom(s, q) \in Nat
        /\ safe_measure_sequence(t, q) \in {NoResult, HitsFrom(s, q)}
    BY <1>2, <1>3, <1>4, HitsAgree
  <1>6. simulate_sequence(q, p, Symbols) = HitsFrom(s, q)
    BY DEF simulate_sequence, s
  <1>7. QED
    BY <1>5, <1>6 DEF p

\* The sequences are made of addresses.
LEMMA SequencesTyped ==
    ASSUME Symbols \in Nat \ {0}, Length \in Nat
    PROVE  Sequences \subseteq Seq(Addr)
  <1> DEFINE loop == [name |-> "sequences"]
             q == [i \in 1..Length |-> i]
  <1>1. Len(q) = Length
    OBVIOUS
  <1>2. \A x, e : Pass(loop, x, e) = Grow(x)
    BY DEF Pass
  <1>3. ASSUME NEW grown, grown \subseteq Seq(Addr) PROVE Grow(grown) \subseteq Seq(Addr)
    <2> SUFFICES ASSUME NEW x \in Grow(grown) PROVE x \in Seq(Addr)
      OBVIOUS
    <2> DEFINE longer(s) == {Append(s, a) : a \in 0..Min({Cardinality(Range(s)), Symbols - 1})}
    <2>1. x \in UNION {longer(s) : s \in grown}
      BY Zenon DEF Grow
    <2> HIDE DEF longer
    <2>2. PICK s \in grown : x \in longer(s)
      BY <2>1
    <2>3. PICK a \in 0..Min({Cardinality(Range(s)), Symbols - 1}) : x = Append(s, a)
      BY <2>2 DEF longer
    <2>4. s \in Seq(Addr)
      BY <1>3
    <2>5. Cardinality(Range(s)) \in Nat
      BY <2>4, DistinctCount
    <2>6. \A m, n \in Int : Min({m, n}) \in Int /\ Min({m, n}) <= n
      <3> SUFFICES ASSUME NEW m \in Int, NEW n \in Int PROVE Min({m, n}) \in Int /\ Min({m, n}) <= n
        OBVIOUS
      <3>1. \E k \in {m, n} : \A l \in {m, n} : k <= l
        OBVIOUS
      <3>2. Min({m, n}) \in {m, n} /\ \A y \in {m, n} : Min({m, n}) <= y
        BY <3>1, Zenon DEF Min
      <3>3. QED
        BY <3>2
    <2>7. a \in Addr
      <3>1. Symbols - 1 \in Int /\ Cardinality(Range(s)) \in Int
        BY <2>5
      <3> DEFINE m == Min({Cardinality(Range(s)), Symbols - 1})
      <3>2. m \in Int /\ m <= Symbols - 1
        BY <2>6, <3>1, Zenon
      <3> HIDE DEF m
      <3>3. QED
        BY <3>2 DEF Addr, m
    <2>8. QED
      BY <2>3, <2>4, <2>7
  <1> HIDE DEF q, loop
  <1>4. PICK F : Ran(F, loop, {<<>>}, q) /\ Looped(loop, {<<>>}, q) = F[Length]
    BY <1>1, LoopRan
  <1> DEFINE T == {i \in Nat : i \in 0..Length => F[i] \subseteq Seq(Addr)}
  <1>5. 0 \in T
    <2>1. F[0] = {<<>>}
      BY <1>4 DEF Ran
    <2>2. <<>> \in Seq(Addr)
      OBVIOUS
    <2>3. QED
      BY <2>1, <2>2
  <1>6. ASSUME NEW i \in Nat, i \in T PROVE i + 1 \in T
    <2> SUFFICES ASSUME i + 1 \in 0..Length PROVE F[i + 1] \subseteq Seq(Addr)
      OBVIOUS
    <2>1. i \in 0..Length /\ i + 1 \in 1..Length /\ (i + 1) - 1 = i
      OBVIOUS
    <2>2. F[i + 1] = Pass(loop, F[(i + 1) - 1], q[i + 1])
      BY <1>1, <1>4, <2>1, Zenon DEF Ran
    <2>3. F[i + 1] = Grow(F[i])
      BY <1>2, <2>1, <2>2, Zenon
    <2>4. QED
      BY <1>3, <1>6, <2>1, <2>3
  <1> HIDE DEF T
  <1>7. \A i \in Nat : i \in T
    BY <1>5, <1>6, Induct, Zenon
  <1>8. Sequences = F[Length]
    BY <1>4, SequencesAre DEF q, loop
  <1>9. QED
    BY <1>7, <1>8 DEF T

-----------------------------------------------------------------------------
(* The majority.                                                           *)

\* The measurements before the k-th and it that are not h.
Wrong(s, h, k) == {i \in 1..k : s[i] # h}

\* How far h is in front.
Lead(m, h) == IF m.maj = h THEN m.count ELSE 1 - m.count

\* A vote moves it by one, upwards when it is for h.
LEMMA VoteStep ==
    ASSUME NEW h \in Int, NEW m \in [maj : Int, count : Nat \ {0}], NEW x \in Int
    PROVE  /\ Vote(m, x) \in [maj : Int, count : Nat \ {0}]
           /\ x = h => Lead(Vote(m, x), h) = Lead(m, h) + 1
           /\ Lead(Vote(m, x), h) >= Lead(m, h) - 1
  <1>1. PICK j \in Int, c \in Nat \ {0} : m = [maj |-> j, count |-> c]
    OBVIOUS
  <1>2. m.maj = j /\ m.count = c
    BY <1>1
  <1>3. Lead(m, h) = IF j = h THEN c ELSE 1 - c
    BY <1>2 DEF Lead
  <1>4. CASE x = j
    <2>1. Vote(m, x) = [maj |-> j, count |-> c + 1]
      BY <1>1, <1>2, <1>4 DEF Vote
    <2>2. Lead(Vote(m, x), h) = IF j = h THEN c + 1 ELSE 1 - (c + 1)
      BY <2>1 DEF Lead
    <2>3. QED
      BY <1>3, <1>4, <2>1, <2>2
  <1>5. CASE x # j /\ c = 1
    <2>1. Vote(m, x) = [maj |-> x, count |-> c]
      BY <1>1, <1>2, <1>5 DEF Vote
    <2>2. Lead(Vote(m, x), h) = IF x = h THEN c ELSE 1 - c
      BY <2>1 DEF Lead
    <2>3. QED
      BY <1>3, <1>5, <2>1, <2>2
  <1>6. CASE x # j /\ c # 1
    <2>1. Vote(m, x) = [maj |-> j, count |-> c - 1]
      BY <1>1, <1>2, <1>6 DEF Vote
    <2>2. Lead(Vote(m, x), h) = IF j = h THEN c - 1 ELSE 1 - (c - 1)
      BY <2>1 DEF Lead
    <2>3. QED
      BY <1>3, <1>6, <2>1, <2>2
  <1>7. QED
    BY <1>4, <1>5, <1>6

\* One measurement more.
LEMMA WrongStep ==
    ASSUME NEW s, NEW h, NEW k \in Nat
    PROVE  /\ IsFiniteSet(Wrong(s, h, k)) /\ Cardinality(Wrong(s, h, k)) \in Nat
           /\ s[k + 1] = h => Wrong(s, h, k + 1) = Wrong(s, h, k)
           /\ s[k + 1] # h => Cardinality(Wrong(s, h, k + 1)) = Cardinality(Wrong(s, h, k)) + 1
  <1>1. IsFiniteSet(1..k)
    BY FS_Interval
  <1>2. IsFiniteSet(Wrong(s, h, k)) /\ Cardinality(Wrong(s, h, k)) \in Nat
    BY <1>1, FS_Subset, FS_CardinalityType DEF Wrong
  <1>3. 1..(k + 1) = (1..k) \cup {k + 1} /\ k + 1 \notin 1..k
    OBVIOUS
  <1>4. s[k + 1] = h => Wrong(s, h, k + 1) = Wrong(s, h, k)
    BY <1>3 DEF Wrong
  <1>5. ASSUME s[k + 1] # h
        PROVE  Cardinality(Wrong(s, h, k + 1)) = Cardinality(Wrong(s, h, k)) + 1
    <2>1. /\ Wrong(s, h, k + 1) = Wrong(s, h, k) \cup {k + 1}
          /\ k + 1 \notin Wrong(s, h, k)
      BY <1>3, <1>5 DEF Wrong
    <2>2. QED
      BY <1>2, <2>1, FS_AddElement
  <1>6. QED
    BY <1>2, <1>4, <1>5

\* What more than half of the measurements are is the majority, although the first
\* votes twice and a replacement does not count as a vote.
LEMMA MajorityFacts ==
    ASSUME NEW h \in Int, NEW s \in Seq(Int), Len(s) > 0,
           2 * Cardinality(Wrong(s, h, Len(s))) < Len(s)
    PROVE  majority_element(s) = h
  <1> DEFINE n == Len(s)
             M == [maj : Int, count : Nat \ {0}]
             loop == [name |-> "majority"]
             base == [maj |-> s[1], count |-> 1]
             wrong(k) == Cardinality(Wrong(s, h, k))
  <1>1. n \in Nat /\ n > 0 /\ \A i \in 1..n : s[i] \in Int
    OBVIOUS
  <1>2. \A x, e : Pass(loop, x, e) = Vote(x, e)
    BY DEF Pass
  <1>3. base \in M /\ Lead(base, h) >= 0
    BY <1>1 DEF Lead
  <1>4. wrong(0) = 0
    <2>1. Wrong(s, h, 0) = {}
      BY DEF Wrong
    <2>2. QED
      BY <2>1, FS_EmptySet
  <1>5. 2 * wrong(n) < n
    OBVIOUS
  <1> HIDE DEF n, loop, base
  <1>6. PICK F : Ran(F, loop, base, s) /\ Looped(loop, base, s) = F[n]
    BY <1>1, LoopRan DEF n
  <1> DEFINE T == {i \in Nat : i \in 0..n => F[i] \in M /\ Lead(F[i], h) >= i - 2 * wrong(i)}
  <1>7. 0 \in T
    <2>1. F[0] = base
      BY <1>6 DEF Ran
    <2> HIDE DEF wrong
    <2>2. QED
      BY <1>3, <1>4, <2>1
  <1>8. ASSUME NEW i \in Nat, i \in T PROVE i + 1 \in T
    <2> SUFFICES ASSUME i + 1 \in 0..n
                 PROVE  F[i + 1] \in M /\ Lead(F[i + 1], h) >= (i + 1) - 2 * wrong(i + 1)
      OBVIOUS
    <2>1. i \in 0..n /\ i + 1 \in 1..n /\ (i + 1) - 1 = i
      BY <1>1
    <2>2. F[i] \in M /\ Lead(F[i], h) >= i - 2 * wrong(i)
      BY <1>8, <2>1
    <2>3. F[i + 1] = Vote(F[i], s[i + 1])
      <3>1. F[i + 1] = Pass(loop, F[(i + 1) - 1], s[i + 1])
        BY <1>6, <2>1, Zenon DEF Ran, n
      <3>2. QED
        BY <1>2, <2>1, <3>1, Zenon
    <2>4. s[i + 1] \in Int
      BY <1>1, <2>1
    <2>5. /\ F[i + 1] \in M
          /\ s[i + 1] = h => Lead(F[i + 1], h) = Lead(F[i], h) + 1
          /\ Lead(F[i + 1], h) >= Lead(F[i], h) - 1
      BY <2>2, <2>3, <2>4, VoteStep
    <2>6. Lead(F[i], h) \in Int /\ Lead(F[i + 1], h) \in Int
      <3>1. \A m \in M : Lead(m, h) \in Int
        BY DEF Lead
      <3>2. QED
        BY <2>2, <2>5, <3>1, Zenon
    <2>7. /\ wrong(i) \in Nat
          /\ s[i + 1] = h => wrong(i + 1) = wrong(i)
          /\ s[i + 1] # h => wrong(i + 1) = wrong(i) + 1
      BY WrongStep
    <2> HIDE DEF wrong
    <2>8. CASE s[i + 1] = h
      BY <2>2, <2>5, <2>6, <2>7, <2>8
    <2>9. CASE s[i + 1] # h
      BY <2>2, <2>5, <2>6, <2>7, <2>9
    <2>10. QED
      BY <2>8, <2>9
  <1> HIDE DEF T
  <1>9. \A i \in Nat : i \in T
    BY <1>7, <1>8, Induct, Zenon
  <1>10. F[n] \in M /\ Lead(F[n], h) >= n - 2 * wrong(n)
    BY <1>1, <1>9 DEF T
  <1>11. F[n].maj = h
    <2>1. wrong(n) \in Nat
      BY <1>1, WrongStep
    <2> HIDE DEF wrong
    <2>2. F[n].count \in Nat \ {0} /\ Lead(F[n], h) \in Int
      BY <1>10 DEF Lead
    <2>3. Lead(F[n], h) > 0
      BY <1>1, <1>5, <1>10, <2>1, <2>2
    <2>4. QED
      BY <2>2, <2>3 DEF Lead
  <1>12. QED
    BY <1>6, <1>11, MajorityIs DEF loop, base

-----------------------------------------------------------------------------
(* The filter.                                                             *)

\* The pass before position i + 1: what agrees with the measurement is in front of out
\* or still to come.
Sifted(x, S, n, i, v) ==
    /\ x.names \in Seq(S) /\ Len(x.names) = n /\ x.out \in 1..(i + 1)
    /\ \E j \in 1..n : x.names[j] = v /\ (j < x.out \/ j > i)

\* Swapping two elements.
LEMMA SwapFacts ==
    ASSUME NEW S, NEW s \in Seq(S), NEW i \in 1..Len(s), NEW j \in 1..Len(s)
    PROVE  /\ Swap(s, i, j) \in Seq(S) /\ Len(Swap(s, i, j)) = Len(s)
           /\ Swap(s, i, j)[i] = s[j]
           /\ \A k \in 1..Len(s) : k # i /\ k # j => Swap(s, i, j)[k] = s[k]
  <1> DEFINE n == Len(s)
             t == Swap(s, i, j)
  <1>1. n \in Nat /\ s \in [1..n -> S] /\ s[i] \in S /\ s[j] \in S
    OBVIOUS
  <1>2. t = [[s EXCEPT ![i] = s[j]] EXCEPT ![j] = s[i]]
    BY DEF Swap
  <1> HIDE DEF t, n
  <1>3. t \in [1..n -> S]
    BY <1>1, <1>2
  <1>4. t \in Seq(S) /\ Len(t) = n
    BY <1>1, <1>3
  <1>5. t[i] = s[j]
    BY <1>1, <1>2 DEF n
  <1>6. \A k \in 1..n : k # i /\ k # j => t[k] = s[k]
    BY <1>1, <1>2
  <1>7. QED
    BY <1>4, <1>5, <1>6 DEF t, n

\* One step of the pass.
LEMMA SiftStep ==
    ASSUME NEW S, NEW n \in Nat, NEW i \in Nat, i + 1 \in 1..n, NEW sim, NEW measured,
           NEW v, sim[v] = measured, NEW x, Sifted(x, S, n, i, v)
    PROVE  Sifted(Sift(sim, measured, x, i + 1), S, n, i + 1, v)
  <1> DEFINE y == Sift(sim, measured, x, i + 1)
  <1>1. PICK names, out : names = x.names /\ out = x.out
    OBVIOUS
  <1>2. /\ names \in Seq(S) /\ Len(names) = n /\ out \in 1..(i + 1)
    BY <1>1, Zenon DEF Sifted
  <1>3. PICK j \in 1..n : names[j] = v /\ (j < out \/ j > i)
    BY <1>1, Zenon DEF Sifted
  <1>4. CASE sim[names[i + 1]] = measured
    <2> DEFINE t == Swap(names, out, i + 1)
    <2>1. y = [names |-> t, out |-> out + 1]
      BY <1>1, <1>4, Zenon DEF Sift
    <2>2. out \in 1..n
      BY <1>2
    <2>3. /\ t \in Seq(S) /\ Len(t) = n /\ t[out] = names[i + 1]
          /\ \A k \in 1..n : k # out /\ k # i + 1 => t[k] = names[k]
      BY <1>2, <2>2, SwapFacts
    <2> HIDE DEF t
    <2>4. out + 1 \in 1..((i + 1) + 1)
      BY <1>2
    <2>5. \E k \in 1..n : t[k] = v /\ (k < out + 1 \/ k > i + 1)
      <3>1. CASE j = i + 1
        <4>1. t[out] = v /\ out < out + 1
          BY <1>2, <1>3, <2>3, <3>1
        <4>2. QED
          BY <2>2, <4>1
      <3>2. CASE j # i + 1
        <4>1. j # out /\ (j < out + 1 \/ j > i + 1)
          BY <1>2, <1>3, <3>2
        <4>2. t[j] = v
          BY <1>3, <2>3, <3>2, <4>1
        <4>3. QED
          BY <4>1, <4>2
      <3>3. QED
        BY <3>1, <3>2
    <2>6. y.names = t /\ y.out = out + 1
      BY <2>1
    <2> HIDE DEF y
    <2>7. QED
      BY <2>3, <2>4, <2>5, <2>6, Zenon DEF Sifted, y
  <1>5. CASE sim[names[i + 1]] # measured
    <2>1. y = x
      BY <1>1, <1>5, Zenon DEF Sift
    <2>2. j # i + 1
      BY <1>3, <1>5
    <2>3. (j < out \/ j > i + 1) /\ out \in 1..((i + 1) + 1)
      BY <1>2, <1>3, <2>2
    <2> HIDE DEF y
    <2>4. QED
      BY <1>1, <1>2, <1>3, <2>1, <2>3, Zenon DEF Sifted, y
  <1>6. QED
    BY <1>4, <1>5

\* A candidate whose simulation is what was measured is kept.
LEMMA FilterFacts ==
    ASSUME NEW S, NEW names \in Seq(S), NEW measured, NEW v \in Range(names),
           outcomes.simulated[v] = measured
    PROVE  /\ filter_replacement_policies(names, measured) \in Seq(S)
           /\ v \in Range(filter_replacement_policies(names, measured))
  <1> DEFINE n == Len(names)
             sim == outcomes.simulated
             loop == [name |-> "filter", simulated |-> sim, measured |-> measured]
             base == [names |-> names, out |-> 1]
             q == [i \in 1..n |-> i]
             pass == Looped(loop, base, q)
  <1>1. n \in Nat /\ Len(q) = n /\ \A i \in 1..n : q[i] = i
    OBVIOUS
  <1>2. \A x, e : Pass(loop, x, e) = Sift(sim, measured, x, e)
    BY DEF Pass
  <1>3. Sifted(base, S, n, 0, v)
    <2>1. PICK j \in 1..n : names[j] = v
      BY DEF Range
    <2>2. 1 \in 1..(0 + 1) /\ j > 0
      OBVIOUS
    <2>3. base.names = names /\ base.out = 1
      OBVIOUS
    <2>4. QED
      BY <2>1, <2>2, <2>3 DEF Sifted
  <1>4. sim[v] = measured
    OBVIOUS
  <1>5. filter_replacement_policies(names, measured) = SubSeq(pass.names, 1, pass.out - 1)
    BY FilterIs
  <1> HIDE DEF n, sim, loop, base, q
  <1>6. PICK F : Ran(F, loop, base, q) /\ pass = F[n]
    BY <1>1, LoopRan
  <1> HIDE DEF pass
  <1> DEFINE T == {i \in Nat : i \in 0..n => Sifted(F[i], S, n, i, v)}
  <1>7. 0 \in T
    <2>1. F[0] = base
      BY <1>6 DEF Ran
    <2>2. QED
      BY <1>3, <2>1
  <1>8. ASSUME NEW i \in Nat, i \in T PROVE i + 1 \in T
    <2> SUFFICES ASSUME i + 1 \in 0..n PROVE Sifted(F[i + 1], S, n, i + 1, v)
      OBVIOUS
    <2>1. i \in 0..n /\ i + 1 \in 1..n /\ (i + 1) - 1 = i
      BY <1>1
    <2>2. F[i + 1] = Sift(sim, measured, F[i], i + 1)
      <3>1. F[i + 1] = Pass(loop, F[(i + 1) - 1], q[i + 1])
        BY <1>1, <1>6, <2>1, Zenon DEF Ran
      <3>2. QED
        BY <1>1, <1>2, <2>1, <3>1, Zenon
    <2>3. Sifted(F[i], S, n, i, v)
      BY <1>8, <2>1
    <2>4. Sifted(Sift(sim, measured, F[i], i + 1), S, n, i + 1, v)
      <3> HIDE DEF T
      <3>1. i + 1 \in 1..n /\ n \in Nat
        BY <1>1, <2>1
      <3>2. QED
        BY <1>4, <2>3, <3>1, SiftStep, Zenon
    <2>5. QED
      BY <2>2, <2>4
  <1> HIDE DEF T
  <1>9. \A i \in Nat : i \in T
    BY <1>7, <1>8, Induct, Zenon
  <1>10. Sifted(pass, S, n, n, v)
    <2>1. n \in 0..n
      BY <1>1
    <2>2. QED
      BY <1>1, <1>6, <1>9, <2>1 DEF T
  <1>11. PICK kept, out : kept = pass.names /\ out = pass.out
    OBVIOUS
  <1>12. kept \in Seq(S) /\ Len(kept) = n /\ out \in 1..(n + 1)
    BY <1>10, <1>11, Zenon DEF Sifted
  <1>13. PICK j \in 1..n : kept[j] = v /\ (j < out \/ j > n)
    BY <1>10, <1>11, Zenon DEF Sifted
  <1>14. j \in 1..(out - 1) /\ out - 1 \in 0..n
    BY <1>1, <1>12, <1>13
  <1> DEFINE r == SubSeq(kept, 1, out - 1)
  <1>15. /\ r \in Seq(S) /\ Len(r) = out - 1 /\ DOMAIN r = 1..(out - 1)
         /\ r[j] = kept[j]
    BY <1>1, <1>12, <1>14
  <1> HIDE DEF r
  <1>16. v \in Range(r)
    BY <1>13, <1>14, <1>15 DEF Range
  <1>17. filter_replacement_policies(names, measured) = r
    BY <1>5, <1>11, Zenon DEF r
  <1>18. QED
    BY <1>15, <1>16, <1>17

-----------------------------------------------------------------------------
(* The inductive invariant.                                                *)

LruPlruNames == {"LRU_PLRU4", "LRU_PLRU8", "LRU_PLRU16", "LRU_PLRU32", "LRU_PLRU64"}
Names == {"FIFO", "LRU", "PLRU", "PLRUl", "SRRIP"} \cup LruPlruNames

\* Is the policy of the cache one that the theorem is about?
Covered == truth \in {"FIFO", "LRU", "PLRU", "PLRUl"}

\* The measurements of a round are what the simulation of the policy of the cache
\* counts, but for fewer than half of them.
RoundInv ==
    LET h == outcomes.simulated[truth]
    IN  /\ h \in Nat
        /\ outcomes.polluted \subseteq {NoResult, h} /\ outcomes.left \subseteq {NoResult, h}
        /\ measurements \in Seq(Int) /\ Len(measurements) <= Repetitions
        /\ Cardinality(Wrong(measurements, h, Len(measurements))) <= disturbed
        /\ disturbed \in Nat /\ 2 * disturbed < Repetitions

ReversalInv ==
    /\ cache \in Caches
    /\ Covered => /\ candidates \in Seq(Names) /\ TruthSurvives
                  /\ pc = "measure" => RoundInv

\* A name that the loop lists, if it lists one.
LEMMA LoopName ==
    ASSUME NEW n, NEW name \in LruPlruNames
    PROVE  /\ PlruName(name, n) \in Seq(Names)
           /\ "PLRU" \notin Range(PlruName(name, n)) /\ "PLRUl" \notin Range(PlruName(name, n))
  <1>1. name \in Names /\ name # "PLRU" /\ name # "PLRUl"
    BY DEF Names, LruPlruNames
  <1>2. /\ <<>> \in Seq(Names) /\ <<name>> \in Seq(Names)
        /\ Range(<<>>) = {} /\ Range(<<name>>) = {name}
    BY <1>1 DEF Range
  <1>3. QED
    BY <1>1, <1>2, Zenon DEF PlruName

\* The candidates listed for n ways; PLRU is listed for powers of two only.
LEMMA CandidateNames ==
    ASSUME NEW n
    PROVE  /\ get_replacement_policies(n) \in Seq(Names)
           /\ \A x \in Range(get_replacement_policies(n)) :
                 x \in {"FIFO", "LRU", "PLRU", "PLRUl"} => x \in Known(n)
  <1> DEFINE a == <<"FIFO", "LRU">>
             b == IF IsPowerOfTwo(n) THEN <<"PLRU", "PLRUl">> ELSE <<>>
             e == <<"SRRIP">>
             Neither(s) == s \in Seq(Names) /\ \A x \in {"PLRU", "PLRUl"} : x \notin Range(s)
  <1>1. Neither(a) /\ Neither(e)
    BY DEF Names, Range
  <1>2. b \in Seq(Names) /\ \A x \in Range(b) : x \in {"PLRU", "PLRUl"} /\ IsPowerOfTwo(n)
    <2>1. /\ <<>> \in Seq(Names) /\ <<"PLRU", "PLRUl">> \in Seq(Names)
          /\ Range(<<>>) = {} /\ Range(<<"PLRU", "PLRUl">>) = {"PLRU", "PLRUl"}
      BY DEF Names, Range
    <2>2. QED
      BY <2>1, Zenon
  <1>3. ASSUME NEW name \in LruPlruNames PROVE Neither(PlruName(name, n))
    BY LoopName, Zenon
  <1> HIDE DEF a, b, e
  <1> DEFINE ab == a \o b
             l4  == ab \o PlruName("LRU_PLRU4", n)
             l8  == l4 \o PlruName("LRU_PLRU8", n)
             l16 == l8 \o PlruName("LRU_PLRU16", n)
             l32 == l16 \o PlruName("LRU_PLRU32", n)
             l64 == l32 \o PlruName("LRU_PLRU64", n)
             l   == l64 \o e
             Fine(s) == /\ s \in Seq(Names)
                        /\ \A x \in {"PLRU", "PLRUl"} : x \in Range(s) => IsPowerOfTwo(n)
  <1>4. get_replacement_policies(n) = l
    BY Zenon DEF get_replacement_policies, a, b, e
  <1>5. ASSUME NEW s, NEW t, Fine(s), Neither(t) PROVE Fine(s \o t)
    BY <1>5, ConcatRange
  <1>6. Fine(ab)
    BY <1>1, <1>2, ConcatRange
  <1> HIDE DEF ab, Fine, Neither
  <1>7. Fine(l4)
    BY <1>3, <1>5, <1>6, Zenon DEF LruPlruNames
  <1> HIDE DEF l4
  <1>8. Fine(l8)
    BY <1>3, <1>5, <1>7, Zenon DEF LruPlruNames
  <1> HIDE DEF l8
  <1>9. Fine(l16)
    BY <1>3, <1>5, <1>8, Zenon DEF LruPlruNames
  <1> HIDE DEF l16
  <1>10. Fine(l32)
    BY <1>3, <1>5, <1>9, Zenon DEF LruPlruNames
  <1> HIDE DEF l32
  <1>11. Fine(l64)
    BY <1>3, <1>5, <1>10, Zenon DEF LruPlruNames
  <1> HIDE DEF l64
  <1>12. Fine(l)
    BY <1>1, <1>5, <1>11, Zenon
  <1> HIDE DEF l
  <1>13. ASSUME NEW x \in Range(l), x \in {"FIFO", "LRU", "PLRU", "PLRUl"} PROVE x \in Known(n)
    BY <1>12, <1>13 DEF Fine, Known
  <1>14. QED
    BY <1>4, <1>12, <1>13 DEF Fine

\* A measurement more that may be wrong.
LEMMA AppendWrong ==
    ASSUME NEW s \in Seq(Int), NEW x \in Int, NEW h
    PROVE  /\ Append(s, x) \in Seq(Int) /\ Len(Append(s, x)) = Len(s) + 1
           /\ Cardinality(Wrong(s, h, Len(s))) \in Nat
           /\ x = h => Cardinality(Wrong(Append(s, x), h, Len(s) + 1))
                         = Cardinality(Wrong(s, h, Len(s)))
           /\ Cardinality(Wrong(Append(s, x), h, Len(s) + 1))
                <= Cardinality(Wrong(s, h, Len(s))) + 1
  <1> DEFINE t == Append(s, x)
             n == Len(s)
  <1>1. n \in Nat /\ t \in Seq(Int) /\ Len(t) = n + 1 /\ t[n + 1] = x /\ \A i \in 1..n : t[i] = s[i]
    OBVIOUS
  <1> HIDE DEF t, n
  <1>2. Wrong(t, h, n) = Wrong(s, h, n)
    BY <1>1 DEF Wrong
  <1>3. /\ Cardinality(Wrong(t, h, n)) \in Nat
        /\ t[n + 1] = h => Wrong(t, h, n + 1) = Wrong(t, h, n)
        /\ t[n + 1] # h => Cardinality(Wrong(t, h, n + 1)) = Cardinality(Wrong(t, h, n)) + 1
    BY <1>1, WrongStep
  <1>4. QED
    BY <1>1, <1>2, <1>3 DEF t, n

\* Initially.
LEMMA ReversalInit == Init => ReversalInv
  <1> SUFFICES ASSUME Init PROVE ReversalInv
    OBVIOUS
  <1>1. /\ cache \in Caches /\ pc = "loop"
        /\ candidates = get_replacement_policies(WaysOfLevel)
    BY DEF Init
  <1>2. candidates \in Seq(Names)
    BY <1>1, CandidateNames
  <1>3. truth \in Range(candidates)
    BY <1>1, ReversalAssumption DEF truth, WaysOfLevel
  <1>4. QED
    BY <1>1, <1>2, <1>3 DEF ReversalInv, TruthSurvives

\* What a sequence shows.
LEMMA ShownFacts ==
    ASSUME cache \in Caches, Covered, TruthSurvives, NEW s \in Sequences
    PROVE  LET h == Outcomes(s).simulated[truth]
           IN  /\ h \in Nat
               /\ Outcomes(s).polluted \subseteq {NoResult, h}
               /\ Outcomes(s).left \subseteq {NoResult, h}
  <1> DEFINE n == cache.ways
             h == simulate_sequence(s, make_replacement_policy(truth, n), Symbols)
  <1>1. n \in Nat \ {0} /\ Symbols \in Nat \ {0} /\ Length \in Nat
    BY ReversalAssumption
  <1>2. s \in Seq(Addr)
    BY <1>1, SequencesTyped
  <1>3. Range(s) \subseteq Addr
    BY <1>2 DEF Range
  <1>4. Outcomes(s).simulated[truth] = h
    BY DEF Outcomes, Simulation, TruthSurvives, WaysOfLevel
  <1>0. Doubling(n) /\ truth \in Known(n)
    <2>1. \A k \in 0..n : 2^(k + 1) = 2 * 2^k
      BY PowersAssumption
    <2>2. 2^0 = 1
      BY PowersAssumption
    <2>3. truth \in Range(get_replacement_policies(n))
      BY ReversalAssumption DEF truth
    <2>4. QED
      BY <2>1, <2>2, <2>3, CandidateNames DEF Doubling, Covered
  <1>5. ASSUME NEW left \in Addr \cup {Dirty}, NEW start \in Pollution(cache, left)
        PROVE  h \in Nat /\ safe_measure_sequence(start, s) \in {NoResult, h}
    BY <1>0, <1>1, <1>2, MeasuredIsSimulated DEF truth
  <1>6. h \in Nat
    <2> DEFINE p == make_replacement_policy(truth, n)
               sim == NewSim(p, Symbols)
    <2>1. p \in Policies(n)
      BY <1>0, <1>1, Made
    <2> HIDE DEF p
    <2>2. Sound(sim, n) /\ Fresh(sim, n) /\ sim.seen = {} /\ sim.policy = p
      BY <1>1, <2>1, FreshStart
    <2> HIDE DEF sim
    <2>3. Same(sim, sim, n)
      <3>1. Related(p, p, n)
        BY <2>1 DEF Related, Policies
      <3>2. QED
        BY <1>1, <2>2, <3>1, SameStart
    <2>4. HitsFrom(sim, s) \in Nat
      BY <1>1, <1>2, <2>2, <2>3, HitsAgree
    <2>5. QED
      BY <2>4 DEF simulate_sequence, p, sim
  <1> HIDE DEF h
  <1>7. ASSUME NEW lefts, lefts \subseteq Addr \cup {Dirty}
        PROVE  Measurable(lefts, s) \subseteq {NoResult, h}
    <2> DEFINE from(left) == {safe_measure_sequence(start, s) : start \in Pollution(cache, left)}
    <2>1. Measurable(lefts, s) = UNION {from(left) : left \in lefts}
      BY Zenon DEF Measurable
    <2>2. ASSUME NEW left \in lefts PROVE from(left) \subseteq {NoResult, h}
      BY <1>5, <1>7
    <2> HIDE DEF from
    <2>3. QED
      BY <2>1, <2>2
  <1>8. /\ Outcomes(s).polluted = Measurable({Dirty}, s)
        /\ Outcomes(s).left = Measurable(Range(s), s)
    BY DEF Outcomes
  <1>9. QED
    BY <1>3, <1>4, <1>6, <1>7, <1>8

\* A measurement that is what the simulation counts, or has no result.
LEMMA MeasureStep ==
    ASSUME RoundInv, NEW hits \in {NoResult, outcomes.simulated[truth]}, Measure(hits)
    PROVE  RoundInv'
  <1> DEFINE n == Len(measurements)
             wrong == Cardinality(Wrong(measurements, outcomes.simulated[truth], n))
  <1>1. PICK h : h = outcomes.simulated[truth]
    OBVIOUS
  <1>2. outcomes' = outcomes /\ disturbed' = disturbed /\ truth' = truth
    BY DEF Measure, truth
  <1>3. /\ h \in Nat /\ outcomes.polluted \subseteq {NoResult, h}
        /\ outcomes.left \subseteq {NoResult, h}
        /\ measurements \in Seq(Int) /\ Len(measurements) <= Repetitions
        /\ Cardinality(Wrong(measurements, h, Len(measurements))) <= disturbed
        /\ disturbed \in Nat /\ 2 * disturbed < Repetitions
    BY <1>1 DEF RoundInv
  <1>4. /\ measurements' \in Seq(Int) /\ Len(measurements') <= Repetitions
        /\ Cardinality(Wrong(measurements', h, Len(measurements'))) <= disturbed
    <2>1. CASE hits = NoResult
      BY <1>3, <2>1 DEF Measure
    <2>2. CASE hits # NoResult
      <3>1. hits = h /\ measurements' = Append(measurements, h)
        BY <1>1, <2>2 DEF Measure
      <3>2. Len(measurements) < Repetitions /\ Len(measurements) \in Nat
        BY <1>3 DEF Measure
      <3>3. /\ measurements' \in Seq(Int) /\ Len(measurements') = Len(measurements) + 1
            /\ Cardinality(Wrong(measurements', h, Len(measurements) + 1))
                 = Cardinality(Wrong(measurements, h, Len(measurements)))
        BY <1>3, <3>1, AppendWrong
      <3>4. Len(measurements) + 1 <= Repetitions
        BY <3>2, ReversalAssumption
      <3>5. Cardinality(Wrong(measurements', h, Len(measurements'))) <= disturbed
        BY <1>3, <3>3
      <3>6. QED
        BY <3>3, <3>4, <3>5
    <2>3. QED
      BY <2>1, <2>2
  <1>5. QED
    BY <1>1, <1>2, <1>3, <1>4 DEF RoundInv

\* A measurement with a hit too few.
LEMMA DisturbedStep ==
    ASSUME RoundInv, MeasureDisturbed
    PROVE  RoundInv'
  <1>1. PICK h : h = outcomes.simulated[truth]
    OBVIOUS
  <1>2. outcomes' = outcomes /\ disturbed' = disturbed + 1 /\ truth' = truth
    BY DEF MeasureDisturbed, truth
  <1>3. /\ h \in Nat /\ outcomes.polluted \subseteq {NoResult, h}
        /\ outcomes.left \subseteq {NoResult, h}
        /\ measurements \in Seq(Int) /\ Len(measurements) <= Repetitions
        /\ Cardinality(Wrong(measurements, h, Len(measurements))) <= disturbed
        /\ disturbed \in Nat /\ 2 * disturbed < Repetitions
    BY <1>1 DEF RoundInv
  <1>4. /\ Len(measurements) < Repetitions /\ Len(measurements) \in Nat
        /\ 2 * (disturbed + 1) < Repetitions
    BY <1>3 DEF MeasureDisturbed
  <1>5. PICK hits \in outcomes.polluted : measurements' = Append(measurements, hits - 1)
    BY DEF MeasureDisturbed
  <1>6. hits - 1 \in Int
    BY <1>3, <1>5 DEF NoResult
  <1>7. /\ measurements' \in Seq(Int) /\ Len(measurements') = Len(measurements) + 1
        /\ Cardinality(Wrong(measurements, h, Len(measurements))) \in Nat
        /\ Cardinality(Wrong(measurements', h, Len(measurements) + 1))
             <= Cardinality(Wrong(measurements, h, Len(measurements))) + 1
    BY <1>3, <1>5, <1>6, AppendWrong
  <1>8. Len(measurements) + 1 <= Repetitions
    BY <1>4, ReversalAssumption
  <1>9. Cardinality(Wrong(measurements', h, Len(measurements'))) <= disturbed + 1
    <2> DEFINE u == Cardinality(Wrong(measurements, h, Len(measurements)))
               v == Cardinality(Wrong(measurements', h, Len(measurements) + 1))
    <2>1. v \in Nat
      <3>1. Len(measurements) + 1 \in Nat
        BY <1>4
      <3>2. QED
        BY <3>1, WrongStep
    <2>2. u \in Nat /\ v <= u + 1 /\ u <= disturbed /\ disturbed \in Nat
      BY <1>3, <1>7
    <2> HIDE DEF u, v
    <2>3. v <= disturbed + 1
      BY <2>1, <2>2
    <2>4. QED
      BY <1>7, <2>3 DEF v
  <1>10. disturbed + 1 \in Nat
    BY <1>3
  <1>11. QED
    BY <1>1, <1>2, <1>3, <1>4, <1>7, <1>8, <1>9, <1>10 DEF RoundInv

\* The policy of the cache survives the filter.
LEMMA EliminateStep ==
    ASSUME candidates \in Seq(Names), TruthSurvives, RoundInv, Eliminate
    PROVE  candidates' \in Seq(Names) /\ TruthSurvives'
  <1>1. PICK h : h = outcomes.simulated[truth]
    OBVIOUS
  <1>2. /\ h \in Nat /\ measurements \in Seq(Int)
        /\ Cardinality(Wrong(measurements, h, Len(measurements))) <= disturbed
        /\ disturbed \in Nat /\ 2 * disturbed < Repetitions
    BY <1>1 DEF RoundInv
  <1>3. Len(measurements) = Repetitions /\ Repetitions \in Nat \ {0} /\ truth' = truth
    BY ReversalAssumption DEF Eliminate, truth
  <1>4. majority_element(measurements) = h
    <2>1. Len(measurements) \in Nat
      BY <1>2
    <2>2. Cardinality(Wrong(measurements, h, Len(measurements))) \in Nat
      BY <2>1, WrongStep
    <2>3. 2 * Cardinality(Wrong(measurements, h, Len(measurements))) < Len(measurements)
      <3> DEFINE u == Cardinality(Wrong(measurements, h, Len(measurements)))
      <3>1. u \in Nat /\ u <= disturbed
        BY <1>2, <2>2
      <3> HIDE DEF u
      <3>2. 2 * u < Len(measurements)
        BY <1>2, <1>3, <3>1
      <3>3. QED
        BY <3>2 DEF u
    <2>4. h \in Int /\ Len(measurements) > 0
      BY <1>2, <1>3
    <2>5. QED
      BY <1>2, <2>3, <2>4, MajorityFacts
  <1>5. candidates' = filter_replacement_policies(candidates, h)
    BY <1>4, Zenon DEF Eliminate
  <1>6. truth \in Range(candidates) /\ outcomes.simulated[truth] = h
    BY <1>1 DEF TruthSurvives
  <1>7. /\ filter_replacement_policies(candidates, h) \in Seq(Names)
        /\ truth \in Range(filter_replacement_policies(candidates, h))
    BY <1>6, FilterFacts
  <1>8. QED
    BY <1>3, <1>5, <1>7 DEF TruthSurvives

\* Every step keeps the invariant.
LEMMA ReversalNext == ReversalInv /\ [Next]_vars => ReversalInv'
  <1> SUFFICES ASSUME ReversalInv, [Next]_vars PROVE ReversalInv'
    OBVIOUS
  <1>1. cache' = cache
    BY DEF Next, Generate, MeasurePolluted, MeasureWithLeft, Measure, MeasureDisturbed,
           Eliminate, Finish, vars
  <1>2. cache' \in Caches /\ truth' = truth /\ (Covered' => Covered)
    BY <1>1 DEF ReversalInv, truth, Covered
  <1> SUFFICES ASSUME Covered
               PROVE  /\ candidates' \in Seq(Names) /\ TruthSurvives'
                      /\ pc' = "measure" => RoundInv'
    BY <1>2 DEF ReversalInv
  <1>3. /\ candidates \in Seq(Names) /\ TruthSurvives
        /\ pc = "measure" => RoundInv
    BY DEF ReversalInv
  <1>4. candidates' = candidates => candidates' \in Seq(Names) /\ TruthSurvives'
    BY <1>2, <1>3 DEF TruthSurvives
  <1>5. ASSUME NEW s \in Sequences, Generate(s)
        PROVE  /\ candidates' \in Seq(Names) /\ TruthSurvives'
               /\ pc' = "measure" => RoundInv'
    <2>1. outcomes' = Outcomes(s) /\ measurements' = <<>> /\ disturbed' = 0
      BY <1>5 DEF Generate, NewRound
    <2>2. PICK h : h = Outcomes(s).simulated[truth]
      OBVIOUS
    <2>3. /\ h \in Nat /\ Outcomes(s).polluted \subseteq {NoResult, h}
          /\ Outcomes(s).left \subseteq {NoResult, h}
      BY <1>3, <2>2, ShownFacts DEF ReversalInv
    <2>4. h = outcomes'.simulated[truth']
      BY <1>2, <2>1, <2>2
    <2>5. /\ <<>> \in Seq(Int) /\ Len(<<>>) = 0
      OBVIOUS
    <2>6. Cardinality(Wrong(<<>>, h, 0)) = 0
      <3>1. Wrong(<<>>, h, 0) = {}
        BY DEF Wrong
      <3>2. QED
        BY <3>1, FS_EmptySet
    <2>7. 0 \in Nat /\ 0 <= 0 /\ 0 <= Repetitions /\ 2 * 0 < Repetitions
      BY ReversalAssumption
    <2>8. /\ measurements' \in Seq(Int) /\ Len(measurements') = 0
          /\ Cardinality(Wrong(measurements', h, Len(measurements'))) = 0
      BY <2>1, <2>5, <2>6
    <2>9. RoundInv'
      BY <2>1, <2>3, <2>4, <2>7, <2>8 DEF RoundInv
    <2>10. candidates' = candidates
      BY <1>5 DEF Generate
    <2>11. QED
      BY <1>4, <2>9, <2>10
  <1>6. ASSUME NEW hits \in outcomes.polluted \cup outcomes.left, Measure(hits)
        PROVE  /\ candidates' \in Seq(Names) /\ TruthSurvives'
               /\ pc' = "measure" => RoundInv'
    <2>1. pc = "measure" /\ candidates' = candidates
      BY <1>6 DEF Measure
    <2>2. hits \in {NoResult, outcomes.simulated[truth]}
      BY <1>3, <1>6, <2>1 DEF RoundInv
    <2>3. RoundInv'
      BY <1>3, <1>6, <2>1, <2>2, MeasureStep
    <2>4. QED
      BY <1>4, <2>1, <2>3
  <1>7. ASSUME MeasureDisturbed
        PROVE  /\ candidates' \in Seq(Names) /\ TruthSurvives'
               /\ pc' = "measure" => RoundInv'
    <2>1. pc = "measure" /\ candidates' = candidates
      BY <1>7 DEF MeasureDisturbed
    <2>2. QED
      BY <1>3, <1>4, <1>7, <2>1, DisturbedStep
  <1>8. ASSUME Eliminate
        PROVE  /\ candidates' \in Seq(Names) /\ TruthSurvives'
               /\ pc' = "measure" => RoundInv'
    <2>1. pc = "measure" /\ pc' = "loop"
      BY <1>8 DEF Eliminate
    <2>2. QED
      BY <1>3, <1>8, <2>1, EliminateStep
  <1>9. ASSUME Finish
        PROVE  /\ candidates' \in Seq(Names) /\ TruthSurvives'
               /\ pc' = "measure" => RoundInv'
    <2>1. candidates' = candidates /\ pc' = "done"
      BY <1>9 DEF Finish
    <2>2. QED
      BY <1>4, <2>1
  <1>10. ASSUME UNCHANGED vars
         PROVE  /\ candidates' \in Seq(Names) /\ TruthSurvives'
                /\ pc' = "measure" => RoundInv'
    <2>1. candidates' = candidates /\ pc' = pc /\ UNCHANGED <<measurements, outcomes, disturbed>>
      BY <1>10 DEF vars, round
    <2>2. RoundInv => RoundInv'
      BY <1>2, <2>1 DEF RoundInv
    <2>3. QED
      BY <1>3, <1>4, <2>1, <2>2
  <1>11. QED
    BY <1>5, <1>6, <1>7, <1>8, <1>9, <1>10 DEF Next, MeasurePolluted, MeasureWithLeft

-----------------------------------------------------------------------------
(* The theorem.                                                            *)

\* reverse_replacement_command never erases the policy of a cache with FIFO, LRU or PLRU:
\* whatever the pollution left in the ways and fewer than half of the measurements
\* disturbed, the majority is what simulate_sequence counts for it.
THEOREM PolicySurvives ==
    Spec => [](truth \in {"FIFO", "LRU", "PLRU", "PLRUl"} => TruthSurvives)
  <1>1. Init => ReversalInv
    BY ReversalInit
  <1>2. ReversalInv /\ [Next]_vars => ReversalInv'
    BY ReversalNext
  <1>3. ReversalInv => (truth \in {"FIFO", "LRU", "PLRU", "PLRUl"} => TruthSurvives)
    BY DEF ReversalInv, Covered
  <1>4. QED
    BY <1>1, <1>2, <1>3, PTL DEF Spec
=============================================================================
