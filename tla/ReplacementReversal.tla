------------------------- MODULE ReplacementReversal -------------------------
(***************************************************************************)
(* reverse_replacement_command: candidate policies are eliminated round by *)
(* round by the hits that a random access sequence scores on the real      *)
(* cache set and in simulation.                                            *)
(*                                                                         *)
(* The addresses of the set are the numbers 0..(Symbols - 1); the cache    *)
(* behaves as the policy truth, from any state the pollution leaves.       *)
(***************************************************************************)
EXTENDS ReplacementPolicy

CONSTANTS Caches,        \* the caches under test: policy and ways of level 0
          Symbols,       \* addresses used in a sequence
          Length,        \* length_
          Repetitions,   \* repetitions_
          MinRounds      \* minimum_rounds_

ASSUME ReversalAssumption ==
    /\ \A c \in Caches : /\ c.ways \in Nat \ {0} /\ Symbols \in 1..(2 * c.ways)
                         /\ c.policy \in Range(get_replacement_policies(c.ways))
    /\ Length \in Nat /\ Repetitions \in Nat \ {0} /\ MinRounds \in Nat

\* What proofs about PLRU use of powers of two.
ASSUME PowersAssumption ==
    2^0 = 1 /\ \A c \in Caches : \A k \in 0..c.ways : 2^(k + 1) = 2 * 2^k

VARIABLES cache,       \* the cache under test; its policy is unknown to the code
          pc, candidates, rounds, seq, measurements,
          outcomes,    \* what the sequence shows: measured and simulated hits
          disturbed    \* how many of the measurements are wrong

round == <<seq, measurements, outcomes, disturbed>>
vars  == <<cache, pc, candidates, rounds, round>>

truth == cache.policy
WaysOfLevel == cache.ways   \* memory.ways(0)

\* Mutant: the addresses are taken in turn.
SequencesCyclic == {[i \in 1..Length |-> (i - 1) % Symbols]}
\* The sequences generate_sequence can return, up to a renaming of addresses:
\* a new address is the smallest one not used yet.
Sequences ==
    Accumulate(LAMBDA grown, i :
                 UNION {{Append(s, a) : a \in 0..Min({Cardinality(Range(s)), Symbols - 1})} : s \in grown},
               {<<>>}, [i \in 1..Length |-> i])

-----------------------------------------------------------------------------
(* The cache under test.                                                   *)

\* What a policy object can look like after accesses to other addresses.
Used(p) ==
    CASE p.kind = "FIFO" -> {[p EXCEPT !.order = [i \in 1..Ways(p) |->
                                (i + k) % Ways(p)]] : k \in 1..Ways(p)}
      [] p.kind = "LRU"  -> {[p EXCEPT !.order = o] : o \in SetToSeqs(0..(Ways(p) - 1))}
      [] p.kind = "PLRU" -> {[p EXCEPT !.bits = b] : b \in [DOMAIN p.bits -> {0, 1}]}
      [] p.kind = "SRRIP" -> {[p EXCEPT !.entries = e] :   \* all loaded, some hit
                                e \in [DOMAIN p.entries -> {0, p.distant - 1}]}

\* The cache set before a measurement: full of addresses of the pollution, with
\* left of the sequence's addresses in way 0 if the pollution was too weak.
Pollution(c, left) ==
    {[NewSim(q, Symbols) EXCEPT !.way_addr = [w \in DOMAIN @ |->
         IF w = 0 /\ left # Dirty THEN left ELSE Symbols + w]] :
       q \in Used(make_replacement_policy(c.policy, c.ways))}

NoResult == -1

\* Mutant: unsafe_measure_sequence counts a hit at the first access too.
safe_measure_sequenceUnsafe(start, s) ==
    Accumulate(LAMBDA acc, a : [sim  |-> SimAccess(acc.sim, a),
                                hits |-> acc.hits + IF IsHit(acc.sim, a) THEN 1 ELSE 0],
               [sim |-> start, hits |-> 0], s).hits
\* No result when an address is in the cache at its first access.
safe_measure_sequence(start, s) ==
    Accumulate(LAMBDA acc, a :
                 [sim  |-> SimAccess(acc.sim, a),
                  hits |-> IF acc.hits = NoResult \/ (IsHit(acc.sim, a) /\ ~CountsHit(acc.sim, a))
                           THEN NoResult
                           ELSE acc.hits + IF IsHit(acc.sim, a) THEN 1 ELSE 0],
               [sim |-> start, hits |-> 0], s).hits

Measurable(lefts, s) ==
    UNION {{safe_measure_sequence(start, s) : start \in Pollution(cache, left)} : left \in lefts}

Simulation(s) ==
    [c \in Range(candidates) |->
        simulate_sequence(s, make_replacement_policy(c, WaysOfLevel), Symbols)]

\* What can be measured on a polluted cache and on one with an address left, and what
\* the candidates score in simulation.  Computed with the sequence.
Outcomes(s) ==
    [polluted  |-> Measurable({Dirty}, s),
     left      |-> Measurable(Range(s), s),
     simulated |-> Simulation(s)]
NoOutcomes == [polluted |-> {}, left |-> {}, simulated |-> <<>>]

-----------------------------------------------------------------------------
(* The command.                                                            *)

Init == /\ cache \in Caches
        /\ candidates = get_replacement_policies(WaysOfLevel)
        /\ rounds = 0 /\ pc = "loop"
        /\ seq = <<>> /\ measurements = <<>> /\ outcomes = NoOutcomes /\ disturbed = 0

NewRound(s, shown) ==
    seq' = s /\ measurements' = <<>> /\ outcomes' = shown /\ disturbed' = 0

\* rounds is only compared with minimum_rounds_, so it stays there.
Generate(s) ==
    /\ pc = "loop" /\ (Len(candidates) > 1 \/ rounds < MinRounds)
    /\ UNCHANGED <<cache, candidates, rounds>>
    /\ NewRound(s, Outcomes(s))
    /\ pc' = "measure"

\* A measurement, repeated when the pollution left an address of the sequence.
Measure(hits) ==
    /\ pc = "measure" /\ Len(measurements) < Repetitions
    /\ measurements' = IF hits = NoResult THEN measurements ELSE Append(measurements, hits)
    /\ UNCHANGED <<cache, pc, candidates, rounds, seq, outcomes, disturbed>>
MeasurePolluted == pc = "measure" /\ \E hits \in outcomes.polluted : Measure(hits)
MeasureWithLeft == pc = "measure" /\ \E hits \in outcomes.left : Measure(hits)

\* An interrupt costs one hit; fewer than half of the repetitions suffer one.
MeasureDisturbed ==
    /\ pc = "measure" /\ Len(measurements) < Repetitions
    /\ 2 * (disturbed + 1) < Repetitions
    /\ \E hits \in outcomes.polluted :
          hits > 0 /\ measurements' = Append(measurements, hits - 1)
    /\ disturbed' = disturbed + 1
    /\ UNCHANGED <<cache, pc, candidates, rounds, seq, outcomes>>

\* The first element votes twice and a replacement does not count as a vote.
majority_element(range) ==
    Accumulate(LAMBDA m, x : CASE x = m.maj   -> [m EXCEPT !.count = @ + 1]
                             [] x # m.maj /\ m.count = 1 -> [m EXCEPT !.maj = x]
                             [] OTHER       -> [m EXCEPT !.count = @ - 1],
             [maj |-> range[1], count |-> 1], range).maj

Swap(s, i, j) == [s EXCEPT ![i] = s[j], ![j] = s[i]]

\* Mutant: the candidates behind the result are not erased.
filter_replacement_policiesKeeps(names, measured) == names
\* One pass that swaps the candidates that agree to the front; the rest is erased.
filter_replacement_policies(names, measured) ==
    LET pass == Accumulate(LAMBDA acc, i :
                    IF outcomes.simulated[acc.names[i]] = measured
                    THEN [names |-> Swap(acc.names, acc.out, i), out |-> acc.out + 1]
                    ELSE acc,
                  [names |-> names, out |-> 1], [i \in 1..Len(names) |-> i])
    IN  SubSeq(pass.names, 1, pass.out - 1)

Eliminate ==
    /\ pc = "measure" /\ Len(measurements) = Repetitions
    /\ candidates' = filter_replacement_policies(candidates, majority_element(measurements))
    /\ rounds' = Min({rounds + 1, MinRounds})
    /\ pc' = "loop"
    /\ UNCHANGED cache
    /\ NewRound(<<>>, NoOutcomes)

Finish ==
    /\ pc = "loop" /\ Len(candidates) <= 1 /\ rounds >= MinRounds
    /\ pc' = "done"
    /\ UNCHANGED <<cache, candidates, rounds, round>>

Next == \/ pc = "loop" /\ \E s \in Sequences : Generate(s)
        \/ MeasurePolluted \/ MeasureWithLeft \/ MeasureDisturbed
        \/ Eliminate \/ Finish

\* Two of the candidates differ in simulation.
Differ(simulated) == Cardinality(Range(simulated)) > 1

\* The program is not stopped, the pollution succeeds again and again, and while
\* rounds go on random sequences come to one that tells two candidates apart
\* (Distinguishable: there is one).
FairDraws == []<>(pc = "measure") => []<>(pc = "measure" /\ Differ(outcomes.simulated))
Spec == Init /\ [][Next]_vars /\ WF_vars(Next) /\ SF_vars(MeasurePolluted) /\ FairDraws

-----------------------------------------------------------------------------
(* Properties.                                                             *)

\* The policy of the cache is never eliminated: what safe_measure_sequence counts
\* on a polluted, possibly disturbed cache is what the simulation of the policy
\* from a fresh object counts.  So an empty list of candidates means what the
\* error message says, that the policy is not one of the known ones.
TruthSurvives == truth \in Range(candidates)

\* No other name stands for the policy of the cache.
Alone == \A c \in Range(get_replacement_policies(WaysOfLevel)) :
            make_replacement_policy(c, WaysOfLevel) = make_replacement_policy(truth, WaysOfLevel)
               => c = truth

\* As long as more than one candidate is left, a sequence of the given length and
\* number of addresses tells two of them apart: the elimination cannot get stuck,
\* unless the policy is listed under two names, as PLRU is.
Distinguishable ==
    (pc = "loop" /\ Len(candidates) > 1 /\ Alone) =>
        \E s \in Sequences : Differ(Simulation(s))

\* The elimination comes to an end and answers with the policy of the cache; with a
\* policy that is listed under two names the loop never ends.
Identified == Alone => <>(pc = "done" /\ candidates = <<truth>>)
=============================================================================
