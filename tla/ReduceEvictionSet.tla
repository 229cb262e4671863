-------------------------- MODULE ReduceEvictionSet --------------------------
(***************************************************************************)
(* The algorithms that shrink an eviction set: reduce_eviction_set (group  *)
(* testing), reduce_eviction_set_slow and minimize_eviction_set_slow, with *)
(* the overloads that take a vector.  Each call of is_eviction_set is a    *)
(* step.                                                                   *)
(*                                                                         *)
(* Addresses are numbers; iterators are positions 0..Len(addresses), and   *)
(* the element at position i is addresses[i + 1].                          *)
(***************************************************************************)
EXTENDS Integers, Sequences, FiniteSets

CONSTANTS MaxAddresses,   \* bound on the size of the set to shrink
          MaxMaxSize,     \* bound on max_size
          MaxWays         \* bound on the associativity of the cache

ASSUME SizeAssumption == /\ MaxAddresses \in Nat \ {0}
                         /\ MaxMaxSize \in Nat \ {0}
                         /\ MaxWays \in Nat \ {0}

VARIABLES algo, max_size, ways,   \* the call and the cache
          congruent,              \* the addresses in the target's cache set
          stage, addresses, last_it,
          current_size, min_group_size, group_counters, category,
          mask_begin, mask_end, group_size,
          candidates_begin        \* of the quadratic algorithms

input == <<algo, max_size, ways, congruent>>
masks == <<min_group_size, group_counters, category, mask_begin, mask_end, group_size>>
vars  == <<input, stage, addresses, last_it, current_size, masks, candidates_begin>>

Elements(s) == {s[i] : i \in 1..Len(s)}

\* The addresses at the positions from..(to - 1).
Subrange(from, to) == {addresses[i] : i \in (from + 1)..to}

\* A set evicts the target when it fills the ways of the target's cache set.
EvictsWith(set) == Cardinality(set \cap congruent) >= ways

\* The caller guarantees that the addresses are an eviction set.
Init ==
    /\ algo \in {"reduce", "reduce_slow", "minimize_slow"}
    /\ max_size \in 1..MaxMaxSize /\ ways \in 1..MaxWays
    /\ \E n \in 1..MaxAddresses :
          /\ addresses = [i \in 1..n |-> i]
          /\ congruent \in SUBSET (1..n)
          /\ last_it = n /\ current_size = n
    /\ Cardinality(congruent) >= ways
    /\ stage = "loop"
    /\ min_group_size = 0 /\ group_counters = <<0, 0>> /\ category = 1
    /\ mask_begin = 0 /\ mask_end = 0 /\ group_size = 0
    /\ candidates_begin = 0

-----------------------------------------------------------------------------
(* reduce_eviction_set.                                                    *)

\* Mutant: as many groups as max_size.
DivideTooFew ==
    /\ algo = "reduce" /\ stage = "loop" /\ current_size > max_size
    /\ LET groups == max_size
           size   == current_size \div groups
           extra  == current_size % size
       IN /\ min_group_size' = size
          /\ group_counters' = <<extra, groups - extra>>
          /\ mask_begin' = 0 /\ mask_end' = size + 1 /\ group_size' = size + 1
    /\ category' = 1
    /\ stage' = "groups"
    /\ UNCHANGED <<input, addresses, last_it, current_size, candidates_begin>>

Divide ==
    /\ algo = "reduce" /\ stage = "loop" /\ current_size > max_size
    /\ LET groups == max_size + 1
           size   == current_size \div groups
           extra  == current_size % size
       IN /\ min_group_size' = size
          /\ group_counters' = <<extra, groups - extra>>
          /\ mask_begin' = 0 /\ mask_end' = size + 1 /\ group_size' = size + 1
    /\ category' = 1
    /\ stage' = "groups"
    /\ UNCHANGED <<input, addresses, last_it, current_size, candidates_begin>>

\* One call of is_eviction_set without the masked group.
TestGroup ==
    /\ stage = "groups" /\ group_counters[category] > 0
    /\ group_counters' = [group_counters EXCEPT ![category] = @ - 1]
    /\ IF EvictsWith(Subrange(0, mask_begin) \cup Subrange(mask_end, last_it))
       THEN stage' = "found" /\ UNCHANGED <<mask_begin, mask_end>>
       ELSE /\ mask_begin' = mask_begin + group_size
            /\ mask_end' = mask_end + group_size
            /\ UNCHANGED stage
    /\ UNCHANGED <<input, addresses, last_it, current_size, min_group_size, category,
                   group_size, candidates_begin>>

\* Mutant: the mask stays one too long for the smaller groups.
NextCategoryKeepsMask ==
    /\ stage = "groups" /\ group_counters[category] = 0
    /\ category' = category + 1
    /\ group_size' = group_size - 1
    /\ stage' = IF category = 2 THEN "failed" ELSE "groups"
    /\ UNCHANGED <<input, addresses, last_it, current_size, min_group_size,
                   group_counters, mask_begin, mask_end, candidates_begin>>

\* From the groups with an extra member to the others, or to the end.
NextCategory ==
    /\ stage = "groups" /\ group_counters[category] = 0
    /\ category' = category + 1
    /\ mask_end' = mask_end - 1 /\ group_size' = group_size - 1
    /\ stage' = IF category = 2 THEN "failed" ELSE "groups"
    /\ UNCHANGED <<input, addresses, last_it, current_size, min_group_size,
                   group_counters, mask_begin, candidates_begin>>

\* Mutant: the last group is dropped instead of the masked one.
FoundNoSwap ==
    /\ stage = "found"
    /\ last_it' = last_it - min_group_size
    /\ current_size' = current_size - min_group_size
    /\ stage' = "loop"
    /\ UNCHANGED <<input, addresses, masks, candidates_begin>>

\* std::swap_ranges of the last group with the masked one.
SwapRanges(s, from, to, n) ==
    [i \in DOMAIN s |->
        CASE i \in (from + 1)..(from + n) -> s[i - from + to]
          [] i \in (to + 1)..(to + n)     -> s[i - to + from]
          [] OTHER                        -> s[i]]

Found ==
    /\ stage = "found"
    /\ IF mask_end = last_it
       THEN last_it' = mask_begin /\ UNCHANGED addresses
       ELSE /\ last_it' = last_it - min_group_size
            /\ addresses' = SwapRanges(addresses, last_it', mask_begin, min_group_size)
    /\ current_size' = current_size - min_group_size
    /\ stage' = "loop"
    /\ UNCHANGED <<input, masks, candidates_begin>>

Reduced ==
    /\ algo = "reduce" /\ stage = "loop" /\ current_size <= max_size
    /\ stage' = "returned"
    /\ UNCHANGED <<input, addresses, last_it, current_size, masks, candidates_begin>>

-----------------------------------------------------------------------------
(* reduce_eviction_set_slow and minimize_eviction_set_slow; candidates_end  *)
(* is last_it.                                                              *)

\* The loop condition of the two algorithms.
SlowLoops == \/ algo = "reduce_slow" /\ last_it > max_size
             \/ algo = "minimize_slow" /\ candidates_begin # last_it

SlowFails ==
    /\ stage = "loop" /\ algo = "reduce_slow" /\ SlowLoops
    /\ candidates_begin = last_it
    /\ stage' = "failed"
    /\ UNCHANGED <<input, addresses, last_it, current_size, masks, candidates_begin>>

\* Mutant: a crucial address is not counted.
SlowTestStays ==
    /\ stage = "loop" /\ SlowLoops /\ candidates_begin # last_it
    /\ IF EvictsWith(Subrange(0, last_it - 1))
       THEN last_it' = last_it - 1 /\ UNCHANGED addresses
       ELSE /\ addresses' = SwapRanges(addresses, last_it - 1, candidates_begin, 1)
            /\ UNCHANGED last_it
    /\ UNCHANGED <<input, stage, current_size, masks, candidates_begin>>

\* Is the last candidate redundant?
SlowTest ==
    /\ stage = "loop" /\ SlowLoops /\ candidates_begin # last_it
    /\ IF EvictsWith(Subrange(0, last_it - 1))
       THEN last_it' = last_it - 1 /\ UNCHANGED <<addresses, candidates_begin>>
       ELSE /\ addresses' = SwapRanges(addresses, last_it - 1, candidates_begin, 1)
            /\ candidates_begin' = candidates_begin + 1
            /\ UNCHANGED last_it
    /\ UNCHANGED <<input, stage, current_size, masks>>

SlowReturns ==
    /\ stage = "loop" /\ algo # "reduce" /\ ~SlowLoops
    /\ stage' = "returned"
    /\ UNCHANGED <<input, addresses, last_it, current_size, masks, candidates_begin>>

-----------------------------------------------------------------------------
(* The overloads for a vector: the iterator first means failure.           *)

Resize ==
    /\ stage = "returned"
    /\ stage' = IF last_it = 0 THEN "false" ELSE "true"
    /\ addresses' = IF last_it = 0 THEN addresses ELSE SubSeq(addresses, 1, last_it)
    /\ UNCHANGED <<input, last_it, current_size, masks, candidates_begin>>

ReturnFalse ==
    /\ stage = "failed"
    /\ stage' = "false"
    /\ UNCHANGED <<input, addresses, last_it, current_size, masks, candidates_begin>>

Next == \/ Divide \/ TestGroup \/ NextCategory \/ Found \/ Reduced
        \/ SlowFails \/ SlowTest \/ SlowReturns
        \/ Resize \/ ReturnFalse

\* A sequential program that is not stopped.
Spec == Init /\ [][Next]_vars /\ WF_vars(Next)

-----------------------------------------------------------------------------
(* Properties.                                                             *)

\* The values the state can have.
TypeOK ==
    /\ algo \in {"reduce", "reduce_slow", "minimize_slow"}
    /\ stage \in {"loop", "groups", "found", "returned", "failed", "true", "false"}
    /\ last_it \in 0..MaxAddresses /\ current_size \in 0..MaxAddresses
    /\ category \in 1..3
    /\ \A i \in 1..2 : group_counters[i] \in 0..(max_size + 1)
    /\ candidates_begin \in 0..MaxAddresses
    /\ addresses \in Seq(1..MaxAddresses)

\* No iterator that is used leaves the range, std::swap_ranges gets ranges that
\* do not overlap, and current_size is the size of the range, although the
\* number of larger groups is computed as current_size % min_group_size.
InRange ==
    /\ TypeOK
    /\ algo = "reduce" => current_size = last_it
    /\ (stage = "groups" /\ group_counters[category] > 0)
          => mask_begin < mask_end /\ mask_end <= last_it
    /\ stage = "found" => /\ mask_end = last_it \/ mask_end <= last_it - min_group_size
                       /\ mask_end - mask_begin >= min_group_size
    /\ stage = "loop" => candidates_begin <= last_it

\* What is left at any time is still an eviction set, made of distinct addresses
\* of the input; success means that it also has the size asked for.
Sound ==
    /\ stage \in {"loop", "returned", "true"} => EvictsWith(Subrange(0, last_it))
    /\ Cardinality(Elements(addresses)) = Len(addresses)
    /\ (stage = "true" /\ algo # "minimize_slow") => Len(addresses) <= max_size

\* Reduction fails only when no eviction set of the size asked for exists.
\* Minimization never fails, and every address it leaves is needed.
Complete ==
    /\ stage = "false" => algo # "minimize_slow" /\ ways > max_size
    /\ (stage = "true" /\ algo = "minimize_slow")
          => \A a \in Elements(addresses) : ~EvictsWith(Elements(addresses) \ {a})

\* Every call returns.
Terminates == <>(stage \in {"true", "false"})
=============================================================================
