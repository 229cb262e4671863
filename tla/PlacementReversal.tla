-------------------------- MODULE PlacementReversal --------------------------
(***************************************************************************)
(* The placement command: it locates the cache sets of random addresses,   *)
(* feeds those whose bits are affinely independent to                      *)
(* affine_placement_reverser, solves for an affine index function over     *)
(* GF(2) and compares it with all mappings it has seen.                    *)
(*                                                                         *)
(* The strategy is EvictionSetSearch's.  locate_set answers as its         *)
(* LocatesRight says; a failure to answer changes nothing and is left out. *)
(***************************************************************************)
EXTENDS EvictionSetSearch, Bitwise, Loops

CONSTANTS OffsetBits,
          LineBits,             \* the bits of an address above the offset
          TargetReversedBits,   \* target_reversed_bits_
          TargetMappings        \* target_mappings_

ASSUME PlacementAssumption ==
    /\ OffsetBits \in Nat /\ LineBits \in Nat /\ LineBits >= 2 /\ Addresses = 2^LineBits
    /\ TargetReversedBits \in Nat /\ TargetMappings \in 1..(2^LineBits)

VARIABLES addresses, sets,
          address_set,  \* the addresses whose set is known
          policy,       \* the affine_placement_policy found
          matches, warned

placement_vars == <<addresses, sets, address_set, policy, matches, warned>>
vars           == <<search_vars, placement_vars>>

Address == {l * 2^OffsetBits : l \in 0..(2^LineBits - 1)}
Bit(n, k) == (n \div 2^k) % 2
Set(address) == place[address \div 2^OffsetBits]   \* what locate_set answers

-----------------------------------------------------------------------------
(* Vectors and matrices of bits; a matrix is the sequence of its columns.  *)

\* uints_to_bit_vectors for one number: the highest bit comes first.
BitVector(num, offset, bits) == [i \in 1..bits |-> Bit(num, offset + bits - i)]
BitVectors(nums, offset, bits) == [i \in 1..Len(nums) |-> BitVector(nums[i], offset, bits)]
\* bit_vector_to_uint
Uint(vec) == FoldLeft(LAMBDA value, b : 2 * value + b, 0, vec)

Add(v, w) == [i \in 1..Len(v) |-> (v[i] + w[i]) % 2]

\* The determinant modulo 2: is the number of ways to choose a one from every
\* column, each in a row of its own, odd?
determinant(cols) ==
    LET odd[c \in 0..Len(cols), rows \in SUBSET (1..Len(cols))] ==
          c = 0 \/ Cardinality({r \in rows : cols[c][r] = 1 /\ odd[c - 1, rows \ {r}]}) % 2 = 1
    IN  IF odd[Len(cols), 1..Len(cols)] THEN 1 ELSE 0

linearly_independent(vectors) == determinant(vectors) # 0
affinely_independent(vectors) ==
    linearly_independent([i \in 1..(Len(vectors) - 1) |-> Add(vectors[i + 1], vectors[1])])

\* affine_solver::solve: row i of the result is the i-th row of A, with the i-th
\* entry of t behind it.  B is the inputs over a row of ones; by Cramer's rule an
\* entry is the determinant of B with one row replaced by an output row.
SolveRow(inputs, output_row) ==
    LET n == Len(inputs)
        B == [k \in 1..n |-> Append(inputs[k], 1)]
    IN  [j \in 1..n |-> determinant([k \in 1..n |-> <<output_row[k]>> \o RemoveAt(B[k], j)])]

Zeros(n) == [i \in 1..n |-> 0]

-----------------------------------------------------------------------------
(* affine_placement_reverser and affine_placement_policy.                  *)

reversed_bits == IF Len(addresses) <= 2 THEN 0 ELSE Len(addresses) - 1

\* Is the list of addresses still independent with the candidate at its end?
Independent(candidate) ==
    LET all == Append(addresses, candidate)
        n   == Len(all)
    IN  IF n = 2 THEN linearly_independent(BitVectors(all, OffsetBits, n))
        ELSE affinely_independent(BitVectors(all, OffsetBits, n - 1))

\* Mutant: the first address may be zero in its lower bits.
feed_mappingAnyFirst(address, set) ==
    IF addresses = <<>> \/ Independent(address)
    THEN addresses' = Append(addresses, address) /\ sets' = Append(sets, set)
    ELSE UNCHANGED <<addresses, sets>>
\* The return value only feeds the log.  The assertion that stops the program after
\* 100 000 rejected addresses is left out.
feed_mapping(address, set) ==
    IF \/ addresses = <<>> /\ (address \div 2^OffsetBits) % 4 # 0
       \/ addresses # <<>> /\ Independent(address)
    THEN addresses' = Append(addresses, address) /\ sets' = Append(sets, set)
    ELSE UNCHANGED <<addresses, sets>>

\* Mutant: the matrix is not moved over the offset bits.
AdjustUnmoved(row) == Uint(SubSeq(row, 1, Len(row) - 1))
\* A row of A as a mask for addresses.
Adjust(row) == Uint(SubSeq(row, 1, Len(row) - 1) \o Zeros(OffsetBits))

\* The rows of zeros that reverse appends let the policy shift by the offset.
reverse ==
    LET inputs  == BitVectors(addresses, OffsetBits, reversed_bits)
        outputs == BitVectors(sets, 0, IndexBits)
        rows    == [i \in 1..IndexBits |->
                      SolveRow(inputs, [k \in 1..Len(sets) |-> outputs[k][i]])]
    IN  [matrix |-> [i \in 1..IndexBits |-> Adjust(rows[i])] \o Zeros(OffsetBits),
         vector |-> Uint([i \in 1..IndexBits |-> Last(rows[i])] \o Zeros(OffsetBits))]

Parity(num) == Cardinality({k \in 0..(OffsetBits + LineBits) : Bit(num, k) = 1}) % 2

\* affine_placement_policy::operator()
Placement(p, address) ==
    (Uint([i \in 1..Len(p.matrix) |-> Parity(p.matrix[i] & address)]) ^^ p.vector) \div 2^OffsetBits

-----------------------------------------------------------------------------
(* The command.                                                            *)

NoPolicy == [matrix |-> <<>>, vector |-> 0]

Init == /\ SearchInit
        /\ addresses = <<>> /\ sets = <<>> /\ address_set = {}
        /\ policy = NoPolicy /\ matches = 0 /\ warned = FALSE

Collecting == \/ reversed_bits = 0
              \/ reversed_bits < TargetReversedBits /\ Cardinality(address_set) < TargetMappings

\* The strategy is there and reverse_placement_policy is called.
Begin ==
    /\ pc = "ready" /\ cache.command = "placement"
    /\ pc' = "collect"
    /\ UNCHANGED <<cache, search, target, group, found, asking, answer, placement_vars>>

\* A random address that is new is fed to the reverser.
Collect(t) ==
    /\ pc = "collect" /\ Collecting
    /\ IF t \in address_set THEN UNCHANGED <<addresses, sets>>
       ELSE feed_mapping(t, Set(t))
    /\ address_set' = address_set \cup {t}
    /\ UNCHANGED <<search_vars, policy, matches, warned>>

RunReverse ==
    /\ pc = "collect" /\ ~Collecting
    /\ policy' = reverse
    /\ pc' = "more"
    /\ UNCHANGED <<cache, search, target, group, found, asking, answer,
                   addresses, sets, address_set, matches, warned>>

CollectMore(t) ==
    /\ pc = "more" /\ Cardinality(address_set) < TargetMappings
    /\ address_set' = address_set \cup {t}
    /\ UNCHANGED <<search_vars, addresses, sets, policy, matches, warned>>

\* The confidence is compared in integers.
Verify ==
    /\ pc = "more" /\ Cardinality(address_set) >= TargetMappings
    /\ matches' = Cardinality({a \in address_set : Placement(policy, a) = Set(a)})
    /\ warned' = (matches' <= (TargetMappings \div 5) * 4)
    /\ pc' = "done"
    /\ UNCHANGED <<cache, search, target, group, found, asking, answer,
                   addresses, sets, address_set, policy>>

Next == \/ SearchNext /\ UNCHANGED placement_vars
        \/ Begin
        \/ \E t \in Address : Collect(t) \/ CollectMore(t)
        \/ RunReverse \/ Verify

Spec == Init /\ [][Next]_vars /\ SearchFairness
-----------------------------------------------------------------------------
(* Properties.                                                             *)

\* The cache's index function is affine over GF(2).
Affine ==
    \A x, y \in Addr : place[x ^^ y] = (place[x] ^^ place[y]) ^^ place[0]

\* The function that is found agrees with every mapping it was made from, also
\* when the cache's own function is not affine: the addresses that passed one test
\* each, in one bit more than the last, are still independent in the bits that are
\* finally used, and the assertions of reverse and affine_solver::solve hold.  An
\* affine index function is found exactly once all bits are uncovered, and the
\* confidence is full then.
Recovers ==
    /\ pc \in {"more", "done"} =>
          /\ affinely_independent(BitVectors(addresses, OffsetBits, reversed_bits))
          /\ \A i \in 1..Len(addresses) : Placement(policy, addresses[i]) = sets[i]
    /\ (pc = "done" /\ reversed_bits = LineBits /\ Affine) =>
          /\ \A a \in Address : Placement(policy, a) = Set(a)
          /\ matches = Cardinality(address_set) /\ ~warned

\* No sequence of draws leaves the loop that needs three addresses without one that
\* it would accept: an address that was rejected is not tried again.
CanBegin ==
    (pc = "collect" /\ reversed_bits = 0) =>
        \E a \in Address \ address_set :
            IF addresses = <<>> THEN (a \div 2^OffsetBits) % 4 # 0 ELSE Independent(a)
=============================================================================
