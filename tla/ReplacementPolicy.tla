-------------------------- MODULE ReplacementPolicy --------------------------
(***************************************************************************)
(* The replacement policies of the library as operators.  A policy object  *)
(* is a record that carries its kind; Hit(p, way) is p.hit(way), Miss(p)   *)
(* holds the object after p.miss() and the way it returned.  SimAccess is  *)
(* the body of simulate_sequence's loop for one address.                   *)
(***************************************************************************)
EXTENDS Integers, Sequences, FiniteSets, SequencesExt, Loops

\* std::rotate(order.begin(), it, it + 1) with it at the i-th element.
ToFront(order, i) ==
    <<order[i]>> \o SubSeq(order, 1, i - 1) \o SubSeq(order, i + 1, Len(order))

Iota(ways) == [i \in 1..ways |-> i - 1]

IsPowerOfTwo(n) == \E k \in 0..n : 2^k = n
Log2(n) == CHOOSE k \in 0..n : 2^k = n

-----------------------------------------------------------------------------
(* The constructors.                                                       *)

Fifo(ways) == [kind |-> "FIFO", order |-> Iota(ways)]
Lru(ways)  == [kind |-> "LRU", order |-> Iota(ways)]
Plru(ways) == [kind |-> "PLRU", height |-> Log2(ways),
               bits |-> [i \in 0..(ways - 2) |-> 0]]

\* promotion is one of the functions hit_priority and frequency_priority.
Srrip(Bits, promotion, ways) ==
    [kind |-> "SRRIP", distant |-> 2^Bits - 1, promotion |-> promotion,
     entries |-> [w \in 0..(ways - 1) |-> 2^Bits - 1]]
Mru(ways) == Srrip(1, "hit_priority", ways)
Qlru(promotion, ways) == Srrip(2, promotion, ways)

LruWrapped(lru_ways, nested) ==
    [kind |-> "LRU_WRAPPED", lru |-> Lru(lru_ways), dirty_idx |-> 0,
     nested |-> [g \in 0..(lru_ways - 1) |-> nested]]
LruPlru(lru_ways, plru_ways) == LruWrapped(lru_ways, Plru(plru_ways))

LinearInit(nested) == [kind |-> "LINEAR_INIT", nested |-> nested, dirty_idx |-> 0]

\* ways() of the policies; a wrapped policy holds no wrapped policy.
FlatWays(p) ==
    CASE p.kind \in {"FIFO", "LRU"} -> Len(p.order)
      [] p.kind = "PLRU"            -> 2^p.height
      [] p.kind = "SRRIP"           -> Cardinality(DOMAIN p.entries)
Ways(p) ==
    CASE p.kind = "LRU_WRAPPED" -> Len(p.lru.order) * FlatWays(p.nested[0])
      [] p.kind = "LINEAR_INIT" -> FlatWays(p.nested)
      [] OTHER                  -> FlatWays(p)

-----------------------------------------------------------------------------
(* hit.                                                                    *)

\* Mutant: the element before the one found is moved.
LruHitOff(p, way) ==
    LET i == CHOOSE i \in 1..Len(p.order) : p.order[i] = way
    IN  [p EXCEPT !.order = ToFront(p.order, IF i = 1 THEN 1 ELSE i - 1)]
LruHit(p, way) ==
    [p EXCEPT !.order = ToFront(p.order, CHOOSE i \in 1..Len(p.order) : p.order[i] = way)]

\* The bits along the path to a way remember the side that was taken.
PlruHit(p, way) ==
    LET walk[level \in 0..p.height] ==
          IF level = 0 THEN [tree_index |-> 0, bits |-> p.bits]
          ELSE LET rhs == (way \div 2^(p.height - level)) % 2
                   i   == walk[level - 1].tree_index
               IN  [tree_index |-> 2 * i + 1 + rhs,
                    bits       |-> [walk[level - 1].bits EXCEPT ![i] = rhs]]
    IN  [p EXCEPT !.bits = walk[p.height].bits]

\* hit_priority and frequency_priority
Promote(promotion, entry) ==
    IF promotion = "hit_priority" \/ entry = 0 THEN 0 ELSE entry - 1
SrripHit(p, way) == [p EXCEPT !.entries[way] = Promote(p.promotion, @)]

FlatHit(p, way) ==
    CASE p.kind = "FIFO"  -> p
      [] p.kind = "LRU"   -> LruHit(p, way)
      [] p.kind = "PLRU"  -> PlruHit(p, way)
      [] p.kind = "SRRIP" -> SrripHit(p, way)

LruWrappedHit(p, way) ==
    LET n == FlatWays(p.nested[0])
    IN  [p EXCEPT !.lru = LruHit(@, way \div n),
                  !.nested[way \div n] = FlatHit(@, way % n)]

LinearInitHit(p, way) == [p EXCEPT !.nested = FlatHit(@, way)]

Hit(p, way) ==
    CASE p.kind = "LRU_WRAPPED" -> LruWrappedHit(p, way)
      [] p.kind = "LINEAR_INIT" -> LinearInitHit(p, way)
      [] OTHER                  -> FlatHit(p, way)

-----------------------------------------------------------------------------
(* miss.                                                                   *)

\* FIFO and LRU: the last way of the order comes to the front.
OrderMiss(p) ==
    [policy |-> [p EXCEPT !.order = ToFront(p.order, Len(p.order))],
     way    |-> p.order[Len(p.order)]]

\* Mutant: the bits are followed as they are.
PlruMissFollows(p) ==
    LET walk[level \in 0..p.height] ==
          IF level = 0 THEN [tree_index |-> 0, bits |-> p.bits, way |-> 0]
          ELSE LET i   == walk[level - 1].tree_index
                   rhs == p.bits[i]
               IN  [tree_index |-> 2 * i + 1 + rhs, bits |-> p.bits,
                    way |-> 2 * walk[level - 1].way + rhs]
    IN  [policy |-> p, way |-> walk[p.height].way]

\* Every bit along the path is turned and followed.
PlruMiss(p) ==
    LET walk[level \in 0..p.height] ==
          IF level = 0 THEN [tree_index |-> 0, bits |-> p.bits, way |-> 0]
          ELSE LET i   == walk[level - 1].tree_index
                   rhs == 1 - p.bits[i]
               IN  [tree_index |-> 2 * i + 1 + rhs,
                    bits       |-> [walk[level - 1].bits EXCEPT ![i] = rhs],
                    way        |-> 2 * walk[level - 1].way + rhs]
    IN  [policy |-> [p EXCEPT !.bits = walk[p.height].bits], way |-> walk[p.height].way]

\* All entries grow together until one is distant; the first such way is taken.
SrripMiss(p) ==
    LET gap == p.distant - Max(Range(p.entries))
        it  == Min({w \in DOMAIN p.entries : p.entries[w] + gap = p.distant})
    IN  [policy |-> [p EXCEPT !.entries = [w \in DOMAIN @ |->
                        IF w = it THEN p.distant - 1 ELSE @[w] + gap]],
         way    |-> it]

FlatMiss(p) ==
    CASE p.kind \in {"FIFO", "LRU"} -> OrderMiss(p)
      [] p.kind = "PLRU"            -> PlruMiss(p)
      [] p.kind = "SRRIP"           -> SrripMiss(p)

\* Mutant: the number of ways filled does not grow.
LinearMissStuck(p) == [policy |-> Hit(p, p.dirty_idx), way |-> p.dirty_idx]

\* A way that was never filled is taken before any other.
LinearMiss(p) == [policy |-> Hit([p EXCEPT !.dirty_idx = @ + 1], p.dirty_idx),
                  way    |-> p.dirty_idx]

LruWrappedMiss(p) ==
    IF p.dirty_idx < Ways(p) THEN LinearMiss(p)
    ELSE LET group == OrderMiss(p.lru)
             inner == FlatMiss(p.nested[group.way])
         IN  [policy |-> [p EXCEPT !.lru = group.policy,
                                   !.nested[group.way] = inner.policy],
              way    |-> group.way * FlatWays(p.nested[0]) + inner.way]

LinearInitMiss(p) ==
    IF p.dirty_idx < Ways(p) THEN LinearMiss(p)
    ELSE LET inner == FlatMiss(p.nested)
         IN  [policy |-> [p EXCEPT !.nested = inner.policy], way |-> inner.way]

Miss(p) ==
    CASE p.kind = "LRU_WRAPPED" -> LruWrappedMiss(p)
      [] p.kind = "LINEAR_INIT" -> LinearInitMiss(p)
      [] OTHER                  -> FlatMiss(p)

-----------------------------------------------------------------------------
(* Policies by name.                                                       *)

\* The names that start with LRU_PLRU and the number behind it: all that caches of up
\* to 128 ways can have.
PlruWays == [LRU_PLRU2 |-> 2, LRU_PLRU4 |-> 4, LRU_PLRU8 |-> 8, LRU_PLRU16 |-> 16,
             LRU_PLRU32 |-> 32, LRU_PLRU64 |-> 64]

NoPolicy == [kind |-> "nullopt"]

make_replacement_policy(name, associativity) ==
    CASE name = "FIFO" -> Fifo(associativity)
      [] name = "LRU"  -> Lru(associativity)
      [] name = "NRU"  -> Mru(associativity)
      [] name \in {"PLRU", "PLRUl"} /\ IsPowerOfTwo(associativity) -> Plru(associativity)
      [] name \in DOMAIN PlruWays ->
            LruPlru(associativity \div PlruWays[name], PlruWays[name])
      [] name = "SRRIP" -> Srrip(2, "hit_priority", associativity)
      [] OTHER -> NoPolicy

\* A pass of the loop over the powers of two from 4 below the associativity.
PlruName(name, associativity) ==
    IF PlruWays[name] < associativity /\ associativity % PlruWays[name] = 0
    THEN <<name>> ELSE <<>>

\* The candidates, in the order they are listed.
get_replacement_policies(associativity) ==
    <<"FIFO", "LRU">>
    \o (IF IsPowerOfTwo(associativity) THEN <<"PLRU", "PLRUl">> ELSE <<>>)
    \o PlruName("LRU_PLRU4", associativity) \o PlruName("LRU_PLRU8", associativity)
    \o PlruName("LRU_PLRU16", associativity) \o PlruName("LRU_PLRU32", associativity)
    \o PlruName("LRU_PLRU64", associativity)
    \o <<"SRRIP">>

\* The ways that n misses in a row evict.
EvictedBy(p, n) ==
    Accumulate(LAMBDA acc, i : [policy |-> Miss(acc.policy).policy,
                                ways   |-> acc.ways \cup {Miss(acc.policy).way}],
               [policy |-> p, ways |-> {}], [i \in 1..n |-> i]).ways

check_cyclic_eviction(p) == Cardinality(EvictedBy(p, Ways(p))) = Ways(p)

-----------------------------------------------------------------------------
(* simulate_sequence.                                                      *)

\* A way that holds nothing yet.
Dirty == -1

\* A cache set with the policy p; addresses are the numbers 0..(addrs - 1).
NewSim(p, addrs) ==
    [policy   |-> p, seen |-> {},
     addr_way |-> [a \in 0..(addrs - 1) |-> 0],
     way_addr |-> [w \in 0..(Ways(p) - 1) |-> Dirty]]

IsHit(s, addr) == s.way_addr[s.addr_way[addr]] = addr

SimAccess(s, addr) ==
    LET miss == Miss(s.policy)
        next == IF IsHit(s, addr) THEN [s EXCEPT !.policy = Hit(@, s.addr_way[addr])]
                ELSE [s EXCEPT !.policy = miss.policy, !.addr_way[addr] = miss.way,
                               !.way_addr[miss.way] = addr]
    IN  [next EXCEPT !.seen = @ \cup {addr}]

\* A hit counts when the address was seen before.
CountsHit(s, addr) == addr \in s.seen /\ IsHit(s, addr)

\* The hit counter after the accesses of sequence, from the cache set s.
HitsFrom(s, sequence) ==
    Accumulate(LAMBDA acc, addr : [sim  |-> SimAccess(acc.sim, addr),
                                   hits |-> acc.hits + IF CountsHit(acc.sim, addr) THEN 1 ELSE 0],
               [sim |-> s, hits |-> 0], sequence).hits

simulate_sequence(sequence, p, addrs) == HitsFrom(NewSim(p, addrs), sequence)
=============================================================================
