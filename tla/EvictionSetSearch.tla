-------------------------- MODULE EvictionSetSearch --------------------------
(***************************************************************************)
(* The commands that need an eviction strategy: either CISW instructions   *)
(* are used, or an eviction set is searched for every cache set            *)
(* (provide_eviction_set_strategy) and the sets found are then asked       *)
(* which of them a target maps to (locate_set).                            *)
(*                                                                         *)
(* An address stands for its cache line.  The cache is LRU and undisturbed *)
(* during a test; reduce_eviction_set is the choice that ReduceEvictionSet *)
(* justifies.                                                              *)
(***************************************************************************)
EXTENDS Integers, Sequences, FiniteSets, SequencesExt

CONSTANTS Addresses,    \* how many cache lines the memory has
          Attempts,     \* attempts per size in find_eviction_set
          Caches        \* caches under test: geometry, index function, and how they
                        \* are used (the command and the strategy it is given)

Addr == 0..(Addresses - 1)

ASSUME SearchAssumption ==
    /\ Addresses \in Nat /\ Attempts \in Nat \ {0}
    /\ \A c \in Caches :
          /\ c.command \in {"locate", "placement"} /\ c.strategy \in {"eviction_set", "cisw"}
          /\ c.index_bits \in Nat \ {0} /\ 2^c.index_bits \in Nat \ {0} /\ c.ways \in Nat \ {0}
          /\ c.place \in [Addr -> 0..(2^c.index_bits - 1)]
          \* Enough of every set for an eviction set and the target.
          /\ c.strategy = "eviction_set" =>
                \A s \in 0..(2^c.index_bits - 1) : Cardinality({a \in Addr : c.place[a] = s}) > c.ways

VARIABLES cache,            \* the cache under test; its index function is unknown
          pc, evsets, seen_addresses, next_set, target,
          first, last,      \* of group_test, numbers from 0
          out, size, attempt,
          asking,           \* a locate_set is under way
          answer

search == <<evsets, seen_addresses, next_set>>
group  == <<first, last>>
found  == <<out, size, attempt>>
search_vars == <<cache, pc, search, target, group, found, asking, answer>>

IndexBits   == cache.index_bits   \* index_bits(0)
WaysOfLevel == cache.ways         \* ways(0)
Sets        == 2^IndexBits
place       == cache.place
strategy    == cache.strategy

Nowhere == -1   \* no target, no set
-----------------------------------------------------------------------------
(* The test.                                                               *)

Congruent(addrs, t) == {a \in addrs : place[a] = place[t]}

\* An access hits under LRU when fewer than ways other lines of its set came
\* since the last access to it.
HitsAt(list, j) ==
    \E i \in 1..(j - 1) :
        /\ list[i] = list[j]
        /\ Cardinality(Congruent({list[k] : k \in (i + 1)..(j - 1)}, list[j])) < WaysOfLevel

\* No answer when an access before the last one hits.
Verdict(list) ==
    CASE \E j \in 1..(Len(list) - 1) : HitsAt(list, j) -> "nullopt"
      [] OTHER -> IF HitsAt(list, Len(list)) THEN "false" ELSE "true"

\* safe_is_eviction_set on a polluted cache (TLC builds the list once).
safe_is_eviction_set(t, addresses) ==
    CHOOSE v \in {Verdict(list) : list \in {<<t>> \o addresses \o <<t>>}} : TRUE

\* cisw_eviction_strategy::maps_to cleans every way of the sets, so that the target
\* is gone if it was in one.
cisw_maps_to(t, from, to) == IF place[t] \in from..(to - 1) THEN "true" ELSE "false"

\* Mutant: the first eviction set of the range is left out.
maps_toSkips(t, from, to) ==
    IF strategy = "cisw" THEN cisw_maps_to(t, from + 1, to)
    ELSE safe_is_eviction_set(t, FlattenSeq(SubSeq(evsets, from + 2, to)))
\* maps_to of the two strategies for the sets from..(to - 1); for locating an
\* eviction set during the search, the same join of a range of evsets.
maps_to(t, from, to) ==
    IF strategy = "cisw" THEN cisw_maps_to(t, from, to)
    ELSE safe_is_eviction_set(t, FlattenSeq(SubSeq(evsets, from + 1, to)))

-----------------------------------------------------------------------------
(* The search.                                                             *)

SearchInit ==
        /\ cache \in Caches
        /\ pc = IF strategy = "cisw" THEN "ready" ELSE "loop"
        /\ evsets = <<>> /\ seen_addresses = {} /\ next_set = 0 /\ target = Nowhere
        /\ first = 0 /\ last = 0
        /\ out = {} /\ size = 0 /\ attempt = 0
        /\ asking = FALSE /\ answer = Nowhere

\* set_cycling_address_distribution draws an address of the set that is next if
\* the placement is modular.
CycleTo(t) == t % Sets = next_set /\ next_set' = (next_set + 1) % Sets

\* Mutant: the next set is never advanced.
DrawTargetStuck(t) ==
    /\ pc = "loop" /\ Len(evsets) < Sets
    /\ t % Sets = next_set
    /\ IF t \in seen_addresses THEN UNCHANGED <<pc, target>>
       ELSE pc' = "exists" /\ target' = t
    /\ UNCHANGED <<cache, search, group, found, asking, answer>>
\* An address seen before is skipped.
DrawTarget(t) ==
    /\ pc = "loop" /\ Len(evsets) < Sets
    /\ CycleTo(t)
    /\ IF t \in seen_addresses THEN UNCHANGED <<pc, target>>
       ELSE pc' = "exists" /\ target' = t
    /\ UNCHANGED <<cache, evsets, seen_addresses, group, found, asking, answer>>

\* The number of elements group_test looks at.
GroupSize == IF asking THEN Sets ELSE Len(evsets)

\* The first test of group_test, over the whole range.  is_eviction_set repeats a
\* test that gave no answer.
GroupTestAll ==
    /\ pc = "exists"
    /\ CASE maps_to(target, 0, GroupSize) = "true" ->
              pc' = "bisect" /\ first' = 0 /\ last' = GroupSize
              /\ UNCHANGED <<found, asking, answer>>
         [] maps_to(target, 0, GroupSize) = "false" /\ ~asking ->
              pc' = "find" /\ size' = WaysOfLevel /\ attempt' = 0
              /\ UNCHANGED <<group, out, asking, answer>>
         [] maps_to(target, 0, GroupSize) = "false" /\ asking ->
              pc' = "answered" /\ answer' = Nowhere
              /\ UNCHANGED <<group, found, asking>>
         [] OTHER -> UNCHANGED <<pc, group, found, asking, answer>>
    /\ UNCHANGED <<cache, search, target>>

GroupTestHalf ==
    /\ pc = "bisect" /\ last - first > 1
    /\ LET mid == first + (last - first) \div 2
       IN  CASE maps_to(target, first, mid) = "true"  -> last' = mid /\ UNCHANGED first
             [] maps_to(target, first, mid) = "false" -> first' = mid /\ UNCHANGED last
             [] OTHER                                 -> UNCHANGED group
    /\ UNCHANGED <<cache, pc, search, target, found, asking, answer>>

\* The target joins the eviction set that evicts it.
Located ==
    /\ pc = "bisect" /\ last - first <= 1 /\ ~asking
    /\ seen_addresses' = seen_addresses \cup {target}
    /\ evsets' = [evsets EXCEPT ![first + 1] = Append(@, target)]
    /\ pc' = "loop" /\ target' = Nowhere
    /\ UNCHANGED <<cache, next_set, group, found, asking, answer>>

\* What the distributions give: distinct addresses other than the target.  The
\* optimistic draws may all repeat one address, so every set can come out.
Draws == kSubset(size, Addr \ {target})

\* find_eviction_set: one attempt.  The loop never ends when there are not as many
\* addresses as it wants.
FindDraw(set) ==
    /\ pc = "find"
    /\ IF safe_is_eviction_set(target, SetToSeq(set)) = "true"
       THEN pc' = "reduce" /\ out' = set /\ UNCHANGED <<size, attempt>>
       ELSE /\ size' = IF attempt + 1 = Attempts THEN size + size \div 2 ELSE size
            /\ attempt' = (attempt + 1) % Attempts
            /\ UNCHANGED <<pc, out>>
    /\ UNCHANGED <<cache, search, target, group, asking, answer>>

\* reduce_eviction_set leaves as many addresses as there are ways, in any order,
\* that still evict the target; the target joins them.
Reduce(evset) ==
    /\ pc = "reduce" /\ Range(evset) \subseteq out
    /\ Len(evset) = WaysOfLevel /\ Cardinality(Congruent(Range(evset), target)) = WaysOfLevel
    /\ seen_addresses' = seen_addresses \cup Range(evset) \cup {target}
    /\ evsets' = Append(evsets, Append(evset, target))
    /\ pc' = "loop" /\ target' = Nowhere /\ out' = {} /\ size' = 0 /\ attempt' = 0
    /\ UNCHANGED <<cache, next_set, group, asking, answer>>

\* A disturbed reduction gives up; the next target is drawn.
ReduceFails ==
    /\ pc = "reduce"
    /\ pc' = "loop" /\ target' = Nowhere /\ out' = {} /\ size' = 0 /\ attempt' = 0
    /\ UNCHANGED <<cache, search, group, asking, answer>>

Index(evset) == Head(evset) % Sets

\* Mutant: the eviction sets stay in the order in which they were found.
Unordered == {evsets}
\* std::sort by the modular index of the first address; what has the same index may
\* come in any order.
Reordered ==
    {sorted \in {[i \in DOMAIN evsets |-> evsets[p[i]]] :
                     p \in Bijection(DOMAIN evsets, DOMAIN evsets)} :
        \A i, j \in DOMAIN evsets : i < j => Index(sorted[i]) <= Index(sorted[j])}

Reorder ==
    /\ pc = "loop" /\ Len(evsets) = Sets
    /\ evsets' \in Reordered
    /\ pc' = "ready"
    /\ UNCHANGED <<cache, seen_addresses, next_set, target, group, found,
                   asking, answer>>

-----------------------------------------------------------------------------
(* locate_set for a target, then the answer.                               *)

\* locate_set.  For an address of an eviction set the test may never have an answer.
LocateSet(t) ==
    /\ pc = "ready" /\ cache.command = "locate"
    /\ target' = t /\ asking' = TRUE /\ pc' = "exists"
    /\ UNCHANGED <<cache, search, group, found, answer>>

Answer ==
    /\ pc = "bisect" /\ last - first <= 1 /\ asking
    /\ answer' = first /\ pc' = "answered"
    /\ UNCHANGED <<cache, search, target, group, found, asking>>

\* Ordered choices out of a set.
Arrangements(set, n) == UNION {SetToSeqs(s) : s \in kSubset(n, set)}

SearchNext ==
        \/ \E t \in Addr : DrawTarget(t)
        \/ GroupTestAll \/ GroupTestHalf \/ Located
        \/ \E set \in Draws : FindDraw(set)
        \/ \E evset \in Arrangements(out, WaysOfLevel) : Reduce(evset)
        \/ ReduceFails \/ Reorder
        \/ \E t \in Addr : LocateSet(t)
        \/ Answer

SearchSpec == SearchInit /\ [][SearchNext]_search_vars

\* Random draws reach an address of a cache set that has no eviction set yet
\* again and again, and a reduction is not disturbed every time.
Missing == {t \in Addr : \A i \in 1..Len(evsets) : place[Head(evsets[i])] # place[t]}
SearchFairness ==
    /\ WF_search_vars(SearchNext)
    /\ SF_search_vars(\E t \in Missing : DrawTarget(t))
    /\ SF_search_vars(\E evset \in Arrangements(out, WaysOfLevel) : Reduce(evset))

-----------------------------------------------------------------------------
(* Properties.                                                             *)

\* The eviction sets found so far are complete, pure and of different cache sets:
\* each has more than ways distinct addresses of one cache set, and no two are of
\* the same one, although the addresses of a new set are drawn from the whole
\* memory and may be in others.
OnePerSet ==
    /\ \A i \in 1..Len(evsets) :
          /\ Cardinality(Range(evsets[i])) = Len(evsets[i]) /\ Len(evsets[i]) > WaysOfLevel
          /\ \A a \in Range(evsets[i]) : place[a] = place[Head(evsets[i])]
    /\ \A i, j \in 1..Len(evsets) :
          i # j => place[Head(evsets[i])] # place[Head(evsets[j])]

\* locate_set finds the eviction set of the target's cache set, by halving.  The
\* answer is the number that the hardware gives the set: with CISW always, with
\* eviction sets if the placement is modular, because they are sorted.  (An address
\* of an eviction set gets the answer that it is nowhere, or none.)
LocatesRight ==
    (pc = "answered" /\ target \notin seen_addresses) =>
        /\ answer # Nowhere
        /\ strategy = "eviction_set" => place[Head(evsets[answer + 1])] = place[target]
        /\ (strategy = "cisw" \/ \A a \in Addr : place[a] = a % Sets) => answer = place[target]

\* The search for eviction sets ends with one for every cache set, and locate_set
\* returns for every address that is not in one of them: is_eviction_set comes to
\* true or false, and find_eviction_set never wants more addresses than there are.
SearchEnds ==
    cache.command = "locate" =>
        <>(pc = "answered" \/ (asking /\ target \in seen_addresses))
=============================================================================
