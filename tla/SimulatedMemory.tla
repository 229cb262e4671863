--------------------------- MODULE SimulatedMemory ---------------------------
(***************************************************************************)
(* The simulated memory: levels of set associative caches over a main      *)
(* memory.  An access searches the levels upwards, then fills the levels   *)
(* below the one that had the line; a line that a fill evicts moves on to  *)
(* the next level.                                                         *)
(*                                                                         *)
(* A line stands for its aligned address, which is the tag.  Levels count  *)
(* from 0; caches[l + 1] is level l.                                       *)
(***************************************************************************)
EXTENDS ReplacementPolicy

CONSTANT Memories   \* the memories to explore, see ShapeAssumption

LinesOf(region) == region.base..(region.base + region.size - 1)

\* Per level: index_bits, a fresh object of the replacement policy, and the
\* inclusiveness, which get_inclusiveness fixes to non_inclusive until it can be
\* a parameter.  The regions are counted in lines and do not overlap.
ASSUME ShapeAssumption ==
    \A m \in Memories :
       /\ Len(m.shape) \in Nat \ {0} /\ Len(m.regions) \in Nat
       /\ \A i \in 1..Len(m.shape) :
             /\ m.shape[i].index_bits \in Nat /\ m.shape[i].policy # NoPolicy
             /\ m.shape[i].inclusiveness \in {"non_inclusive", "inclusive", "exclusive"}
       /\ \A i \in 1..Len(m.regions) :
             /\ m.regions[i].base \in Nat /\ m.regions[i].size \in Nat \ {0}
             /\ m.regions[i].physical_base \in Nat
       /\ \A i, j \in 1..Len(m.regions) :
             i # j => LinesOf(m.regions[i]) \cap LinesOf(m.regions[j]) = {}

\* How a power of two grows: the levels compute their sets, and trees their nodes, with it.
ASSUME PowersAssumption ==
    /\ 2^0 = 1
    /\ \A m \in Memories : \A i \in 1..Len(m.shape) :
          \A k \in 0..(m.shape[i].index_bits + Ways(m.shape[i].policy)) : 2^(k + 1) = 2 * 2^k

VARIABLES memory,   \* the one that was built
          caches,   \* per level, the lines and the policy objects of its sets
          served,   \* the level that the last access returned
          accessed, \* history: the line of the last access
          recent    \* history, kept when there is one level: its lines, the one used
                    \* last first; for FIFO the one loaded last

memory_vars == <<memory, caches, served, accessed, recent>>

Line   == UNION {LinesOf(memory.regions[i]) : i \in 1..Len(memory.regions)}
levels == Len(memory.shape)
Sets(level) == 2^(memory.shape[level + 1].index_bits)
WaysOf(level) == Ways(memory.shape[level + 1].policy)
get_inclusiveness(level) == memory.shape[level + 1].inclusiveness
Invalid == -1

-----------------------------------------------------------------------------
(* One cache.  The policy of a set is the record of its replacement policy. *)

NewCache(level) ==
    [data        |-> [s \in 0..(Sets(level) - 1) |-> [w \in 0..(WaysOf(level) - 1) |-> Invalid]],
     replacement |-> [s \in 0..(Sets(level) - 1) |-> memory.shape[level + 1].policy]]

\* modular_placement_policy
get_set(cache, line) == line % Cardinality(DOMAIN cache.data)

\* The ways whose line is valid and has the tag; a handle is one of them.
lookup(cache, line) ==
    {w \in DOMAIN cache.data[0] : cache.data[get_set(cache, line)][w] = line}
Handle(cache, line) == CHOOSE w \in lookup(cache, line) : TRUE
Has(cache, line) == lookup(cache, line) # {}

hit(cache, line) ==
    [cache EXCEPT !.replacement[get_set(cache, line)] = Hit(@, Handle(cache, line))]

invalidate(cache, line) ==
    IF ~Has(cache, line) THEN cache
    ELSE [cache EXCEPT !.data[get_set(cache, line)][Handle(cache, line)] = Invalid]

\* A line takes the way that the policy of its set gives up.
Replace(cache, line) ==
    LET s == get_set(cache, line)
    IN  Bind(Miss(cache.replacement[s]), LAMBDA miss :
              [cache  |-> [cache EXCEPT !.replacement[s] = miss.policy,
                                        !.data[s][miss.way] = line],
               victim |-> cache.data[s][miss.way]])

\* Mutant: a line is filled that is there already.
fill_cacheTwice(cache, line) == Replace(cache, line)
\* set_associative_cache::fill: the cache and the line it evicted, if any.  A line
\* that is there is left alone, the policy does not learn of it.
fill_cache(cache, line) ==
    IF Has(cache, line) THEN [cache |-> cache, victim |-> Invalid] ELSE Replace(cache, line)

-----------------------------------------------------------------------------
(* The hierarchy; c is the sequence of the caches.                         *)

back_invalidate(c, line, level) ==
    [i \in 1..levels |-> IF i <= level + 1 THEN invalidate(c[i], line) ELSE c[i]]

\* Mutant: a victim is dropped.
FillLevelDrops(acc, level) ==
    IF acc.line = Invalid THEN acc
    ELSE [caches |-> [acc.caches EXCEPT ![level + 1] = fill_cache(@, acc.line).cache],
          line   |-> Invalid, should_back_invalidate |-> FALSE]
\* One level of fill: the line is put there, the victim is what the next level is
\* filled with.  Only the level that the fill began at invalidates lower copies.
FillLevel(acc, level) ==
    LET filled(f) == [acc.caches EXCEPT ![level + 1] = f.cache]
        inclusive(f) == /\ f.victim # Invalid /\ acc.should_back_invalidate
                        /\ level > 0 /\ get_inclusiveness(level) = "inclusive"
    IN  IF acc.line = Invalid THEN acc
        ELSE Bind(fill_cache(acc.caches[level + 1], acc.line), LAMBDA f :
               [caches |-> IF inclusive(f) THEN back_invalidate(filled(f), f.victim, level - 1)
                           ELSE filled(f),
                line   |-> f.victim, should_back_invalidate |-> FALSE])

fill(c, line, level) ==
    Accumulate(FillLevel, [caches |-> c, line |-> line, should_back_invalidate |-> TRUE],
               [i \in 1..(levels - level) |-> level + i - 1]).caches

\* The levels below the one that had the line, downwards.
back_fill(c, line, level) ==
    Accumulate(LAMBDA acc, l : IF get_inclusiveness(l) = "exclusive" THEN acc
                               ELSE fill(acc, line, l),
               c, [i \in 1..(level + 1) |-> level + 1 - i])

\* The level that has the line, levels for the main memory.
Level(c, line) ==
    CHOOSE l \in 0..levels :
        /\ l = levels \/ Has(c[l + 1], line)
        /\ \A k \in 0..(l - 1) : ~Has(c[k + 1], line)

do_access(c, line) ==
    LET level == Level(c, line)
        found == IF level = levels THEN c
                 ELSE [c EXCEPT ![level + 1] =
                         IF level > 0 /\ get_inclusiveness(level) = "exclusive"
                         THEN invalidate(hit(@, line), line) ELSE hit(@, line)]
    IN  back_fill(found, line, level - 1)

Cold == [i \in 1..levels |-> NewCache(i - 1)]

Init == /\ memory \in Memories
        /\ caches = Cold /\ served = levels /\ accessed = Invalid /\ recent = <<>>

\* A list with a line in front, which leaves the place it had.
InFront(list, line) ==
    LET place == IF line \in Range(list) THEN CHOOSE i \in 1..Len(list) : list[i] = line
                 ELSE Len(list) + 1
    IN  [i \in 1..(IF place > Len(list) THEN place ELSE Len(list)) |->
            IF i = 1 THEN line ELSE IF i <= place THEN list[i - 1] ELSE list[i]]

\* access and instrumented_access
Access(line) ==
    /\ caches' = do_access(caches, line)
    /\ served' = Level(caches, line)
    /\ accessed' = line
    /\ recent' = IF levels > 1 \/ (memory.shape[1].policy.kind = "FIFO" /\ served' = 0) THEN recent
                 ELSE InFront(recent, line)
    /\ UNCHANGED memory

Next == \E line \in Line : Access(line)

-----------------------------------------------------------------------------
(* Properties of the replacement policies, in a memory of one level with   *)
(* one set.                                                                *)

Contents(level) ==
    (UNION {Range(caches[level + 1].data[s]) : s \in 0..(Sets(level) - 1)}) \ {Invalid}
policy == caches[1].replacement[0]

\* How many of the most recent lines a policy never evicts: LRU and FIFO hold
\* exactly the last ways, pseudo-LRU holds one line per level of the tree and the
\* last one, a wrapped policy one per group and the last one.
Retained ==
    CASE policy.kind \in {"FIFO", "LRU"} -> WaysOf(0)
      [] policy.kind = "PLRU"            -> policy.height + 1
      [] policy.kind = "LINEAR_INIT"     -> policy.nested.height + 1
      [] policy.kind = "LRU_WRAPPED"     -> Len(policy.lru.order) + 1
      [] OTHER                           -> 1
RetainsRecent ==
    \A i \in 1..Len(recent) : i <= Retained => recent[i] \in Contents(0)

\* check_cyclic_eviction holds from every state the policies FIFO, LRU and PLRU
\* can reach, not only from the first one: as many misses as there are ways
\* replace the whole set, whatever was hit before.  An eviction set of the size of
\* the associativity relies on it.  The policies that fill ways in order do it only
\* once every way is filled, SRRIP and NRU do not.
AlwaysCyclic ==
    (levels = 1 /\ \/ policy.kind \in {"FIFO", "LRU", "PLRU"}
                   \/ policy.kind \in {"LRU_WRAPPED", "LINEAR_INIT"} /\ policy.dirty_idx = WaysOf(0))
       => check_cyclic_eviction(policy)

\* The policies that take ways in order evict nothing while a way is free, and
\* are hit only in ways they have filled (the assertion in linear_init's hit):
\* dirty_idx and the contents agree whatever hits come between the misses.
FillsBeforeEviction ==
    levels = 1 =>
       /\ policy.kind \in {"FIFO", "LRU", "LRU_WRAPPED", "LINEAR_INIT"}
             => Cardinality(Contents(0)) = Min({Len(recent), WaysOf(0)})
       /\ policy.kind \in {"LRU_WRAPPED", "LINEAR_INIT"}
             => \A w \in 0..(WaysOf(0) - 1) :
                   caches[1].data[0][w] # Invalid => w < policy.dirty_idx

-----------------------------------------------------------------------------
(* Properties of the hierarchy.                                            *)

\* However the fills, victims and invalidations of the levels interleave, no cache
\* holds a line twice or in a set that lookup would not search; the cascade that
\* makes room for a line does not evict that line again, so that it is in every
\* level that was filled for it; and an inclusive level has what is below it, an
\* exclusive one nothing of the level below.
Consistent ==
    /\ \A i \in 1..levels : \A s, t \in 0..(Sets(i - 1) - 1) : \A v, w \in 0..(WaysOf(i - 1) - 1) :
          LET line == caches[i].data[s][v]
          IN  line # Invalid => /\ get_set(caches[i], line) = s
                                /\ caches[i].data[t][w] = line => <<s, v>> = <<t, w>>
    /\ (accessed # Invalid /\ memory.adapter = "none") =>
          \A l \in 0..(served - 1) :
             (l < levels /\ get_inclusiveness(l) # "exclusive") => accessed \in Contents(l)
    /\ \A l \in 1..(levels - 1) :
          /\ get_inclusiveness(l) = "inclusive" => \A k \in 0..(l - 1) : Contents(k) \subseteq Contents(l)
          /\ get_inclusiveness(l) = "exclusive" => Contents(l) \cap Contents(l - 1) = {}

\* A line that an access evicts from level 0 is in level 1 afterwards, whatever the
\* fills did there, unless an inclusive level lost it at the same time.  For the
\* levels above this is not so: a second victim may evict the first.
VictimsKept ==
    [][(levels > 1 /\ memory.adapter # "armv8") =>
          \A line \in Contents(0) \ Contents(0)' :
             \/ line \in Contents(1)'
             \/ \E k \in 1..(levels - 1) : /\ get_inclusiveness(k) = "inclusive"
                                           /\ line \notin Contents(k)']_memory_vars

\* The lines of a set in the order of its LRU policy object; the ways that hold one are
\* the first of the order.
Recency(cache, s) ==
    [i \in 1..Cardinality({w \in DOMAIN cache.data[s] : cache.data[s][w] # Invalid}) |->
        cache.data[s][cache.replacement[s].order[i]]]
=============================================================================
