------------------------------- MODULE MCMemory -------------------------------
(* Memories for TLC.                                                       *)
EXTENDS BypassAdapter

Cache(index_bits, fresh, inclusiveness) ==
    [index_bits |-> index_bits, policy |-> fresh, inclusiveness |-> inclusiveness]
NonInclusive(index_bits, fresh) == Cache(index_bits, fresh, "non_inclusive")
Region(base, physical_base, size) ==
    [base |-> base, physical_base |-> physical_base, size |-> size]
Memory(a, shape, r) == [adapter |-> a, shape |-> shape, regions |-> r]
Whole(lines) == <<Region(0, 16, lines)>>

\* One set under every replacement policy, also under those that no name stands
\* for.  The ages of SRRIP take most of the states, so it has a way less.
SingleSet(fresh) ==
    Memory("none", <<NonInclusive(0, fresh)>>, Whole(IF fresh.kind = "SRRIP" THEN 4 ELSE 5))
SingleSets ==
    {SingleSet(make_replacement_policy(name, 4)) : name \in {"FIFO", "LRU", "PLRU", "LRU_PLRU2"}}
    \cup {SingleSet(make_replacement_policy(name, 3)) : name \in {"SRRIP", "NRU"}}
    \cup {SingleSet(LinearInit(Plru(4))), SingleSet(Qlru("frequency_priority", 3))}

\* What the code builds: get_inclusiveness returns non_inclusive.
Hierarchies ==
    {Memory("none", <<NonInclusive(0, Lru(2)), NonInclusive(0, Plru(2)),
                      NonInclusive(0, Fifo(3))>>, Whole(4)),
     Memory("none", <<NonInclusive(0, Lru(1)), NonInclusive(0, Plru(2)),
                      NonInclusive(0, Fifo(3))>>, Whole(5)),
     Memory("none", <<NonInclusive(1, Lru(2)), NonInclusive(0, Plru(2))>>, Whole(6)),
     \* The branches of the hierarchy logic for the other values.
     Memory("none", <<NonInclusive(0, Lru(2)), Cache(0, Lru(2), "exclusive"),
                      Cache(0, Lru(3), "inclusive")>>, Whole(5))}

TwoSets == <<NonInclusive(1, Lru(2)), NonInclusive(1, Lru(3))>>
Bypasses ==
    {\* The eviction sets end within the second region.
     Memory("bypass", TwoSets, <<Region(0, 20, 3), Region(3, 8, 3), Region(6, 40, 2)>>),
     Memory("bypass", <<NonInclusive(0, Plru(4)), NonInclusive(0, Lru(4))>>, Whole(7)),
     Memory("armv8", TwoSets, Whole(6))}

AllMemories == SingleSets \cup Hierarchies \cup Bypasses
=============================================================================
