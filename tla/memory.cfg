SPECIFICATION Spec
CONSTANT Memories <- AllMemories
INVARIANTS RetainsRecent AlwaysCyclic FillsBeforeEviction Consistent EvsetsReserved ReachesNextLevel
PROPERTIES VictimsKept ImplementsLru
