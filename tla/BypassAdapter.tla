---------------------------- MODULE BypassAdapter ----------------------------
(***************************************************************************)
(* The adapters that hide level 0 of a memory: bypass_adapter evicts a     *)
(* line from level 0 with an eviction set of lines it keeps to itself,     *)
(* armv8_bypass_adapter invalidates the set of the line.  The memory below *)
(* is the hierarchy of SimulatedMemory.                                    *)
(***************************************************************************)
EXTENDS SimulatedMemory

ASSUME AdapterAssumption ==
    \A m \in Memories : /\ m.adapter \in {"none", "bypass", "armv8"}
                        /\ m.adapter # "none" => Len(m.shape) >= 2

VARIABLES evsets,    \* bypass_adapter::evsets_, per set of level 0
          regions,   \* what the adapter offers
          pc,        \* "idle", or "retry" within an access
          rounds,    \* how often the eviction set was accessed for the line,
                     \* counted up to ManyRounds
          rest,      \* the lines of the eviction set that are still to be accessed
          answer     \* the level the last access returned

adapter == <<evsets, regions, pc, rounds, rest, answer>>
vars == <<memory_vars, adapter>>

Offered == UNION {LinesOf(regions[i]) : i \in 1..Len(regions)}

ManyRounds == 2

-----------------------------------------------------------------------------
(* The constructor of bypass_adapter.                                      *)

Complete(acc) == acc.found = Sets(0)

\* The placement policy gives the set of a line; the line joins the eviction set
\* unless that has its ways.  next is where the lines that are left begin.
TakeLine(acc, line) ==
    LET s == line % Sets(0)
    IN  IF Complete(acc) \/ Len(acc.evsets[s]) >= WaysOf(0) THEN acc
        ELSE [acc EXCEPT !.evsets[s] = Append(@, line), !.next = line + 1,
                         !.found = @ + IF Len(acc.evsets[s]) + 1 = WaysOf(0) THEN 1 ELSE 0]

\* Mutant: the rest begins with the last line taken.
RestOverlaps(region, new_base) ==
    [base |-> new_base - 1, physical_base |-> region.physical_base + new_base - 1 - region.base,
     size |-> region.size - (new_base - 1 - region.base)]
Rest(region, new_base) ==
    LET reserved_space == new_base - region.base
    IN  [base |-> new_base, physical_base |-> region.physical_base + reserved_space,
         size |-> region.size - reserved_space]

\* A region before the eviction sets are complete is not offered, apart from what
\* is left of the one that completes them.
TakeRegion(acc, region) ==
    LET taken == Accumulate(TakeLine, acc, [i \in 1..region.size |-> region.base + i - 1])
    IN  CASE Complete(acc) -> [acc EXCEPT !.regions = Append(@, region)]
          [] Complete(taken) /\ ~Complete(acc) /\ taken.next < region.base + region.size ->
                [taken EXCEPT !.regions = Append(@, Rest(region, taken.next))]
          [] OTHER -> taken

Constructed ==
    Accumulate(TakeRegion, [evsets |-> [s \in 0..(Sets(0) - 1) |-> <<>>], found |-> 0,
                            next |-> 0, regions |-> <<>>], memory.regions)

\* armv8_bypass_adapter has no eviction sets and offers all regions.
InitAdapter ==
    /\ Init
    /\ evsets = IF memory.adapter = "bypass" THEN Constructed.evsets ELSE <<>>
    /\ regions = IF memory.adapter = "bypass" THEN Constructed.regions ELSE memory.regions
    /\ pc = "idle" /\ rounds = 0 /\ rest = <<>> /\ answer = levels

-----------------------------------------------------------------------------
(* instrumented_access; access is the same without the result.             *)

\* No adapter: the memory itself.
PlainAccess(line) ==
    /\ memory.adapter = "none"
    /\ Access(line)
    /\ answer' = served'
    /\ UNCHANGED <<evsets, regions, pc, rounds, rest>>

\* A line that is not in level 0 is answered at once.
BypassAccess(line) ==
    /\ memory.adapter = "bypass" /\ pc = "idle"
    /\ Access(line)
    /\ IF served' > 0 THEN answer' = served' - 1 /\ UNCHANGED <<pc, rest>>
       ELSE pc' = "retry" /\ rest' = evsets[line % Sets(0)] /\ UNCHANGED answer
    /\ rounds' = 0
    /\ UNCHANGED <<evsets, regions>>

\* access_eviction_set, one line at a time.
AccessEvictionSet ==
    /\ pc = "retry" /\ rest # <<>>
    /\ caches' = do_access(caches, Head(rest))
    /\ rest' = Tail(rest)
    /\ rounds' = IF Len(rest) = 1 /\ rounds < ManyRounds THEN rounds + 1 ELSE rounds
    /\ UNCHANGED <<memory, served, accessed, recent, evsets, regions, pc, answer>>

\* Mutant: the line is looked for and not accessed again.
AccessAgainWithout ==
    /\ pc = "retry" /\ rest = <<>>
    /\ served' = Level(caches, accessed)
    /\ IF served' > 0 THEN answer' = 0 /\ pc' = "idle" /\ UNCHANGED rest
       ELSE rest' = evsets[accessed % Sets(0)] /\ UNCHANGED <<pc, answer>>
    /\ UNCHANGED <<memory, caches, accessed, recent, evsets, regions, rounds>>
\* The line once more; if level 0 still has it, all is repeated.
AccessAgain ==
    /\ pc = "retry" /\ rest = <<>>
    /\ Access(accessed)
    /\ IF served' > 0 THEN answer' = 0 /\ pc' = "idle" /\ UNCHANGED rest
       ELSE rest' = evsets[accessed % Sets(0)] /\ UNCHANGED <<pc, answer>>
    /\ UNCHANGED <<evsets, regions, rounds>>

\* Mutant: the last way is left out.
invalidate_setShort(c, s) ==
    [c EXCEPT ![1].data[s] = [w \in 0..(WaysOf(0) - 1) |->
                                IF w < WaysOf(0) - 1 THEN Invalid ELSE @[w]]]
\* isw of every way of a set of level 0, and the flush of the channel behind them.
invalidate_set(c, s) ==
    [c EXCEPT ![1].data[s] = [w \in 0..(WaysOf(0) - 1) |-> Invalid]]

\* armv8_bypass_adapter: the set is invalidated before the access and after it.
ArmAccess(line) ==
    /\ memory.adapter = "armv8"
    /\ \E c \in {invalidate_set(caches, line % Sets(0))} :
          /\ caches' = invalidate_set(do_access(c, line), line % Sets(0))
          /\ served' = Level(c, line)
    /\ accessed' = line /\ answer' = served' - 1
    /\ UNCHANGED <<memory, recent, evsets, regions, pc, rounds, rest>>

NextAdapter == \/ \E line \in Offered : PlainAccess(line) \/ BypassAccess(line) \/ ArmAccess(line)
               \/ AccessEvictionSet \/ AccessAgain

Spec == InitAdapter /\ [][NextAdapter]_vars
-----------------------------------------------------------------------------
(* Properties.                                                             *)

\* The eviction sets are complete, hold lines of their set only, and none of those
\* is offered to the client, who would otherwise bring them into level 0; what is
\* offered is memory, each line once and with its own physical address.
EvsetsReserved ==
    /\ memory.adapter = "bypass" =>
          \A s \in 0..(Sets(0) - 1) :
             /\ Cardinality(Range(evsets[s])) = WaysOf(0) /\ Len(evsets[s]) = WaysOf(0)
             /\ \A l \in Range(evsets[s]) : l % Sets(0) = s /\ l \notin Offered
    /\ \A i \in 1..Len(regions) :
          /\ regions[i].size > 0
          /\ \E j \in 1..Len(memory.regions) :
                /\ LinesOf(regions[i]) \subseteq LinesOf(memory.regions[j])
                /\ regions[i].physical_base - regions[i].base
                     = memory.regions[j].physical_base - memory.regions[j].base
    /\ \A i, j \in 1..Len(regions) : i # j => LinesOf(regions[i]) \cap LinesOf(regions[j]) = {}

\* No access of the client stays in level 0: one pass over the eviction set is
\* always enough to drive the line out, and when the access returns, level 1 has
\* the line and knows that it was used, at most the line that made room in level 0
\* came later.
ReachesNextLevel ==
    memory.adapter = "bypass" =>
       /\ rounds <= 1
       /\ (accessed # Invalid /\ pc = "idle") =>
             LET list == Recency(caches[2], accessed % Sets(1))
             IN  accessed \in {list[i] : i \in 1..Min({Len(list), 2})}

\* The level under the client: level 1 behind the ARM adapter.
Under == IF memory.adapter = "armv8" THEN 1 ELSE 0
IsLru == /\ memory.adapter # "bypass" /\ memory.shape[Under + 1].policy.kind = "LRU"
         /\ \A l \in 0..(levels - 1) : get_inclusiveness(l) # "inclusive"

\* An LRU level is an LRU cache for whoever accesses the memory: it serves a line
\* exactly when the line is among the last ones used in its set.  That is so for
\* level 0 as long as no inclusive level invalidates its lines, and behind
\* armv8_bypass_adapter for level 1, whatever was in level 0; there the adapter's
\* assertion that the level is not 0 holds too.
Seen == INSTANCE LruCache
    WITH sets <- Sets(Under), capacity <- WaysOf(Under),
         recency <- [s \in 0..(Sets(Under) - 1) |->
                        IF IsLru THEN Recency(caches[Under + 1], s) ELSE <<>>],
         request <- (IF IsLru THEN accessed ELSE Invalid), wasHit <- (IsLru /\ answer = 0)
ImplementsLru == Seen!Spec
=============================================================================
