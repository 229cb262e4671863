# A TLA+ model of CacheHound

CacheHound reverse-engineers the placement and replacement policies of CPU
caches. A kernel module runs an *agent* thread that performs memory accesses and
reads performance counters on behalf of a user process; the library in user
space (`lib/`) sends it operations through a shared page and builds eviction
sets from what it measures; the command line tool (`cli/`) draws conclusions
about the cache. This directory holds TLA+ modules for the parts of that system
with state worth checking, TLC configurations, and proofs checked by TLAPS.

## 1. Inventory

| Component | State | Operations | Interaction |
|---|---|---|---|
| Channel (`kernel/ch_channel.h`) | one control word and seven data words per channel, 64 channels in a page | set access, wait for idle, terminate | shared by user space, agent and `device_release` |
| `kernel_memory` (`lib/.../backends`) | buffer of seven operations, active channel, mapping | `access`, `instrumented_access`, `flush`, `clflush`, `wbinvd`, `csw/isw/cisw`, `switch_channel`, destructor | stores requests, spins on the control word |
| Agent (`kernel/cachehound.c`, two assembly loops) | its channel, count, position, counter registers | poll, batch, wbinvd, channel switch, exit | clears the control word; publishes `active_channel` |
| Character device (`kernel/cachehound.c`) | `struct ch_state`: reference counter, `started`, list of regions | open, `ALLOC_MEMORY`, `CACHE_INFO`, `START_AGENT`, mmap, release | called by any thread with the file; creates the agent |
| `kernel_memory` constructor | regions | allocate with decreasing order, `defragment_regions` | calls the device |
| Eviction-set algorithms (`lib/.../algo`) | a vector of addresses and iterators into it | reduce, reduce_slow, minimize_slow, find, locate | call `is_eviction_set` on a memory |
| Search for eviction sets (`cli/.../eviction_strategy_command_base.hpp`) | eviction sets found, addresses seen | the retry loops around find, locate and reduce | drives the algorithms, switches channels |
| Replacement policies (`lib/.../policies/replacement`) | per policy: order, tree bits, ages | `hit`, `miss`, `reset` | used by the simulator and the reversal |
| Replacement reversal | remaining candidates | measure a sequence, take the majority, eliminate | uses memory and policies |
| Placement policies and reversal | affine maps over GF(2) | solve, test | uses eviction strategies |
| Simulated memory (`sim/`) | lines per set and level | access, fill, back-invalidate | a memory without the kernel |
| Adapters | bypass and physical addressing | access, instrumented access | wrap a memory |
| Performance counters (`kernel/ch_pmc.h`, `--pmu` in `cli/`) | event selections and counts of a CPU, a saved copy | save, configure, read, restore; the handlers that turn counts into a level | the agent programs them, other users and interrupts share them |
| Cache information, argument parsing, type erasure | none that outlives a call | | |

What is hard in this code:

* **Three threads and one page without a lock.** User space, the agent and
  `device_release` own a channel in turns; the turn is one bit. The order of
  single stores decides whether an operation is lost, performed twice or its
  counters are somebody else's.
* **Channel switches.** The agent gives the old channel back *before* it reads
  the new channel's number from it, and user space does not wait for the agent
  to arrive; requests to switch can pile up in front of the agent.
* **Termination.** A process can be killed at any instruction; the agent has its
  CPU, often with interrupts off, until `device_release` reaches it.
* **Life time.** The agent outlives the file. A reference counter decides who
  frees the state; the region list has no lock.
* **In-place algorithms.** Group testing swaps groups of two sizes inside one
  vector through iterators.
* **Loops that only chance ends**, around noisy measurements: a test that gives no
  answer is repeated, an eviction set that was not found is searched in more
  addresses, candidates are eliminated until one is left.
* **Inference from a state nobody can read.** The replacement state of the cache is
  whatever the pollution left, the simulation starts from a fresh object; the
  eviction of a line depends on every access the tool itself makes.
* **Counters at their width**, read on a CPU where interrupts count too.

What makes each part correct: a memory performs what it was asked, once and in
order, and an instrumented access returns the counters of *its* access; the
device frees everything once and only when nobody can reach it; the algorithms
return eviction sets of the right size whenever there is one; the searches end, and
name cache sets, policies and index functions that are those of the cache.

`PROJECT.json` lists these hazards at their lines with the properties for them.

## 2. Modules

| Module | Models |
|---|---|
| `ChannelWord` | the control word, the request field and the operation words: how user space encodes them and how the agents decode them. `Arch` selects the `#if` branch |
| `FifoMemory` | the abstract specification: operations are executed once and in order; an instrumented access returns only when everything issued is executed |
| `ChannelProtocol` | `kernel_memory`, the agent and `device_release` on the shared page, one action per access to shared memory |
| `ChannelInvariant` | the inductive invariant `IndInv` of `ChannelProtocol` |
| `ChannelProofs` | lemmas, one lemma per action of `ChannelProtocol`, and its theorems |
| `DeviceProofs` | the inductive invariants of `Device` and its theorems |
| `EvictionSetProofs`, `PmcProofs`, `RegionProofs`, `ReplacementProofs` | the same for `ReduceEvictionSet` and `EvictionSetSearch`, for `PerformanceCounters`, `MemoryRegions` and `ReplacementReversal` |
| `MemoryProofs` | the same for `SimulatedMemory` and `BypassAdapter`, with the refinement of `LruCache` |
| `Lemmas` | lemmas that several of them cite: induction over a set of numbers, sequences and how they are joined, the steps of the replacement policies |
| `Device` | one open file: the threads in `ioctl`, `mmap` and `close`, the agent's life, `device_release`, `ch_state_put` and `ch_state_free` |
| `ReduceEvictionSet` | `reduce_eviction_set`, `reduce_eviction_set_slow`, `minimize_eviction_set_slow` |
| `ReplacementPolicy` | the replacement policies as records with `Hit` and `Miss`, their factory and the candidates it can build, for caches of up to 128 ways (`PlruWays`), `simulate_sequence`, `check_cyclic_eviction` |
| `SimulatedMemory` | `set_associative_cache` and `simulated_memory`: a hierarchy with fills, victims and back invalidation |
| `LruCache` | the abstract specification of a cache level: one recency list per set |
| `BypassAdapter` | `bypass_adapter` and `armv8_bypass_adapter` above a `SimulatedMemory`; extends it, so that memories without an adapter are in it too |
| `ReplacementReversal` | `reverse_replacement_command` |
| `EvictionSetSearch` | `eviction_strategy_command_base`: the search for eviction sets, the two strategies, `locate_set` |
| `PlacementReversal` | `reverse_placement_command` with `affine_placement_reverser`, `affine_solver` and `affine_placement_policy`; extends `EvictionSetSearch` |
| `MemoryRegions` | the constructor of `kernel_memory`, `address_checker`, `physical_adapter::translate`, `uniform_address_distribution` |
| `PerformanceCounters` | `ch_pmc.h`, the part of `agent()` that uses it, and the handlers of `--pmu` |
| `Loops` | `Bind` and `Accumulate`: loops over a sequence, as a recursive function |
| `MCMemory`, `MCReplacement`, `MCPlacement` | the memories and caches that TLC uses |

**ChannelProtocol.** `control` and `data` are the page; `active_channel` is the
field of `ch_state` that the agent publishes. User space is `upc` with
`active_channel_` and `buffer_` (the members of `kernel_memory`); `ret` is where
the call of `flush()` returns to. A public method is a first action (`Access`,
`InstrumentedAccess`, `Wbinvd`, `SwitchChannel`, `Destroy`) and the shared
accesses that follow (`FlushWait`, `FlushCopy`, `FlushSet`, ...). A spin on the
control word is an action with the condition as its guard. Copying up to seven
words (`FlushCopy`), reading six counters (`InstrRead`) and writing them
(`WriteCounters`) are single actions; `NoDataRace` shows that the other side
never reaches the same words in between, which is what makes that sound. The
agent is `apc` with its registers. Operations are numbered in the order of the
calls; a word of `data[]` records whether it is an operation, a channel number
or a counter, so that a word taken for something else shows. `reset()` is a
sequence of `cisw` and `flush` and needs no action of its own. `Kill` ends the
process anywhere. Memory ordering: the control word is stored with release and
loaded with acquire semantics on both sides (x86 keeps the order by itself), so
sequential consistency between the control word and the data words it guards is
what the code establishes.

**Device.** `pc` holds the program counters of the user threads, of the agent
and of `device_release`; `old` is the local `old_ref` of the loops around
`atomic_cmpxchg`. The file is released when the descriptor is closed, the page is
unmapped and no call is in progress (rule of the kernel, external). The channels
are a ring of control words, each idle or with a request, a switch or the order to
exit: enough for `device_release` to address a channel that the agent has left. What
else travels through them is in `ChannelProtocol`. The client switches as
`switch_channel()` does, and keeps the condition of finding 2, so that the agent finds
the number that was stored for it. A `START_AGENT` whose `kthread_create` fails dies on
the error pointer (`CreateFails`): its thread stays in the call for ever.

**ReduceEvictionSet.** Positions are iterators; each call of `is_eviction_set`
is a step. `is_eviction_set` is a parameter of the algorithms: the model answers
as a cache set of `ways` lines does without noise (external). `Init` ranges over
every eviction set up to the bound, every `max_size` and every associativity.
`minimize_eviction_set` (the fast variant) calls `reduce_eviction_set` with an
argument missing, so no program can contain it, and is left out.

**SimulatedMemory and BypassAdapter.** `caches` holds, per level, the lines of every
way and a policy object per set, as `set_associative_cache` does; `Access` is
`do_access` with its fills. `memory` is the configuration, drawn from the constant
`Memories` in `Init`: the adapter in front, the levels, the regions. One-level memories
with a single set are where the replacement policies are explored. `recent` is a
history variable, the lines in the order of their last access.
`get_inclusiveness` returns `non_inclusive` in the code; the branches for the other
values are explored too. In a hierarchy of three levels the third must be larger than
the ones below, as in every real one: a victim that cascades upwards may otherwise
push out the line just accessed. The adapters are constructed in `Init` (`Constructed`
is the loop over regions and lines); `BypassAccess`, `AccessEvictionSet` and
`AccessAgain` are the turns of the retry loop, `ArmAccess` is the CISW variant.
Operations that an adapter only passes on are not repeated.

**ReplacementReversal.** A round is `Generate`, as many measurements as
`repetitions_`, and `Eliminate`. The cache under test behaves as one of the known
policies, from every state that the pollution can leave (`Used`, `Pollution`), also
when pollution was too weak and an address of the sequence is still cached. What can
be measured is computed with the sequence (`Outcomes`). An interrupt costs a hit, in
fewer than half of the repetitions. Sequences are taken up to a renaming of addresses,
which neither the policies nor the simulation see.

**EvictionSetSearch and PlacementReversal.** An address is a cache line. `place` is the
index function, which the code does not know. `is_eviction_set` is computed from
`place` for an undisturbed LRU cache, with its third outcome, no answer, which the code
repeats. `reduce_eviction_set` is one step, by `Sound` and `Complete` of
`ReduceEvictionSet`; a disturbed one may fail (`ReduceFails`). The placement command
begins when the strategy is there; its calls of `locate_set` are one step each, which
`LocatesRight` justifies, and its failures, which change nothing, are left out, as is
the assertion that stops the program after 100 000 rejected addresses. Vectors and
matrices over GF(2) are sequences of bits; the determinant is computed with a
recursive function over rows and columns.

**MemoryRegions.** Addresses count pages. The kernel gives out any free aligned block
of the order asked for or fails; `allocated` is a history variable. Every call on the
device may fail. The kernel's map is linear, so that blocks adjacent virtually are so
physically and `Join` never sees the one without the other. `Draw` has the alignment and
the offset of `uniform_address_distribution`; with bounds in the wrong order it returns
any multiple of the alignment, with the offset.

**PerformanceCounters.** Registers of one CPU, counters of a small width that is not the
width of a word, another user's event selections, and interrupts, which count unless the
isolation level excludes them; preemption is always off, by `get_cpu`. `amd-zen2` cannot tell L3 from memory, which `LevelTold` says. On the
A64FX any access may count for the event 0x0017 (`Overcounted`, the erratum quoted at
`reverse_command.hpp:255`), which the handler does not correct. Only whether it counts is
modelled, not by how much. On aarch64 `ch_local_pmc_save` does not clear what it saves, and
`Restore` leaves the enable bits, `PMCR_EL0` and `PMCCFILTR_EL0` as the agent wrote them;
`Restored` is about the event selections.

## 3. Runs

| Run | Bounds | Shows |
|---|---|---|
| `channel_x86` | 3 channels, batches of 2, 3 operations, 4 switches | order, no races, right channel numbers, `IndInv`, and that the protocol implements `FifoMemory` |
| `channel_arm` | aarch64; 3 channels, 3 operations, 2 switches | an instrumented access returns, with its own counters; submitted operations are executed after a kill; release stops the agent when no switch is outstanding |
| `channel_release` (violation) | 2 channels, 1 switch | release during a switch: the agent is never told |
| `channel_wrap` (violation) | 4 channels, 4 switches in a row | a client that wraps around makes the agent read a wrong channel number |
| `device` | 3 threads, one of which allocates, 3 regions, 3 channels | reference counting, no use after free, freed once and completely, one agent, and freed eventually when no switch is outstanding |
| `device_race` (violation) | 2 allocating threads, 2 regions, 1 channel | a region is lost |
| `reduce` | 10 addresses, `max_size` up to 3, up to 4 ways | iterators stay in range, results are right, every call returns |
| `memory` | eight policies of 3 or 4 ways, four hierarchies of 2 or 3 levels, three bypassed memories; 4 to 8 lines | the policies' promises (`RetainsRecent`, `AlwaysCyclic`, `FillsBeforeEviction`), `Consistent` contents, `VictimsKept`, the adapters' `EvsetsReserved` and `ReachesNextLevel`, and `ImplementsLru`: LRU levels implement `LruCache`, also behind the ARM adapter |
| `replacement` | FIFO and LRU with 3 ways, PLRU with 4; sequences of 6 over 5 addresses, 3 repetitions | the policy survives, what is left can be told apart, and the command ends with the policy |
| `placement` | 8 lines; 2 sets of 2 ways, 4 sets of 1; both strategies; index functions to 2 sets (all linear ones), to 4 sets, and one not affine; 3 bits or 5 mappings | one eviction set per cache set, `locate_set` right, the search ends, the equations can be solved and give the index function, no draws lead into a dead end |
| `regions` | 9 pages, 1 of them busy, orders up to 2, 5 pages wanted; alignments of 1, 2 and 4 pages, every offset | regions, checker and translation are exactly the memory; random addresses are in it while no block was smaller than the alignment; the constructor ends with the device closed |
| `pmc` | counters of 2 bits in words of 3, 1 interrupt per access, all four methods | the level is told right but for the overcount of the A64FX, errors go one way, selections are restored |

Why the bounds are enough to meet the interesting cases. Three channels and four
switches let the client go round the page once and let two switch requests wait
in front of the agent; a batch of two has a first operation that is not
instrumented and a last one that is; three operations fill one batch and begin
another. In `device` three regions are what it takes to lose the middle of a
list, three threads let two `START_AGENT` calls and an `ALLOC_MEMORY`
overlap, and three channels let two switches wait in front of the agent. In `reduce`
ten addresses in four groups include sizes at which `current_size % min_group_size` and `current_size % groups` differ. In `memory` every
set has at least one line more than it has ways, tree-PLRU has a tree with a root and
inner nodes, and one eviction set of the adapter ends inside a region. In
`replacement` five addresses are more than every cache holds, six accesses are enough
to tell all candidates apart (`Distinguishable` checks it), and one of three
repetitions can be wrong. In `placement` eight lines are exactly what the eviction
sets need, so that find_eviction_set reaches its largest size; four sets are halved
twice; three line bits need four independent addresses, and a fifth mapping verifies
them. In `regions` blocks of three sizes come in any order, and the order may fall to
that of a page, below both of the larger alignments. In `pmc`
every counter wraps around.
Deadlock is checked in `memory` and `pmc`; the other systems end (a client ends, a
state is freed, a call returns), so that a last state is no error, and the liveness
properties say what must be reached.

Fairness. `channel_arm` and `channel_release` assume weak fairness of the steps
of user space inside a call, of the agent and of `device_release`: each is a
thread that the kernel schedules, and its spin loops have no other exit. The
client need not call anything, and may be killed. `device` assumes it of the
agent and of `device_release` only. `reduce` and `regions` are sequential programs.
`replacement` assumes of chance that pollution succeeds again and again and that
while rounds go on a sequence comes up on which two candidates differ;
`Distinguishable` shows that there is one. `placement` assumes for the search that
draws come to a set that has no eviction set yet, and that not every reduction is
disturbed: both are random and independent from turn to turn.

### Findings

1. `channel_release`: `device_release` takes `active_channel` and terminates that
   channel (`cachehound.c:747`). If the process dies after `switch_channel()` has
   stored its request, the agent sets that channel idle *for the switch*, the
   compare-and-swap succeeds on the channel the agent has just left, and the
   agent polls its new channel for ever, with its reference to the state.
   `ReleaseStopsAgent` shows that a pending switch is the only way to get there, and
   `EventuallyFreed` that without one the state is freed; with one it need not be.
2. `channel_wrap`: the agent idles the old channel (`cachehound.c:301`) before it
   reads `data[0]`. This is safe for clients that switch fewer times than there
   are channels between two instrumented accesses (theorem `SwitchesSound`). The
   tool switches every tenth turn of its search and nearly every turn performs
   instrumented accesses, but nothing enforces it: turns whose target was seen
   before perform none. `switch_channel()` is public and has no such condition.
3. `device_race`: two concurrent `ALLOC_MEMORY` calls on one file lose a region.
   The library allocates from one thread.

Conditions that the properties carry, because the code needs them:

* `Identified` holds for policies that are listed under one name. PLRU is listed as
  `PLRU` and `PLRUl`, so that on a PLRU cache the elimination never ends.
* `TruthSurvives` is checked for FIFO, LRU and PLRU caches. An SRRIP cache does not
  behave like a fresh SRRIP object after pollution, so that it may eliminate itself.
* `SearchEnds` and `LocatesRight` are about addresses that are in no eviction set.
  For a member `safe_is_eviction_set` can be without an answer for ever, or the answer
  is that no set matches; the commands draw from the whole memory.
* `ReachesNextLevel` needs a first level from which one more line than ways evicts the
  target; SRRIP is none.
* `EventuallyFreed` and `ReleaseStopsAgent` need that no channel switch is outstanding
  when `device_release` reads `active_channel`; `channel_release` is what happens
  otherwise. `EventuallyFreed` begins with `device_release`, which a `START_AGENT` that
  died on an error pointer keeps from being called.
* `DrawsValid` needs that the constructor never fell below the order of the alignment.
  Nothing in the code ensures it: `find_eviction_set` (`find_eviction_set.hpp:59`) aligns to
  `offset_bits + index_bits`, which for the outer levels is more than a page, and the order
  falls to that of a page when the kernel has nothing larger. Without the condition TLC
  violates `DrawsValid` at the bounds of `regions`: with the order fallen to 1 the memory
  has a region of the pages 8 to 11 and one of 14 and 15; rounded to four pages the second
  has the lower bound 3 and the upper bound 3, and the address drawn is page 12, outside of
  both. A comment (`uniform_address_distribution.hpp:14`) promises valid memory addresses
  for every alignment. A smaller region has its bounds in the wrong order.
* `LevelTold` excepts an A64FX that says memory: the handler takes 0x0017 at its word,
  although the comment next to it says that the event counts more than occurs and how to
  correct it. Its other answers are right.
* `Recovers` says nothing of the warning about low confidence beyond the case that the
  index function is affine: the threshold is 80 % of `target_mappings_` in integers,
  and not of the mappings verified.

## 4. Proofs

`ChannelProofs` proves, for every number of channels, every stride that visits
them all, every batch size up to seven, all bounds and both architectures:

* `Inductive`: `Spec => []IndInv`;
* `TypeCorrect`, `OrderKept`, `OwnResult`, `SyncSound`, `RaceFree`,
  `SwitchesSound`, `SidesAgree`: the safety properties;
* `Implements`: `Spec => Fifo!Spec`, the refinement.

Assumptions: `ChannelAssumption` (the stride 5 is prime to the number of
channels, 64), `BufferAssumption` (a batch stays below the switch request),
`ArchAssumption`, `BoundAssumption`, and `ClientAssumption`, the client's side of
the contract from finding 2.

The argument. None of the properties is inductive alone. `IndInv` says where
everything is: user space and the agent walk the same sequence of channels
(`ChannelAfter`), the agent `usw - asw` positions behind (`PositionInv`); the
channels between them hold one switch request each, with the right number in
`data[0]`, and nothing else (`ChainInv`); because fewer than `ChannelCount`
switches are outstanding those channels are distinct (`ChannelAfterDistinct`), so
nobody overwrites a request. The operations issued are, in this order, those
executed, those in flight, those buffered and a waiting `wbinvd` (`CountInv`,
`BufferInv`, `BatchInv`); `AgentInv` and `UserInv` tie the program counters to
the control words, and `CounterInv` and `SyncInv` carry the counters from the
agent's registers to `instrumented_access`. There is one lemma per
action. TLC checks `IndInv` as an invariant of `channel_x86`; `TypeOK`,
`SyncComplete` and `ChannelAgreement` follow from it and are in no run of their own.

`DeviceProofs` proves, for any set of threads and regions:

* `ReferencesCounted`, `NeverUsedFreed`: `[]RefCount`, `[]NoUseAfterFree`;
* `SingleAgent`: the action property `OneAgent`;
* `RegionsFreed`, `OwnReply`: `[]AllRegionsFreed` and `[]ReplyIsOwn` under the
  hypothesis `SingleAllocator`, that `ALLOC_MEMORY` comes from one thread, as it does
  from the library. Without it a region can be lost; run `device_race` is the counterexample.

Besides the count, `LifeInv` says that `started` is a lock that is never given back, so
that at most one thread is past `ch_state_try_start` and the agent that does not run yet
is its agent (`StartInv`); that with `device_release` entered no thread is in the driver
(`ReleaseInv`); and that whoever frees the state is alone with it (`FreeInv`). For the list, `RegionInv` says that the
pages allocated are exactly what the list reaches from its head, or from `it` while it
is being freed, that the list ends, and where the one thread that appends has got to.
Reachability is written without recursion: a region is reached when it is in every set
that contains the start and is closed under `next`.

`EvictionSetProofs` proves `IteratorsInRange`, `ReductionSound` and `ReductionComplete`, for
every number of addresses, `max_size`, associativity and order of the input. The
lemmas count the congruent addresses in parts of a vector: swapping two ranges that do
not overlap keeps the count of the whole, and dividing `current_size` by the number of
groups gives groups that end where the vector ends, although the number of larger
groups is computed as `current_size % min_group_size`. `GroupInv` is the pigeonhole
argument behind completeness: every group that could not be left out takes more of the
target's cache set than can be missed, so that after `max_size + 1` such groups there
are more ways than `max_size`.

`PmcProofs` proves `LevelsTold` and `SelectionsRestored` for every width of counters and
words and every number of interrupts that a counter can count. `CountInv` says that
between the two readings a counter has moved by what the event counted modulo its
width, hence that the difference computed in words and cut to the counter's width is
that number also when it wrapped around; a counter that must see an access has moved, and
one that may not see it has not (`Sees`, `MaySee`, which differ only in the
overcounted event); `SavedInv` and `ConfigInv` follow the agent's copy of the selections. `PmcAssumption` compares `2^CounterBits` with `2^WordBits`
instead of the exponents, because the provers do not know powers.

`EvictionSetProofs` also proves `SetsDiffer` and `LocatedRight`, that is `[]OnePerSet` and
`[]LocatesRight`, of `SearchSpec`, for every number of addresses and every geometry and
index function with more lines of each set than ways (`SearchAssumption`). The run checks
both under `PlacementReversal`, whose own steps change nothing of the search but `pc`.
The argument: eviction sets are made of addresses that have been seen, so for a target
that has not been, an answer of the test says exactly whether one of the joined sets is
of its cache set (`TestTells`, `RangeTells`); hence halving keeps that set in the range
(`BisectInv`), a new set is made only where there is none (`MissingInv`), and when there
are as many sets as the cache has, every target's is among them (`AllSets`, a pigeonhole
argument). Sorted numbers that differ and are below their count are 0, 1, 2, ...
(`Ascending`), which gives the modular case. That `FlattenSeq` joins, although it is
recursive, is proved by induction over a set of numbers (`Least`, `Induct`), from the
library's fact that every set of numbers has a least member; first that its recursion
has a solution at all (`JoinExists`). The assumptions name `2^c.index_bits` as a positive
number, for the same reason as in `PmcAssumption`. The final sort is any order in which
indices do not descend, since `std::sort` is not stable.

`RegionProofs` proves, for any number of page frames, any set of busy ones, any largest
order and any amount of memory wanted (`RegionsAssumption`):

* `MemoryExact`: `Spec => []RegionsExact`;
* `DrawsInside`: `Spec => []DrawsValid`, for any alignments and offsets.

The invariant follows the constructor. While it allocates (`AllocInv`) the regions are
blocks that do not overlap and make up what was allocated; the number of those pages and
`min_size` together do not fall below what was asked for (`CountInv`). `defragment_regions` sorts, which keeps the blocks, and joins
neighbours: after every prefix of the sorted list the joined regions cover the same
pages as the prefix, in ascending order and with a gap between any two (`Gapped`,
`BuiltInv`). With gaps between regions a page is in one region only, and the checker, which
looks for the last base that is not above an address, finds it. For the random addresses
`GroupInv` says that the memory given out consists, for every alignment up to the order that
the constructor has fallen to, of whole aligned groups of pages: every block does
(`GroupInBlock`), since its size is a multiple of the group's. A region begins and ends where
the memory does (`RegionEdges`), so its bounds lie between two groups (`RegionAligned`), and
rounding them loses nothing (`Multiples`, `DrawStep`). `VirtualOffset` is a multiple of the
largest block, as the kernel's linear map has it, and `RegionsAssumption` also gives the provers
the products of powers of two.

`ReplacementProofs` proves `PolicySurvives`, `Spec => [](truth \in {"FIFO", "LRU", "PLRU",
"PLRUl"} => TruthSurvives)`: the policy of a FIFO, LRU or tree-PLRU cache is never
eliminated, for every number of ways, addresses, repetitions, rounds and every length of
the sequences. A cache set after pollution is not in the state of the fresh object that
simulates it, but it is that state up to a renaming of the ways (`Alike`): any two orders
of n ways (`OrdersAlike`), and any two trees of the same height (`TreesAlike`), differ only
in which way is which. A hit and a miss keep the renaming (`AlikeHit`, `AlikeMiss`). For
the trees this needs the arithmetic of the code: the node that `hit` and `miss` visit at a
level is made of the upper binary digits of the way (`Prefix`, `Node`, `Digits`, `Descend`),
and all that counts is at which levels the bits on the path of a way point to it
(`Toward`), which a hit and the search for a victim change in a way that depends on
nothing else (`Turned`). An access keeps the addresses of the sequence in ways that the
renaming relates (`Same`, `SameAccess`), as long as no address of the sequence was in the
polluted cache at its first access. Where one was, `safe_measure_sequence` gives no
result. Hence every undisturbed measurement is what `simulate_sequence` counts for the
policy. `majority_element` finds it because fewer than half of the measurements are wrong,
although the first one counts twice (the potential argument is in `MajorityFacts`), and
`filter_replacement_policies`, which swaps in place, keeps every name that agrees with it
(`FilterFacts`). TLC has checked the invariant, `ReversalInv`, on the constants of
`replacement`. The loops of the model are recursive functions under a `CHOOSE` (`Loops`);
the provers do not instantiate lemmas about operators, so the proofs name the loops
(`Body`) and show once that a function with the recursion exists and is unique (`Runs`,
`RunExists`). The provers do not know what a power is either: the recursion of `2^k` is
`PowersAssumption` of `ReplacementReversal`, which TLC evaluates.

`MemoryProofs` is about `BypassAdapter`, hence about every memory with or without an adapter:
any number of levels, sets and ways, any regions. A hypothesis says of which memory a theorem
is:

| Hypothesis | Says |
|---|---|
| `Usual` | the levels have the policies FIFO, LRU or tree-PLRU, as the factory builds them |
| `Plain` | every level is `non_inclusive`, which is all that `get_inclusiveness` returns in the code |
| `Grown` | level *i*, counted from 0, has more than *i* ways, so that the victims that come from below cannot fill it |
| `OneSet` | a FIFO or LRU memory of one level and one set, as the properties of the policies have it |
| `LruPair` | levels 0 and 1 are LRU, and level 1 has two ways or more |

| Theorem | Hypotheses | Property |
|---|---|---|
| `EvictionSetsReserved` | any policies; level 0 has a way, and `bypass_adapter` has something to offer | `[]EvsetsReserved` |
| `MemoryInvariant` | `Usual` | `[]MemoryInv`, the invariant of the others |
| `VictimsAreKept` | `Usual` | `VictimsKept`, an action property |
| `EvictionIsCyclic` | `Usual` | `[]AlwaysCyclic` |
| `LevelsConsistent` | `Usual`, `Plain`, `Grown` | `[]Consistent` |
| `RecentRetained` | `Usual`, `Plain`, `OneSet` | `[]RetainsRecent` |
| `FilledBeforeEviction` | `Usual`, `Plain`, `OneSet` | `[]FillsBeforeEviction` |
| `LevelsImplementLru` | `Usual`, `Plain` | `ImplementsLru`, the refinement of `LruCache` |
| `AccessesReachNextLevel` | `Usual`, `Plain`, `LruPair` | `[]ReachesNextLevel` |

The argument. `EvictionSetsReserved` follows the two loops of the adapter's constructor: a line
joins an eviction set only while that is short of ways (`Tallied`, `Within`, `Opened`), and what
is offered begins behind the last line that was taken. A memory too small for the eviction sets
offers nothing, which is the hypothesis. `MemoryInv` says that every level is a cache whose
lines are in their sets, each once (`Placed`). An access
is a series of caches, one per level that is filled (`AccessRun`); within a fill the victims
cascade through the levels (`Cascade`), and what level 1 gives up for the first victim is not
that victim: `VictimsAreKept`. For `AlwaysCyclic` the ways of a policy
have an age, the number of misses until they are given up; a miss lowers every age by one and
gives the way it takes the highest, so that the ways that as many misses take are all different
(`Cyclic`), from every state. `LevelsConsistent` needs that no cascade gives up the line that
was accessed: a victim is the oldest line of its set, and the line becomes older by one
fill per level below (`Young`, `YoungStep`); `Grown` is what keeps the last of these
from reaching it. In a FIFO or LRU set the ways, in the order of the policy object, hold the
lines of a list and then nothing (`Stack`, `Listed`); a hit or a miss moves a line to the front
from the place it vacates (`Moved`, `ListHit`, `ListMiss`), and `recent` is moved alike, hence
`RecentRetained` and `FilledBeforeEviction`. For the refinement that list is the recency of a
set in `LruCache` (`RecencyIs`), and the proof is that an access hits or fills the level that
the client sees exactly once and does nothing else to it (`Touched`): level 0, or level 1 when
level 0 is empty, as `armv8_bypass_adapter` leaves it, so that no victim comes from below. For
`AccessesReachNextLevel` the front of that list in level 0 is the part of the eviction set that
has been accessed, backwards (`Driven`, `Midway`); after the pass it is the whole list, the line
is not in it, and the next access gets to level 1 (`PassEnds`), where at most the line that
level 0 gave up comes after it (`LateAccess`).

The assumptions are `ShapeAssumption` (levels and regions are well formed, regions do not
overlap), `PowersAssumption` as above, and `AdapterAssumption` (an adapter has two levels at
least under it).

TLC has checked `LifeInv`, `RegionInv`, `ReduceInv`, `PmcInv` and `SearchInv` on the constants
of the runs `device`, `reduce`, `pmc` and `placement`.

Only model-checked, and why:

* liveness (`ConstructorEnds`, `Identified`, `SearchEnds` and the others): fairness is out of
  the prover's reach.
* `TruthSurvives` for SRRIP is not true, see the conditions above; for the hybrid policies
  it is checked nowhere.
* `Distinguishable`: it is about the constants and not about steps. With short sequences
  it is false.
* The properties of `SimulatedMemory` and `BypassAdapter` outside the hypotheses above: under
  SRRIP, NRU and the policies that wrap an LRU list or a tree, `RetainsRecent` for tree-PLRU,
  hierarchies with an inclusive or an exclusive level (the code builds none, and a back
  invalidation leaves holes in the lists), and `ReachesNextLevel` above a level 0 that is not LRU. For a
  `bypass_adapter` that offers nothing `EvsetsReserved` is false, and the code has no check.
* `Recovers`, `CanBegin` and the rest of `PlacementReversal`: determinants are recursive
  operators and the index functions use `Bitwise`, about which nothing can be proved here.


## 5. Not modelled

Decoding of cache information (`ch_cache_info.h`, `index_bits`: arithmetic on register
contents without state); faulting user pointers in the ioctls; loading and unloading
the module, which the agent does not hold a reference to; `minimize_eviction_set`,
which cannot be instantiated; the A64FX index function of `affine_test` and the
formatting of index functions; statistics; argument parsing, logging and type erasure;
`client.cpp`; the tests.

## 6. Plan

Done, in this order: the channel protocol with its abstract specification and
proofs; the device; the reduction of eviction sets; the replacement policies, the
simulated memory and the adapters above it; the commands for replacement and
placement with the search for eviction sets; the constructor of `kernel_memory` and the
performance counters.

The device, the reduction, the performance counters, the search, the constructor, the
elimination of policies for FIFO, LRU and tree-PLRU caches, and the simulated memory with its
adapters are proved as well. Left: `RetainsRecent` and `ReachesNextLevel` for tree-PLRU,
hierarchies with inclusive levels, and the policies that wrap others.
