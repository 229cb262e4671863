------------------------- MODULE PerformanceCounters -------------------------
(***************************************************************************)
(* How a cache level becomes a number: the agent saves and programs the    *)
(* performance counters of its CPU (ch_pmc.h), reads them before and after *)
(* an instrumented access, and the handler that --pmu selects turns the    *)
(* six values into a level.  Interrupts on that CPU count as well unless   *)
(* the isolation level disables them; preemption is always off, by         *)
(* get_cpu.  The transport of the values is ChannelProtocol's.             *)
(***************************************************************************)
EXTENDS Integers, Sequences, FiniteSets, FiniteSetsExt

CONSTANTS Methods,          \* the values of --pmu on this CPU
          CounterBits,      \* the width of a counter, less than that of a word
          WordBits,         \* the width of std::uint64_t
          MaxInterrupts     \* bound on the interrupts that meet one access

ASSUME PmcAssumption ==
    /\ Methods \subseteq {"intel", "amd-zen2", "rpi5", "a64fx"}
    /\ CounterBits \in Nat /\ WordBits \in Nat
    /\ 2^CounterBits <= 2^WordBits
    /\ MaxInterrupts \in Nat /\ MaxInterrupts + 1 < 2^CounterBits

Counters == 0..3
Read == 0..2            \* the counters the agent reads
Isolation == {"off", "no_preempt", "disable_irq"}
None == "none"
Foreign == "cycles"     \* the event of another user of the counters

VARIABLES method, isolation,
          found,        \* the event selections before the first agent
          sel, enabled, running, count,     \* the registers of the CPU
          pc,
          local_pmc,    \* the agent's copy of the selections
          next,         \* the counter to configure next
          before,       \* the values read before the access
          served,       \* the level that served the access
          interrupts, last

cpu == <<sel, enabled, running, count>>
vars == <<method, isolation, found, cpu, pc, local_pmc, next, before, served, interrupts, last>>

-----------------------------------------------------------------------------
(* What --pmu sets up.                                                     *)

\* pmu_events_
Events(m) == CASE m = "intel"    -> <<"l1_hit", "l2_hit", "l3_hit">>
               [] m = "amd-zen2" -> <<"l1_refill", "l2_hit">>
               [] m = "rpi5"     -> <<"l1_refill", "l2_refill", "l3_refill">>
               [] m = "a64fx"    -> <<"l1_refill", "l2_refill">>
IsArm == method \in {"rpi5", "a64fx"}

\* Mutant: a counter that wrapped around is taken as not having moved.
DeltasForward(b, a) == [i \in Read |-> IF a[i] > b[i] THEN a[i] - b[i] ELSE 0]
\* The unsigned subtractions of the handlers.
Deltas(b, a) == [i \in Read |-> (a[i] - b[i]) % 2^WordBits]

\* A hit event tells the first level that was hit, a refill event the last that missed.
pmu_handler(d) ==
    CASE method = "intel"    -> Min({l \in Read : d[l] # 0} \cup {3})
      [] method = "amd-zen2" -> IF d[0] = 0 THEN 0 ELSE IF d[1] # 0 THEN 1 ELSE 2
      [] method = "rpi5"     -> Max({l \in 1..3 : d[l - 1] # 0} \cup {0})
      [] method = "a64fx"    -> Max({l \in 1..2 : d[l - 1] # 0} \cup {0})

\* The levels that can serve an access; the last one is memory.
Serving == 0..(IF method = "a64fx" THEN 2 ELSE 3)
\* What happens in the hardware during an access that a level serves.
Happens(level) ==
    {Foreign} \cup {<<"l1_hit", "l2_hit", "l3_hit", None>>[level + 1]}
              \cup {<<"l1_refill", "l2_refill", "l3_refill">>[i] : i \in 1..level}

\* The erratum of the A64FX: next to a prefetch this event counts more than occurs.
Overcounted == IF method = "a64fx" THEN {"l2_refill"} ELSE {}

\* The counters after an access in which some events were also counted although they
\* did not happen: they wrap around at their own width.
Counted(level, also) ==
    [i \in Counters |->
        IF running /\ i \in enabled /\ sel[i] # None /\ sel[i] \in Happens(level) \cup also
        THEN (count[i] + 1) % 2^CounterBits ELSE count[i]]

-----------------------------------------------------------------------------
NoAccess == [served |-> 0, answer |-> 0, interrupted |-> FALSE]
Unread == [i \in Read |-> 0]

\* On x86 the selection enables the counter; on ARM a counter that was selected
\* need not have been enabled.
Init ==
    /\ method \in Methods /\ isolation \in Isolation
    /\ found \in {[i \in Counters |-> None], [i \in Counters |-> Foreign],
                  [i \in Counters |-> IF i < 2 THEN None ELSE Foreign]}
    /\ sel = found
    /\ IF IsArm THEN enabled \in {{}, {2, 3}} /\ running \in BOOLEAN
       ELSE enabled = Counters /\ running = TRUE
    /\ count = [i \in Counters |-> 0]
    /\ pc = "idle" /\ local_pmc = found /\ next = 0
    /\ before = Unread /\ served = 0 /\ interrupts = 0 /\ last = NoAccess

\* Only the x86 code clears what it saves.
ch_local_pmc_save ==
    /\ local_pmc' = sel
    /\ sel' = IF IsArm THEN sel ELSE [i \in Counters |-> None]

\* The agent starts.
Save ==
    /\ pc = "idle"
    /\ ch_local_pmc_save
    /\ next' = 0 /\ pc' = "configure"
    /\ UNCHANGED <<method, isolation, found, enabled, running, count, before, served, interrupts, last>>

ch_local_pmc_configure(reg, evt) ==
    /\ sel' = [sel EXCEPT ![reg] = evt]
    /\ IF IsArm THEN enabled' = enabled \cup {reg} /\ running' = TRUE
       ELSE UNCHANGED <<enabled, running>>

\* The loop over evts ends at the first event that is zero.
Configure ==
    /\ pc = "configure"
    /\ IF next < Len(Events(method))
       THEN /\ ch_local_pmc_configure(next, Events(method)[next + 1])
            /\ next' = next + 1 /\ pc' = pc
       ELSE pc' = "ready" /\ UNCHANGED <<sel, enabled, running, next>>
    /\ UNCHANGED <<method, isolation, found, count, local_pmc, before, served, interrupts, last>>

\* An access that is not instrumented.
PlainAccess(level, also) ==
    /\ pc = "ready"
    /\ count' = Counted(level, also)
    /\ UNCHANGED <<method, isolation, found, sel, enabled, running, pc, local_pmc, next, before,
                   served, interrupts, last>>

ReadBefore ==
    /\ pc = "ready"
    /\ before' = [i \in Read |-> count[i]]
    /\ pc' = "access" /\ interrupts' = 0
    /\ UNCHANGED <<method, isolation, found, cpu, local_pmc, next, served, last>>

InstrumentedAccess(level, also) ==
    /\ pc = "access"
    /\ count' = Counted(level, also) /\ served' = level
    /\ pc' = "after"
    /\ UNCHANGED <<method, isolation, found, sel, enabled, running, local_pmc, next, before,
                   interrupts, last>>

\* The second reading, and what instrumented_access returns for the two.
ReadAfter ==
    /\ pc = "after"
    /\ last' = [served |-> served,
                answer |-> pmu_handler(Deltas(before, [i \in Read |-> count[i]])),
                interrupted |-> interrupts > 0]
    /\ pc' = "ready" /\ before' = Unread /\ served' = 0 /\ interrupts' = 0
    /\ UNCHANGED <<method, isolation, found, cpu, local_pmc, next>>

\* An access of an interrupt handler between the two readings.
Interrupt(level, also) ==
    /\ pc \in {"access", "after"} /\ isolation # "disable_irq"
    /\ interrupts < MaxInterrupts
    /\ count' = Counted(level, also) /\ interrupts' = interrupts + 1
    /\ UNCHANGED <<method, isolation, found, sel, enabled, running, pc, local_pmc, next, before,
                   served, last>>

\* Mutant: the first counter is forgotten.
ch_local_pmc_restoreOthers == sel' = [local_pmc EXCEPT ![0] = sel[0]]
ch_local_pmc_restore == sel' = local_pmc

\* The agent leaves its loop.
Restore ==
    /\ pc = "ready"
    /\ ch_local_pmc_restore
    /\ pc' = "idle" /\ last' = NoAccess
    /\ UNCHANGED <<method, isolation, found, enabled, running, count, local_pmc, next, before,
                   served, interrupts>>

Next ==
    \/ Save \/ Configure \/ ReadBefore \/ ReadAfter \/ Restore
    \/ \E level \in Serving, also \in SUBSET Overcounted :
          PlainAccess(level, also) \/ InstrumentedAccess(level, also) \/ Interrupt(level, also)

Spec == Init /\ [][Next]_vars

-----------------------------------------------------------------------------
(* Properties.                                                             *)

\* An access that no interrupt met is told right, at every value of the counters
\* (also where one wraps around between the readings), up to the depth the events
\* of the method can see; only an a64fx answer of "memory" may be an overcount.  An
\* interrupt moves the answer one way only: hit events make an access look faster,
\* refill events slower, so that an intel answer of "memory" and an answer of 0 by
\* the other handlers hold even without isolation.
LevelTold ==
    /\ ~last.interrupted =>
          \/ last.answer = Min({last.served, IF method = "amd-zen2" THEN 2 ELSE 3})
          \/ method = "a64fx" /\ last.answer = 2
    /\ method = "intel" => last.answer <= last.served
    /\ method \in {"rpi5", "a64fx"} => last.answer >= last.served
    /\ method = "amd-zen2" => (last.answer = 0 => last.served = 0)

\* Agents leave the selections of the other user of the counters as they found them.
Restored == pc = "idle" => sel = found
=============================================================================
