--------------------------- MODULE ChannelProtocol ---------------------------
(***************************************************************************)
(* A kernel_memory object in user space, the kernel agent and              *)
(* device_release, which share one page of ch_channels.  The model starts  *)
(* when START_AGENT and mmap have succeeded and ends when the agent has    *)
(* returned from its loop.                                                 *)
(*                                                                         *)
(* Each thread is a program counter and its registers; an action is one    *)
(* access of the thread to shared memory together with the local work      *)
(* around it.  Operations are numbered by the client: number n is the n-th *)
(* operation issued, which is more than an address tells apart.            *)
(***************************************************************************)
EXTENDS ChannelWord, Sequences

CONSTANTS ChannelCount,   \* PAGE_SIZE / sizeof(ch_channel): 64
          Stride,         \* switch_channel() moves by 5
          BufferSize,     \* buffer_.size(): 7
          MaxSwitchRun,   \* client: switches between two instrumented accesses
          MaxOps,         \* bound on the operations a client issues
          MaxSwitches     \* bound on the channel switches of a client

ASSUME ChannelAssumption == /\ ChannelCount \in Nat \ {0}
                            /\ Stride \in Nat
                            /\ \A k \in 1..(ChannelCount - 1) :
                                  (k * Stride) % ChannelCount # 0

\* The request field for a batch must stay below SwitchRequest.
ASSUME BufferAssumption == BufferSize \in 1..7

ASSUME BoundAssumption == /\ MaxSwitchRun \in Nat
                          /\ MaxOps \in Nat
                          /\ MaxSwitches \in Nat

Channel == 0..(ChannelCount - 1)
Slots   == 0..6

VARIABLES control, data,      \* the shared page, per channel
          active_channel,     \* ch_state.active_channel, written by the agent
          upc, ret,           \* user thread: program counter, return address of flush()
          active_channel_, buffer_, result,
          unsynced,           \* switches since the last instrumented access
          apc, achan, acount, apos, areg,   \* the agent and its registers
          rpc, rchan,         \* the thread that runs device_release
          issued, executed,   \* history: operations issued and executed
          usw, asw            \* history: switches requested and completed

page    == <<control, data>>
user    == <<upc, ret, active_channel_, buffer_, result, unsynced>>
agent   == <<active_channel, apc, achan, acount, apos, areg>>
release == <<rpc, rchan>>
history == <<issued, executed, usw, asw>>
vars    == <<page, user, agent, release, history>>

UserPCs == {"ready", "flush_wait", "flush_copy", "flush_set", "instr_wait",
            "instr_read", "switch_wait", "switch_data", "switch_set",
            "switch_await", "wbinvd_wait", "wbinvd_set", "munmap", "dead"}
ReturnPCs == {"ready", "instr_wait", "switch_wait", "wbinvd_wait", "munmap"}
AgentPCs == {"retry", "wbinvd", "idle", "switch_idle", "switch_read",
             "switch_store", "loop", "counters", "exit", "wild", "returned"}
ReleasePCs == {"none", "read", "terminate", "done"}

Ops == [kind : OpKinds \cup {"wbinvd"}, id : 0..MaxOps]

\* Where the switch after channel c leads: switch_channel() without argument.
NextChannel(c) == (c + Stride) % ChannelCount

\* alloc_ch_state clears the page; kthread and mapping exist.
Init == /\ control = [c \in Channel |-> IDLE]
        /\ data = [c \in Channel |-> [i \in Slots |-> ChannelNumber(0)]]
        /\ active_channel = 0
        /\ upc = "ready" /\ ret = "ready"
        /\ active_channel_ = 0
        /\ buffer_ = << >>
        /\ result = [op |-> 0, sample |-> Sample(0)]
        /\ unsynced = 0
        /\ apc = "retry" /\ achan = 0 /\ acount = 0 /\ apos = 0
        /\ areg = ChannelNumber(0)
        /\ rpc = "none" /\ rchan = 0
        /\ issued = << >> /\ executed = << >>
        /\ usw = 0 /\ asw = 0

-----------------------------------------------------------------------------
(* User space: kernel_memory.                                              *)

\* A call of flush() that continues at pc: it returns at once when nothing
\* is buffered.
CallFlush(buffered, pc) ==
    IF buffered = << >>
    THEN upc' = pc /\ UNCHANGED ret
    ELSE upc' = "flush_wait" /\ ret' = pc

\* Number and remember a new operation; the result is its word.
NewOp == Len(issued) + 1

\* access, clflush, csw, isw, cisw: internal_access flushes a full buffer.
Access(kind) ==
    /\ upc = "ready" /\ NewOp <= MaxOps
    /\ issued' = Append(issued, [kind |-> kind, id |-> NewOp])
    /\ buffer_' = Append(buffer_, OpWord(kind, NewOp))
    /\ IF Len(buffer_) + 1 = BufferSize
       THEN CallFlush(buffer_', "ready")
       ELSE UNCHANGED <<upc, ret>>
    /\ UNCHANGED <<page, active_channel_, result, unsynced, agent, release,
                   executed, usw, asw>>

\* instrumented_access, up to its call of flush().
InstrumentedAccess ==
    /\ upc = "ready" /\ NewOp <= MaxOps
    /\ issued' = Append(issued, [kind |-> "access", id |-> NewOp])
    /\ buffer_' = Append(buffer_, OpWord("access", NewOp))
    /\ CallFlush(buffer_', "instr_wait")
    /\ UNCHANGED <<page, active_channel_, result, unsynced, agent, release,
                   executed, usw, asw>>

Flush ==
    /\ upc = "ready" /\ buffer_ # << >>
    /\ CallFlush(buffer_, "ready")
    /\ UNCHANGED <<page, active_channel_, buffer_, result, unsynced, agent,
                   release, history>>

\* Mutant: wbinvd overtakes the operations that are still buffered.
WbinvdNoFlush ==
    /\ Arch = "x86"
    /\ upc = "ready" /\ NewOp <= MaxOps
    /\ issued' = Append(issued, [kind |-> "wbinvd", id |-> 0])
    /\ upc' = "wbinvd_wait"
    /\ UNCHANGED <<page, ret, active_channel_, buffer_, result, unsynced, agent,
                   release, executed, usw, asw>>

Wbinvd ==
    /\ Arch = "x86"
    /\ upc = "ready" /\ NewOp <= MaxOps
    /\ issued' = Append(issued, [kind |-> "wbinvd", id |-> 0])
    /\ CallFlush(buffer_, "wbinvd_wait")
    /\ UNCHANGED <<page, active_channel_, buffer_, result, unsynced, agent,
                   release, executed, usw, asw>>

SwitchChannel ==
    /\ upc = "ready" /\ usw < MaxSwitches /\ unsynced < MaxSwitchRun
    /\ CallFlush(buffer_, "switch_wait")
    /\ UNCHANGED <<page, active_channel_, buffer_, result, unsynced, agent,
                   release, history>>

\* ~kernel_memory
Destroy ==
    /\ upc = "ready"
    /\ CallFlush(buffer_, "munmap")
    /\ UNCHANGED <<page, active_channel_, buffer_, result, unsynced, agent,
                   release, history>>

\* The spin of ch_channel_wait_for_idle on the active channel.
WaitForIdle(from, to) ==
    /\ upc = from
    /\ IsIdle(control[active_channel_])
    /\ upc' = to
    /\ UNCHANGED <<page, ret, active_channel_, buffer_, result, unsynced,
                   agent, release, history>>

\* Mutants: a wait that does not wait, a switch that stores no channel number.
NoWait(from, to) ==
    /\ upc = from /\ upc' = to
    /\ UNCHANGED <<page, ret, active_channel_, buffer_, result, unsynced,
                   agent, release, history>>
FlushNoWait  == NoWait("flush_wait", "flush_copy")
WbinvdNoWait == NoWait("wbinvd_wait", "wbinvd_set")
SwitchNoData == WaitForIdle("switch_wait", "switch_set")

FlushWait   == WaitForIdle("flush_wait", "flush_copy")
InstrWait   == WaitForIdle("instr_wait", "instr_read")
SwitchWait  == WaitForIdle("switch_wait", "switch_data")
SwitchAwait == WaitForIdle("switch_await", "ready")
WbinvdWait  == WaitForIdle("wbinvd_wait", "wbinvd_set")

\* flush() copies the buffered words over the first words of data[].
FlushCopy ==
    /\ upc = "flush_copy"
    /\ data' = [data EXCEPT ![active_channel_] =
                  [i \in Slots |-> IF i < Len(buffer_) THEN buffer_[i + 1] ELSE @[i]]]
    /\ upc' = "flush_set"
    /\ UNCHANGED <<control, ret, active_channel_, buffer_, result, unsynced,
                   agent, release, history>>

\* Mutant: flush() does not reset buffered_.
FlushSetKeepsBuffer ==
    /\ upc = "flush_set"
    /\ control' = [control EXCEPT ![active_channel_] = AccessWord(Len(buffer_))]
    /\ upc' = ret
    /\ UNCHANGED <<data, ret, active_channel_, buffer_, result, unsynced, agent,
                   release, history>>

FlushSet ==
    /\ upc = "flush_set"
    /\ control' = [control EXCEPT ![active_channel_] = AccessWord(Len(buffer_))]
    /\ buffer_' = << >>
    /\ upc' = ret
    /\ UNCHANGED <<data, ret, active_channel_, result, unsynced, agent, release,
                   history>>

\* instrumented_access reads the six counters back.
InstrRead ==
    /\ upc = "instr_read"
    /\ result' = [op |-> Len(issued),
                  sample |-> [i \in CounterSlots |-> data[active_channel_][i]]]
    /\ unsynced' = 0
    /\ upc' = "ready"
    /\ UNCHANGED <<page, ret, active_channel_, buffer_, agent, release, history>>

SwitchData ==
    /\ upc = "switch_data"
    /\ data' = [data EXCEPT ![active_channel_][0] =
                  ChannelNumber(NextChannel(active_channel_))]
    /\ upc' = "switch_set"
    /\ UNCHANGED <<control, ret, active_channel_, buffer_, result, unsynced,
                   agent, release, history>>

\* Request the switch and move on without waiting for the agent.
SwitchSet ==
    /\ upc = "switch_set"
    /\ control' = [control EXCEPT ![active_channel_] = AccessWord(SwitchRequest)]
    /\ active_channel_' = NextChannel(active_channel_)
    /\ usw' = usw + 1
    /\ unsynced' = unsynced + 1
    /\ upc' = "switch_await"
    /\ UNCHANGED <<data, ret, buffer_, result, agent, release, issued,
                   executed, asw>>

WbinvdSet ==
    /\ upc = "wbinvd_set"
    /\ control' = [control EXCEPT ![active_channel_] = AccessWord(WbinvdRequest)]
    /\ upc' = "ready"
    /\ UNCHANGED <<data, ret, active_channel_, buffer_, result, unsynced,
                   agent, release, history>>

\* munmap drops the last reference to the file: device_release runs.
Munmap ==
    /\ upc = "munmap"
    /\ upc' = "dead" /\ rpc' = "read"
    /\ UNCHANGED <<page, ret, active_channel_, buffer_, result, unsynced,
                   agent, rchan, history>>

\* The process is killed: its mapping goes away wherever it was.
Kill ==
    /\ upc # "dead"
    /\ upc' = "dead" /\ rpc' = "read"
    /\ UNCHANGED <<page, ret, active_channel_, buffer_, result, unsynced,
                   agent, rchan, history>>

UserCall == \/ \E kind \in OpKinds : Access(kind)
            \/ InstrumentedAccess \/ Flush \/ Wbinvd \/ SwitchChannel \/ Destroy

UserStep == \/ FlushWait \/ FlushCopy \/ FlushSet
            \/ InstrWait \/ InstrRead
            \/ SwitchWait \/ SwitchData \/ SwitchSet \/ SwitchAwait
            \/ WbinvdWait \/ WbinvdSet \/ Munmap

-----------------------------------------------------------------------------
(* The kernel agent.                                                       *)

\* .retry: one load of the control word and the branches that depend on it.
Retry ==
    /\ apc = "retry"
    /\ control[achan] # 0
    /\ LET word == control[achan]
       IN /\ apc' = CASE IsExit(word)   -> "exit"
                      [] IsWbinvd(word) -> "wbinvd"
                      [] IsSwitch(word) -> "switch_idle"
                      [] OTHER          -> "loop"
          /\ acount' = Request(word)
          /\ apos' = 0
    /\ UNCHANGED <<page, user, active_channel, achan, areg, release, history>>

AgentWbinvd ==
    /\ apc = "wbinvd"
    /\ executed' = Append(executed, [kind |-> "wbinvd", id |-> 0])
    /\ apc' = "idle"
    /\ UNCHANGED <<page, user, active_channel, achan, acount, apos, areg,
                   release, issued, usw, asw>>

\* .noninstrloop and .instrloop: perform the next operation; the counters
\* around the last one stay in registers.
Perform ==
    /\ apc = "loop"
    /\ LET word == data[achan][apos]
           kind == Decode(word.sel)
       IN /\ executed' = Append(executed, [kind |-> kind, id |-> word.val])
          /\ areg' = word
          /\ apc' = CASE acount > 1                             -> "loop"
                      [] acount = 1 /\ WritesCounters(kind)     -> "counters"
                      [] OTHER                                  -> "idle"
    /\ acount' = acount - 1
    /\ apos' = apos + 1
    /\ UNCHANGED <<page, user, active_channel, achan, release, issued, usw, asw>>

WriteCounters ==
    /\ apc = "counters"
    /\ data' = [data EXCEPT ![achan] =
                  [i \in Slots |-> IF i \in CounterSlots THEN Counter(i, areg.val) ELSE @[i]]]
    /\ apc' = "idle"
    /\ UNCHANGED <<control, user, active_channel, achan, acount, apos, areg,
                   release, history>>

\* Mutant: the end of a batch falls through to the exit.
SetIdleExits ==
    /\ apc = "idle"
    /\ control' = [control EXCEPT ![achan] = IDLE]
    /\ apc' = "exit"
    /\ UNCHANGED <<data, user, active_channel, achan, acount, apos, areg,
                   release, history>>

SetIdle ==
    /\ apc = "idle"
    /\ control' = [control EXCEPT ![achan] = IDLE]
    /\ apc' = "retry"
    /\ UNCHANGED <<data, user, active_channel, achan, acount, apos, areg,
                   release, history>>

\* .handle_switch_channel: idle first, then read data[0], then publish.
SwitchIdle ==
    /\ apc = "switch_idle"
    /\ control' = [control EXCEPT ![achan] = IDLE]
    /\ apc' = "switch_read"
    /\ UNCHANGED <<data, user, active_channel, achan, acount, apos, areg,
                   release, history>>

SwitchRead ==
    /\ apc = "switch_read"
    /\ areg' = data[achan][0]
    /\ apc' = "switch_store"
    /\ UNCHANGED <<page, user, active_channel, achan, acount, apos, release,
                   history>>

\* A word that is no channel number sends the agent outside the page.
SwitchStore ==
    /\ apc = "switch_store"
    /\ IF areg.tag = "chan" /\ areg.val \in Channel
       THEN /\ active_channel' = areg.val /\ achan' = areg.val
            /\ apc' = "retry"
       ELSE /\ apc' = "wild"
            /\ UNCHANGED <<active_channel, achan>>
    /\ asw' = asw + 1
    /\ UNCHANGED <<page, user, acount, apos, areg, release, issued, executed, usw>>

\* Restore the counters, drop the reference and return.
AgentReturn ==
    /\ apc = "exit"
    /\ apc' = "returned"
    /\ UNCHANGED <<page, user, active_channel, achan, acount, apos, areg,
                   release, history>>

AgentStep == \/ Retry \/ AgentWbinvd \/ Perform \/ WriteCounters \/ SetIdle
             \/ SwitchIdle \/ SwitchRead \/ SwitchStore \/ AgentReturn

-----------------------------------------------------------------------------
(* device_release.                                                         *)

ReadActiveChannel ==
    /\ rpc = "read"
    /\ rchan' = active_channel
    /\ rpc' = "terminate"
    /\ UNCHANGED <<page, user, agent, history>>

\* Mutant: one attempt of the compare-and-swap instead of a loop.
TerminateOnce ==
    /\ rpc = "terminate"
    /\ control' = [control EXCEPT ![rchan] = IF @ = IDLE THEN ACCESS ELSE @]
    /\ rpc' = "done"
    /\ UNCHANGED <<data, user, agent, rchan, history>>

\* The compare-and-swap of _ch_channel_terminate that succeeds.
Terminate ==
    /\ rpc = "terminate"
    /\ control[rchan] = IDLE
    /\ control' = [control EXCEPT ![rchan] = ACCESS]
    /\ rpc' = "done"
    /\ UNCHANGED <<data, user, agent, rchan, history>>

ReleaseStep == ReadActiveChannel \/ Terminate

Next == UserCall \/ UserStep \/ Kill \/ AgentStep \/ ReleaseStep

\* Each thread is scheduled again and again; the client need not call anything.
Fairness == WF_vars(UserStep) /\ WF_vars(AgentStep) /\ WF_vars(ReleaseStep)

Spec == Init /\ [][Next]_vars

FairSpec == Spec /\ Fairness
-----------------------------------------------------------------------------
(* Properties.                                                             *)

\* The values the state can have.
TypeOK ==
    /\ control \in [Channel -> {IDLE} \cup {AccessWord(n) : n \in 0..WbinvdRequest}]
    /\ data \in [Channel -> [Slots -> Word]]
    /\ active_channel \in Channel
    /\ upc \in UserPCs /\ ret \in ReturnPCs
    /\ active_channel_ \in Channel
    /\ buffer_ \in Seq(Word) /\ Len(buffer_) <= BufferSize
    /\ result \in [op : Nat, sample : [CounterSlots -> Word]]
    /\ unsynced \in Nat
    /\ apc \in AgentPCs /\ achan \in Channel
    /\ acount \in Nat /\ apos \in Nat /\ areg \in Word
    /\ rpc \in ReleasePCs /\ rchan \in Channel
    /\ issued \in Seq(Ops)
    /\ executed \in Seq(Ops)
    /\ usw \in Nat /\ asw \in Nat

\* The agent performs what the client issued, in the order of the calls, each
\* operation once and as the operation it was issued as, across buffering,
\* batches, wbinvd requests and channel switches.
InOrder ==
    /\ Len(executed) <= Len(issued)
    /\ \A n \in 1..Len(executed) : executed[n] = issued[n]

\* The agent's reads and writes of data[] never overlap with those of user
\* space: while flush() copies, switch_channel() stores the channel number or
\* instrumented_access() reads the counters, the agent has no business in
\* the data words of that channel.
NoDataRace ==
    upc \in {"flush_copy", "flush_set", "switch_data", "switch_set", "instr_read"}
       => ~ /\ achan = active_channel_
            /\ apc \in {"loop", "counters", "switch_read"}

\* The counters instrumented_access() returns were taken around the access it
\* was called for, all six of them and in their places.
ResultIsOwn == result.sample = Sample(result.op)

\* When instrumented_access() reads its counters, the agent has performed
\* everything the client issued before.
SyncComplete == upc = "instr_read" => executed = issued

\* What the agent reads from data[0] for a channel switch is the number of the
\* channel the client switched to.
NoWildChannel ==
    /\ apc # "wild"
    /\ apc = "switch_store" => areg = ChannelNumber(NextChannel(achan))

\* When no switch is outstanding, user space, the agent and device_release
\* agree on which channel is active.
ChannelAgreement ==
    usw = asw => achan = active_channel_ /\ active_channel = active_channel_

InSync == upc \in {"instr_wait", "instr_read"}
             \/ (upc \in {"flush_wait", "flush_copy", "flush_set"} /\ ret = "instr_wait")

\* The buffered, batched and channel-switching implementation implements the
\* memory that executes operations first in, first out.
Fifo == INSTANCE FifoMemory WITH Op <- Ops, sync <- InSync,
                                 result <- result.op, alive <- (upc # "dead")

Refinement == Fifo!Spec

\* instrumented_access() returns unless the process is killed in it.
SyncReturns == InSync ~> upc \in {"ready", "dead"}

\* An operation that has left the buffer is executed, even if the client goes
\* away.
SubmittedExecuted ==
    \A n \in 1..MaxOps :
        (upc = "ready" /\ Len(issued) - Len(buffer_) >= n) ~> Len(executed) >= n

\* Once device_release runs and no channel switch is outstanding, the agent
\* leaves its loop.
ReleaseStopsAgent == (rpc = "read" /\ usw = asw) ~> apc = "returned"

\* The same without the restriction: device_release of a started state ends
\* the agent.
TerminationReachesAgent == rpc = "read" ~> apc = "returned"
=============================================================================
