-------------------------- MODULE ChannelInvariant --------------------------
(***************************************************************************)
(* The inductive invariant of ChannelProtocol for clients that do not wrap *)
(* around the page of channels between two instrumented accesses.          *)
(***************************************************************************)
EXTENDS ChannelProtocol

\* The client's side of the contract.  The command line tool switches in every
\* tenth turn of its search for eviction sets, and a turn performs instrumented
\* accesses unless its target has been seen before.
ASSUME ClientAssumption == MaxSwitchRun < ChannelCount

\* The channel in use after k switches.
ChannelAfter(k) == (k * Stride) % ChannelCount

FlushPCs  == {"flush_wait", "flush_copy", "flush_set"}
\* User space has seen its channel idle and acts on it.
OwnerPCs  == {"flush_copy", "flush_set", "switch_data", "switch_set",
              "wbinvd_set", "instr_read"}
InCall(pc) == upc = pc \/ (upc \in FlushPCs /\ ret = pc)

IsBatch(word) == \E n \in 1..BufferSize : word = AccessWord(n)

\* How many operations the word asks for.
Requested(word) == IF word = AccessWord(WbinvdRequest) THEN 1 ELSE Request(word)

\* Operations handed to the agent and not yet performed: how many, and in
\* which data word the first of them is.
InFlight == CASE apc = "loop"                 -> acount
              [] apc \in {"counters", "idle"} -> 0
              [] OTHER                        -> Requested(control[active_channel_])
FirstSlot == IF apc = "loop" THEN apos ELSE 0

\* wbinvd() has been called and its request has not been stored yet.
WbinvdCall == IF InCall("wbinvd_wait") \/ upc = "wbinvd_set" THEN 1 ELSE 0

WordOf(op) == OpWord(op.kind, op.id)
Flushed    == Len(executed) + InFlight

\* Both sides walk the same sequence of channels, the agent behind.
PositionInv ==
    /\ achan = ChannelAfter(asw) /\ active_channel = ChannelAfter(asw)
    /\ active_channel_ = ChannelAfter(usw)
    /\ asw <= usw /\ usw <= asw + unsynced /\ unsynced <= MaxSwitchRun
    /\ (InCall("switch_wait") \/ upc \in {"switch_data", "switch_set"})
          => unsynced < MaxSwitchRun

\* Between the agent and user space lie switch requests and nothing else.
ChainInv ==
    /\ \A k \in asw..(usw - 1) :
          data[ChannelAfter(k)][0] = ChannelNumber(ChannelAfter(k + 1))
    /\ \A k \in asw..(usw - 1) :
          (k # asw \/ apc \in {"retry", "switch_idle"})
             => control[ChannelAfter(k)] = AccessWord(SwitchRequest)
    /\ \A c \in Channel :
          (\A k \in asw..usw : c # ChannelAfter(k)) => control[c] \in {IDLE, ACCESS}
    /\ asw < usw => apc \in {"retry", "switch_idle", "switch_read", "switch_store"}

\* Where the agent is tells what its channel holds.
AgentInv ==
    /\ apc # "wild"
    /\ apc \in {"loop", "counters", "idle", "wbinvd", "exit", "returned"} => usw = asw
    /\ apc \in {"switch_idle", "switch_read", "switch_store"} => asw < usw
    /\ apc = "loop" => /\ acount >= 1 /\ apos + acount <= BufferSize
                       /\ control[achan] = AccessWord(apos + acount)
    /\ apc = "counters" => IsBatch(control[achan])
    /\ apc = "idle" => \/ IsBatch(control[achan])
                       \/ control[achan] = AccessWord(WbinvdRequest)
    /\ apc = "wbinvd" => control[achan] = AccessWord(WbinvdRequest)
    /\ apc \in {"switch_read", "switch_store"} => control[achan] \in {IDLE, ACCESS}
    /\ apc \in {"exit", "returned"} => control[achan] = ACCESS
    /\ apc = "switch_store" => areg = ChannelNumber(ChannelAfter(asw + 1))

\* What user space may find in its own channel, and when it may act on it.
UserInv ==
    /\ \/ control[active_channel_] \in {IDLE, ACCESS}
       \/ IsBatch(control[active_channel_])
       \/ Arch = "x86" /\ control[active_channel_] = AccessWord(WbinvdRequest)
    /\ upc \in OwnerPCs => control[active_channel_] = IDLE
    /\ upc \in FlushPCs => buffer_ # << >>
    /\ upc \notin (FlushPCs \cup {"ready", "switch_await", "dead"}) => buffer_ = << >>
    /\ upc = "switch_await" => buffer_ = << >>
    /\ upc = "ready" => Len(buffer_) < BufferSize
    /\ upc = "flush_set" =>
          \A i \in 1..Len(buffer_) : data[active_channel_][i - 1] = buffer_[i]
    /\ upc = "switch_set" =>
          data[active_channel_][0] = ChannelNumber(NextChannel(active_channel_))
    /\ WbinvdCall = 1 => Arch = "x86"

\* device_release starts when user space is gone, and only it writes ACCESS
\* without a request.
ReleaseInv ==
    /\ (upc = "dead") <=> (rpc # "none")
    /\ \A c \in Channel : control[c] = ACCESS => rpc = "done" /\ rchan = c

\* Operations carry the number of their call; wbinvd carries nothing.
NumberInv ==
    \A n \in 1..Len(issued) : issued[n].id = IF issued[n].kind = "wbinvd" THEN 0 ELSE n

\* Every issued operation is performed, in flight, buffered or a wbinvd() that
\* waits for its channel, in this order; a killed client may drop the latter.
CountInv ==
    /\ Flushed + Len(buffer_) + WbinvdCall <= Len(issued)
    /\ upc # "dead" => Len(issued) = Flushed + Len(buffer_) + WbinvdCall
    /\ WbinvdCall = 1 => issued[Len(issued)].kind = "wbinvd"

BufferInv ==
    \A i \in 1..Len(buffer_) : /\ issued[Flushed + i].kind \in OpKinds
                               /\ buffer_[i] = WordOf(issued[Flushed + i])

BatchInv ==
    IF control[active_channel_] = AccessWord(WbinvdRequest)
    THEN InFlight = 1 => issued[Len(executed) + 1].kind = "wbinvd"
    ELSE \A i \in 1..InFlight :
            /\ issued[Len(executed) + i].kind \in OpKinds
            /\ data[active_channel_][FirstSlot + i - 1] = WordOf(issued[Len(executed) + i])

\* The counters in the channel are those of the last operation.
LastSampled ==
    \A i \in CounterSlots :
        data[active_channel_][i] = Counter(i, executed[Len(executed)].id)

\* The agent's registers after the last operation of a batch.
CounterInv ==
    /\ apc \in {"counters", "idle"} => Len(executed) > 0
    /\ apc = "counters" => areg.val = executed[Len(executed)].id
    /\ (apc = "idle" /\ IsBatch(control[achan])
           /\ WritesCounters(executed[Len(executed)].kind)) => LastSampled
    /\ (apc = "idle" /\ control[achan] = AccessWord(WbinvdRequest))
           => executed[Len(executed)].kind = "wbinvd"

\* An instrumented access waits for the last operation of its batch.
SyncInv ==
    /\ InSync => /\ Len(issued) > 0
                 /\ issued[Len(issued)] = [kind |-> "access", id |-> Len(issued)]
    /\ (upc = "instr_wait" /\ control[active_channel_] = IDLE) \/ upc = "instr_read"
           => usw = asw /\ executed = issued /\ LastSampled

\* The inductive invariant: the operations of kernel_memory, the agent and
\* device_release keep the shared page, the buffer and the agent's registers
\* consistent with what was issued and what was executed.
IndInv == /\ TypeOK /\ PositionInv /\ ChainInv /\ AgentInv /\ UserInv /\ ReleaseInv
          /\ NumberInv /\ InOrder /\ CountInv /\ BufferInv /\ BatchInv
          /\ CounterInv /\ SyncInv /\ ResultIsOwn
=============================================================================
