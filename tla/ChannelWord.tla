----------------------------- MODULE ChannelWord -----------------------------
(***************************************************************************)
(* The words that user space and the kernel agent exchange through a       *)
(* ch_channel: the control word (kernel/ch_channel.h) and the operation    *)
(* words in data[] whose upper two bits select what the agent does with    *)
(* the address (kernel/cachehound.c, kernel_memory.ipp).                   *)
(***************************************************************************)
EXTENDS Naturals

CONSTANT Arch       \* which of the two #if branches is compiled

ASSUME ArchAssumption == Arch \in {"x86", "arm"}

-----------------------------------------------------------------------------
(* The control word: bit 0 is IDLE/ACCESS, the request is in the bits above. *)

IDLE   == 0
ACCESS == 1

\* What _ch_channel_write_control stores for an ACCESS request.
AccessWord(count) == ACCESS + 2 * count

\* What wait_for_idle looks at: bit 0 only.
IsIdle(word) == word % 2 = IDLE

\* The agent's view of the same word: everything above bit 0.
Request(word) == word \div 2

SwitchRequest == 8
WbinvdRequest == 16

\* Mutant: a batch of one operation looks like the request to exit.
IsExitOrOne(word) == Request(word) <= 1

\* The agent's dispatch, in the order in which the assembly tests the request.
IsExit(word)   == Request(word) = 0
IsWbinvd(word) == Arch = "x86" /\ Request(word) \div WbinvdRequest # 0
IsSwitch(word) == /\ ~IsExit(word) /\ ~IsWbinvd(word)
                  /\ (Request(word) \div SwitchRequest) % 2 = 1

-----------------------------------------------------------------------------
(* Operation words.  An address has its upper bits set; every other kind of *)
(* operation clears some of the upper two.                                  *)

OpKinds == IF Arch = "x86" THEN {"access", "clflush"}
                           ELSE {"access", "csw", "isw", "cisw"}

\* clflush clears bit 63 and keeps bit 62; internal_cisw sets bit 63 to
\* !clean and bit 62 to !invalidate.
TopBits(kind) == CASE kind = "access"  -> 3
                   [] kind = "clflush" -> 1
                   [] kind = "csw"     -> 1
                   [] kind = "isw"     -> 2
                   [] kind = "cisw"    -> 0

\* x86 branches on the sign bit, aarch64 on both bits.
Decode(top) == IF Arch = "x86"
               THEN IF top >= 2 THEN "access" ELSE "clflush"
               ELSE CASE top = 3 -> "access"
                      [] top = 2 -> "isw"
                      [] top = 1 -> "csw"
                      [] top = 0 -> "cisw"

\* Mutant: aarch64 jumps over the counters for every operation.
WritesCountersX86Only(kind) == Arch = "x86"

\* aarch64 jumps over the counters for a set/way operation in last position.
WritesCounters(kind) == Arch = "x86" \/ kind = "access"

-----------------------------------------------------------------------------
(* A word of data[].  It is an operation (sel: the upper two bits, val: the *)
(* rest), a channel number (val), or a performance counter (sel: which of   *)
(* the six counter reads, val: the operation it was taken around).          *)

Word == [tag : {"op", "chan", "pmc"}, sel : 0..5, val : Nat]

OpWord(kind, n)  == [tag |-> "op", sel |-> TopBits(kind), val |-> n]
ChannelNumber(c) == [tag |-> "chan", sel |-> 0, val |-> c]
Counter(i, n)    == [tag |-> "pmc", sel |-> i, val |-> n]

CounterSlots == 0..5
Sample(n)    == [i \in CounterSlots |-> Counter(i, n)]
=============================================================================
