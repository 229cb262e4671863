---------------------------- MODULE ChannelProofs ----------------------------
(***************************************************************************)
(* The theorems about ChannelProtocol: IndInv is an invariant, the safety  *)
(* properties follow from it, and the specification implements FifoMemory. *)
(*                                                                         *)
(* First what the proofs rest on: arithmetic of the channel sequence, the  *)
(* encodings of ChannelWord and the consequences of IndInv that several    *)
(* actions need; then one lemma per action; then the theorems.             *)
(***************************************************************************)
EXTENDS ChannelInvariant, TLAPS

-----------------------------------------------------------------------------
(* The channels as positions modulo ChannelCount.                          *)

\* Quotient and remainder.
LEMMA Division ==
    ASSUME NEW a \in Nat, NEW n \in Nat \ {0}
    PROVE  /\ a % n \in 0..(n - 1)
           /\ a \div n \in Nat
           /\ a = n * (a \div n) + (a % n)
  OBVIOUS

\* A number below n plus a multiple of n has that number as its remainder.
LEMMA Remainder ==
    ASSUME NEW q \in Nat, NEW n \in Nat \ {0}, NEW r \in 0..(n - 1)
    PROVE  (n * q + r) % n = r
  OBVIOUS

\* Adding to the remainder is adding to the number.
LEMMA RemainderPlus ==
    ASSUME NEW a \in Nat, NEW b \in Nat, NEW n \in Nat \ {0}
    PROVE  ((a % n) + b) % n = (a + b) % n
  <1> DEFINE q == a \div n
             r == a % n
             p == (r + b) \div n
             t == (r + b) % n
  <1>1. r \in 0..(n - 1) /\ q \in Nat /\ a = n * q + r
    BY Division
  <1>2. t \in 0..(n - 1) /\ p \in Nat /\ r + b = n * p + t
    <2>1. r + b \in Nat
      BY <1>1
    <2> HIDE DEF r
    <2>2. QED
      BY <2>1, Division
  <1>3. a + b = n * (q + p) + t /\ q + p \in Nat
    BY <1>1, <1>2
  <1>4. QED
    BY <1>2, <1>3, Remainder

\* Numbers with the same remainder differ by a multiple of n.
LEMMA SameRemainder ==
    ASSUME NEW a \in Nat, NEW d \in Nat, NEW n \in Nat \ {0},
           a % n = (a + d) % n
    PROVE  d % n = 0
  <1> DEFINE q == a \div n
             r == a % n
             p == d \div n
             t == d % n
  <1>1. r \in 0..(n - 1) /\ q \in Nat /\ a = n * q + r
    BY Division
  <1>2. t \in 0..(n - 1) /\ p \in Nat /\ d = n * p + t
    BY Division
  <1>3. a + d = n * (q + p) + (r + t)
    BY <1>1, <1>2
  <1>4. CASE r + t < n
    <2>1. (a + d) % n = r + t
      <3>1. r + t \in 0..(n - 1) /\ q + p \in Nat
        BY <1>1, <1>2, <1>4
      <3> HIDE DEF q, r, p, t
      <3>2. QED
        BY <1>3, <3>1, Remainder
    <2>2. QED
      BY <1>1, <1>2, <2>1
  <1>5. CASE r + t >= n
    <2>1. a + d = n * (q + p + 1) + (r + t - n) /\ q + p + 1 \in Nat
      <3> HIDE DEF q, r, p, t
      <3>1. n * (q + p + 1) = n * (q + p) + n
        BY <1>1, <1>2
      <3>2. n * (q + p) \in Nat
        BY <1>1, <1>2
      <3>3. QED
        BY <1>1, <1>2, <1>3, <3>1, <3>2
    <2>2. r + t - n \in 0..(n - 1)
      BY <1>1, <1>2, <1>5
    <2>3. (a + d) % n = r + t - n
      BY <2>1, <2>2, Remainder
    <2>4. QED
      BY <1>1, <1>2, <2>3
  <1>6. QED
    BY <1>1, <1>2, <1>4, <1>5

\* Every position is a channel.
LEMMA ChannelAfterType ==
    ASSUME NEW k \in Nat
    PROVE  ChannelAfter(k) \in Channel
  <1>1. k * Stride \in Nat
    BY ChannelAssumption
  <1>2. QED
    BY <1>1, Division, ChannelAssumption DEF ChannelAfter, Channel

\* Switching once more leads to the next position.
LEMMA ChannelAfterNext ==
    ASSUME NEW k \in Nat
    PROVE  NextChannel(ChannelAfter(k)) = ChannelAfter(k + 1)
  <1>1. k * Stride \in Nat /\ (k + 1) * Stride = k * Stride + Stride
    BY ChannelAssumption
  <1>2. QED
    BY <1>1, RemainderPlus, ChannelAssumption DEF ChannelAfter, NextChannel

\* Fewer than ChannelCount switches do not lead back.
LEMMA ChannelAfterDistinct ==
    ASSUME NEW i \in Nat, NEW j \in Nat, i < j, j < i + ChannelCount
    PROVE  ChannelAfter(i) # ChannelAfter(j)
  <1> DEFINE d == j - i
  <1>1. d \in 1..(ChannelCount - 1) /\ j = i + d
    BY ChannelAssumption
  <1>2. i * Stride \in Nat /\ d * Stride \in Nat
    BY <1>1, ChannelAssumption
  <1>3. j * Stride = i * Stride + d * Stride
    BY <1>1, ChannelAssumption
  <1>4. (d * Stride) % ChannelCount # 0
    BY <1>1, ChannelAssumption
  <1> HIDE DEF d
  <1> DEFINE a == i * Stride
             e == d * Stride
  <1>5. a % ChannelCount # (a + e) % ChannelCount
    <2> HIDE DEF a, e
    <2>1. a \in Nat /\ e \in Nat /\ e % ChannelCount # 0
      BY <1>2, <1>4 DEF a, e
    <2>2. QED
      BY <2>1, SameRemainder, ChannelAssumption
  <1>6. QED
    BY <1>3, <1>5 DEF ChannelAfter

-----------------------------------------------------------------------------
(* The words of a channel.                                                 *)

\* The requests user space stores are told apart by the agent's tests.
LEMMA RequestWords ==
    /\ IsIdle(IDLE) /\ ~IsIdle(ACCESS) /\ IDLE # ACCESS /\ ACCESS = AccessWord(0)
    /\ \A n \in Nat : /\ AccessWord(n) # IDLE /\ ~IsIdle(AccessWord(n))
                      /\ Request(AccessWord(n)) = n
                      /\ \A m \in Nat : AccessWord(n) = AccessWord(m) => n = m
    /\ IsExit(ACCESS) /\ ~IsWbinvd(ACCESS) /\ ~IsSwitch(ACCESS)
    /\ \A n \in 1..7 : /\ ~IsExit(AccessWord(n)) /\ ~IsWbinvd(AccessWord(n))
                       /\ ~IsSwitch(AccessWord(n))
    /\ IsSwitch(AccessWord(SwitchRequest))
    /\ ~IsExit(AccessWord(SwitchRequest)) /\ ~IsWbinvd(AccessWord(SwitchRequest))
    /\ ~IsExit(AccessWord(WbinvdRequest))
    /\ ~IsSwitch(AccessWord(WbinvdRequest)) \/ Arch # "x86"
    /\ Arch = "x86" => IsWbinvd(AccessWord(WbinvdRequest))
  BY DEF IsIdle, IDLE, ACCESS, AccessWord, Request, IsExit, IsWbinvd, IsSwitch,
         SwitchRequest, WbinvdRequest

\* The agent does with a word what user space encoded in it.
LEMMA Decoding ==
    ASSUME NEW kind \in OpKinds, NEW n \in Nat
    PROVE  /\ OpWord(kind, n) \in Word
           /\ Decode(OpWord(kind, n).sel) = kind
           /\ OpWord(kind, n).val = n
           /\ "access" \in OpKinds /\ WritesCounters("access")
           /\ "wbinvd" \notin OpKinds
  BY ArchAssumption DEF OpKinds, OpWord, TopBits, Decode, Word, WritesCounters

-----------------------------------------------------------------------------
(* Consequences of the invariant.                                          *)

\* The switches that are outstanding lie in different channels.
LEMMA ChainDistinct ==
    ASSUME TypeOK, PositionInv
    PROVE  /\ \A i, j \in asw..usw : i # j => ChannelAfter(i) # ChannelAfter(j)
           /\ \A i \in asw..usw : ChannelAfter(i) \in Channel
  <1>1. asw \in Nat /\ usw \in Nat /\ unsynced \in Nat
    BY DEF TypeOK
  <1>2. \A i \in asw..usw : i \in Nat
    BY <1>1
  <1>3. ASSUME NEW i \in asw..usw, NEW j \in asw..usw, i < j
        PROVE  ChannelAfter(i) # ChannelAfter(j)
    BY <1>1, <1>2, <1>3, ChannelAfterDistinct, ClientAssumption, ChannelAssumption,
       BoundAssumption DEF PositionInv
  <1>4. \A i, j \in asw..usw : i # j => ChannelAfter(i) # ChannelAfter(j)
    BY <1>1, <1>3
  <1>5. QED
    BY <1>2, <1>4, ChannelAfterType

\* The sequences of the model have lengths and elements.
LEMMA Lengths ==
    ASSUME TypeOK
    PROVE  /\ Len(buffer_) \in 0..BufferSize /\ Len(buffer_) \in 0..7
           /\ (buffer_ = << >>) <=> (Len(buffer_) = 0)
           /\ Len(issued) \in Nat /\ Len(executed) \in Nat
           /\ \A i \in 1..Len(buffer_) : buffer_[i] \in Word
           /\ \A i \in 1..Len(issued) : issued[i] \in Ops
           /\ \A i \in 1..Len(executed) : executed[i] \in Ops
  <1>1. buffer_ \in Seq(Word) /\ Len(buffer_) <= BufferSize
    BY DEF TypeOK
  <1>2. issued \in Seq(Ops)
    BY DEF TypeOK
  <1>3. executed \in Seq(Ops)
    BY DEF TypeOK
  <1>4. Len(buffer_) \in Nat /\ \A i \in 1..Len(buffer_) : buffer_[i] \in Word
    BY <1>1
  <1>5. (buffer_ = << >>) <=> (Len(buffer_) = 0)
    BY <1>1
  <1>6. Len(buffer_) \in 0..BufferSize /\ Len(buffer_) \in 0..7
    <2>1. Len(buffer_) \in Nat /\ Len(buffer_) <= BufferSize
      BY <1>1, <1>4
    <2> DEFINE len == Len(buffer_)
    <2> HIDE DEF len
    <2>2. len \in Nat /\ len <= BufferSize
      BY <2>1 DEF len
    <2>3. BufferSize \in Nat /\ BufferSize <= 7
      BY BufferAssumption
    <2>4. len \in 0..BufferSize /\ len \in 0..7
      BY <2>2, <2>3
    <2>5. QED
      BY <2>4 DEF len
  <1>7. Len(issued) \in Nat /\ \A i \in 1..Len(issued) :
            issued[i] \in Ops
    BY <1>2
  <1>8. Len(executed) \in Nat /\ \A i \in 1..Len(executed) :
            executed[i] \in Ops
    BY <1>3
  <1>9. QED
    BY <1>4, <1>5, <1>6, <1>7, <1>8

\* A control word is idle or a request.
LEMMA ControlRange ==
    ASSUME TypeOK, NEW c \in Channel
    PROVE  \/ control[c] = IDLE
           \/ \E n \in 0..WbinvdRequest : control[c] = AccessWord(n)
  BY DEF TypeOK

\* The counts of CountInv are numbers.
LEMMA InFlightType ==
    ASSUME IndInv
    PROVE  InFlight \in Nat /\ FirstSlot \in Nat /\ WbinvdCall \in {0, 1}
  <1> USE DEF IndInv
  <1>1. acount \in Nat /\ apos \in Nat /\ active_channel_ \in Channel
    BY DEF TypeOK
  <1>2. Request(control[active_channel_]) \in Nat
    <2>1. CASE control[active_channel_] = IDLE
      BY <2>1 DEF Request, IDLE
    <2>2. CASE control[active_channel_] # IDLE
      <3>1. PICK n \in 0..WbinvdRequest : control[active_channel_] = AccessWord(n)
        BY <1>1, <2>2, ControlRange
      <3>2. QED
        BY <3>1, RequestWords DEF WbinvdRequest
    <2>3. QED
      BY <2>1, <2>2
  <1>3. InFlight \in Nat
    BY <1>1, <1>2 DEF InFlight, Requested
  <1>4. QED
    BY <1>1, <1>3 DEF FirstSlot, WbinvdCall

\* An idle channel of user space: nothing is in flight.
LEMMA IdleChannel ==
    ASSUME IndInv, control[active_channel_] = IDLE
    PROVE  /\ apc \in {"retry", "switch_idle", "switch_read", "switch_store"}
           /\ usw = asw => apc = "retry"
           /\ InFlight = 0 /\ FirstSlot = 0
  <1> USE DEF IndInv
  <1>1. asw \in Nat /\ usw \in Nat /\ asw <= usw /\ apc \in AgentPCs
    BY DEF TypeOK, PositionInv
  <1>2. asw < usw => apc \in {"retry", "switch_idle", "switch_read", "switch_store"}
    BY DEF ChainInv
  <1>3. ASSUME usw = asw PROVE apc = "retry"
    <2>1. achan = active_channel_
      BY <1>3 DEF PositionInv
    <2>2. ~IsBatch(IDLE) /\ IDLE # AccessWord(WbinvdRequest) /\ IDLE # ACCESS
      BY RequestWords, BufferAssumption DEF IsBatch, WbinvdRequest
    <2>3. apc # "loop"
      <3>1. acount \in Nat /\ apos \in Nat
        BY DEF TypeOK
      <3>2. AccessWord(apos + acount) # IDLE
        BY <3>1, RequestWords
      <3>3. QED
        BY <2>1, <3>2 DEF AgentInv
    <2>4. ~(asw < usw)
      BY <1>1, <1>3
    <2>5. apc \notin {"wild", "counters", "idle", "wbinvd", "exit", "returned",
                     "switch_idle", "switch_read", "switch_store"}
      BY <2>1, <2>2, <2>4 DEF AgentInv
    <2>6. QED
      BY <1>1, <2>3, <2>5 DEF AgentPCs
  <1>4. apc \in {"retry", "switch_idle", "switch_read", "switch_store"}
           /\ (usw = asw => apc = "retry")
    BY <1>1, <1>2, <1>3
  <1>5. Requested(IDLE) = 0
    BY RequestWords DEF Requested, Request, IDLE, WbinvdRequest
  <1>6. QED
    BY <1>4, <1>5 DEF InFlight, FirstSlot

\* User space and the agent are in the same channel exactly when no switch is
\* outstanding.
LEMMA SamePlace ==
    ASSUME IndInv
    PROVE  (usw = asw) <=> (achan = active_channel_)
  <1> USE DEF IndInv
  <1>1. asw \in Nat /\ usw \in Nat /\ asw <= usw
    BY DEF TypeOK, PositionInv
  <1>2. usw # asw => achan # active_channel_
    BY <1>1, ChainDistinct DEF PositionInv
  <1>3. QED
    BY <1>1, <1>2 DEF PositionInv

\* The switch requests that lie ahead of the agent are in other channels than
\* the one user space works on.
LEMMA OtherChannels ==
    ASSUME IndInv
    PROVE  /\ achan \in Channel /\ active_channel_ \in Channel
           /\ asw \in Nat /\ usw \in Nat /\ asw <= usw
           /\ active_channel_ = ChannelAfter(usw) /\ achan = ChannelAfter(asw)
           /\ \A k \in asw..(usw - 1) : /\ ChannelAfter(k) \in Channel
                                        /\ ChannelAfter(k) # active_channel_
  <1> USE DEF IndInv
  <1>1. asw \in Nat /\ usw \in Nat /\ asw <= usw
    BY DEF TypeOK, PositionInv
  <1>2. \A k \in asw..(usw - 1) : k \in asw..usw /\ k # usw /\ usw \in asw..usw
    BY <1>1
  <1>3. QED
    BY <1>1, <1>2, ChainDistinct DEF PositionInv, TypeOK

\* The three kinds of request are told apart.
LEMMA BatchWord ==
    ASSUME NEW n \in 1..BufferSize
    PROVE  /\ n \in 1..7 /\ n \in 0..WbinvdRequest
           /\ AccessWord(n) \notin {IDLE, ACCESS, AccessWord(SwitchRequest),
                                    AccessWord(WbinvdRequest)}
           /\ Request(AccessWord(n)) = n /\ Requested(AccessWord(n)) = n
           /\ IsBatch(AccessWord(n))
  <1>1. n \in 1..7
    BY BufferAssumption
  <1>2. AccessWord(n) # AccessWord(SwitchRequest)
    BY <1>1 DEF AccessWord, ACCESS, SwitchRequest
  <1>3. AccessWord(n) # AccessWord(WbinvdRequest)
    BY <1>1 DEF AccessWord, ACCESS, WbinvdRequest
  <1>4. AccessWord(n) # IDLE /\ AccessWord(n) # ACCESS
    BY <1>1 DEF AccessWord, ACCESS, IDLE
  <1>5. Request(AccessWord(n)) = n
    BY <1>1, RequestWords
  <1>6. QED
    BY <1>1, <1>2, <1>3, <1>4, <1>5 DEF IsBatch, Requested, WbinvdRequest

LEMMA SpecialWords ==
    /\ AccessWord(SwitchRequest) \notin {IDLE, ACCESS, AccessWord(WbinvdRequest)}
    /\ AccessWord(WbinvdRequest) \notin {IDLE, ACCESS}
    /\ ~IsBatch(IDLE) /\ ~IsBatch(ACCESS)
    /\ ~IsBatch(AccessWord(SwitchRequest)) /\ ~IsBatch(AccessWord(WbinvdRequest))
    /\ Requested(IDLE) = 0 /\ Requested(ACCESS) = 0
    /\ Requested(AccessWord(WbinvdRequest)) = 1
  <1>1. ~IsBatch(IDLE) /\ ~IsBatch(ACCESS)
           /\ ~IsBatch(AccessWord(SwitchRequest)) /\ ~IsBatch(AccessWord(WbinvdRequest))
    BY BatchWord DEF IsBatch
  <1>2. QED
    BY <1>1 DEF AccessWord, ACCESS, IDLE, SwitchRequest, WbinvdRequest, Requested, Request

\* The next operation of the agent is the next one the client issued.
LEMMA NextInFlight ==
    ASSUME IndInv, InFlight > 0
    PROVE  Len(executed) + 1 \in 1..Len(issued)
  <1>1. Len(executed) \in Nat /\ Len(issued) \in Nat /\ Len(buffer_) \in Nat
    BY Lengths DEF IndInv
  <1>2. InFlight \in Nat /\ WbinvdCall \in Nat
    BY InFlightType
  <1>3. QED
    BY <1>1, <1>2 DEF IndInv, CountInv, Flushed

-----------------------------------------------------------------------------
(* Every action of ChannelProtocol preserves IndInv, one lemma per action: *)
(* the calls of the client.                                                *)

\* access(), clflush() and csw/isw/cisw() append one word to the buffer, which
\* stays behind everything that is in flight.
LEMMA AccessStep ==
    ASSUME IndInv, NEW kind \in OpKinds, Access(kind)
    PROVE  IndInv'
  <1> USE DEF IndInv
  <1> DEFINE op == [kind |-> kind, id |-> NewOp]
  <1>a. /\ Len(issued) \in Nat /\ Len(executed) \in Nat /\ Len(buffer_) \in 0..BufferSize
        /\ InFlight \in Nat /\ WbinvdCall = 0 /\ Flushed \in Nat
    BY Lengths, InFlightType DEF Access, WbinvdCall, InCall, FlushPCs, Flushed
  <1>b. /\ Len(issued') = Len(issued) + 1 /\ issued'[Len(issued) + 1] = op
        /\ \A n \in 1..Len(issued) : issued'[n] = issued[n]
    BY DEF Access, TypeOK, NewOp
  <1>c. InFlight' = InFlight /\ FirstSlot' = FirstSlot /\ Flushed' = Flushed
    BY DEF Access, page, agent, InFlight, FirstSlot, Flushed, Requested
  <1>d. Len(issued) = Flushed + Len(buffer_)
    BY <1>a DEF CountInv, Access, Flushed
  <1>e. executed' = executed /\ data' = data /\ control' = control
          /\ active_channel_' = active_channel_ /\ upc # "dead"
    BY DEF Access, page
  <1>f. /\ Len(buffer_') = Len(buffer_) + 1
        /\ buffer_'[Len(buffer_) + 1] = WordOf(op)
        /\ \A i \in 1..Len(buffer_) : buffer_'[i] = buffer_[i]
    BY DEF Access, TypeOK, WordOf
  <1>g. op.kind = kind /\ op.kind \in OpKinds /\ op.kind # "wbinvd" /\ op.id = Len(issued) + 1
    BY ArchAssumption DEF NewOp, OpKinds
  <1> HIDE DEF op
  <1>1. TypeOK'
    <2>1. NewOp \in Nat /\ NewOp \in 0..MaxOps
      BY Lengths, BoundAssumption DEF NewOp, Access
    <2>2. [kind |-> kind, id |-> NewOp] \in Ops
      BY <1>g, <2>1 DEF Ops, op
    <2>3. issued' \in Seq(Ops)
      BY <2>2 DEF TypeOK, Access
    <2>4. OpWord(kind, NewOp) \in Word
      BY <1>g, <2>1, Decoding
    <2>5. buffer_' \in Seq(Word)
      BY <2>4 DEF TypeOK, Access
    <2>6. Len(buffer_') <= BufferSize
      BY <1>a, <1>f, BufferAssumption DEF Access, UserInv
    <2>7. upc' \in UserPCs /\ ret' \in ReturnPCs
      BY DEF TypeOK, Access, CallFlush, UserPCs, ReturnPCs
    <2>8. QED
      BY <2>3, <2>5, <2>6, <2>7 DEF Access, TypeOK, page, agent, release
  <1>2. PositionInv' /\ ChainInv' /\ AgentInv' /\ ReleaseInv'
    BY DEF Access, CallFlush, NewOp, page, agent, release, PositionInv, InCall,
       FlushPCs, ChainInv, AgentInv, IsBatch, ReleaseInv
  <1>3. UserInv'
    <2>1. buffer_' # << >>
      BY <1>a, <1>f
    <2>2. upc' = "flush_wait" \/ (upc' = "ready" /\ Len(buffer_') < BufferSize)
      BY <1>a, <1>f, <2>1, BufferAssumption DEF Access, CallFlush, UserInv
    <2>3. WbinvdCall' = 0
      BY DEF Access, CallFlush, WbinvdCall, InCall, FlushPCs
    <2>4. QED
      BY <1>e, <2>1, <2>2, <2>3 DEF UserInv, FlushPCs, OwnerPCs, IsBatch
  <1>4. InOrder' /\ ResultIsOwn'
    BY DEF Access, CallFlush, NewOp, page, agent, release, InOrder, ResultIsOwn
  <1>5. NumberInv'
    BY <1>a, <1>b, <1>g DEF NumberInv
  <1>6. CountInv'
    <2>1. WbinvdCall' = 0
      BY DEF Access, CallFlush, WbinvdCall, InCall, FlushPCs
    <2>2. QED
      BY <1>a, <1>b, <1>c, <1>d, <1>f, <2>1 DEF CountInv
  <1>7. BufferInv'
    <2>1. \A i \in 1..Len(buffer_') : i \in 1..Len(buffer_) \/ i = Len(buffer_) + 1
      BY <1>a, <1>f
    <2>2. \A i \in 1..Len(buffer_) : Flushed + i \in 1..Len(issued)
      BY <1>a, <1>d
    <2>3. Flushed + (Len(buffer_) + 1) = Len(issued) + 1
      BY <1>a, <1>d
    <2>4. QED
      BY <1>b, <1>c, <1>f, <1>g, <2>1, <2>2, <2>3 DEF BufferInv, WordOf
  <1>8. BatchInv'
    <2>1. \A i \in 1..InFlight : Len(executed) + i \in 1..Len(issued)
      BY <1>a, <1>d DEF Flushed
    <2>2. InFlight = 1 => Len(executed) + 1 \in 1..Len(issued)
      BY <2>1
    <2>3. QED
      BY <1>b, <1>c, <1>e, <2>1, <2>2 DEF BatchInv, WordOf
  <1>9. CounterInv' /\ SyncInv'
    BY DEF Access, CallFlush, NewOp, page, agent, release, CounterInv,
       LastSampled, IsBatch, SyncInv, InSync
  <1>10. QED
    BY <1>1, <1>2, <1>3, <1>4, <1>5, <1>6, <1>7, <1>8, <1>9

\* instrumented_access() appends its access and leaves with flush() ahead.
LEMMA InstrumentedAccessStep ==
    ASSUME IndInv, InstrumentedAccess
    PROVE  IndInv'
  <1> USE DEF IndInv
  <1> DEFINE op == [kind |-> "access", id |-> NewOp]
  <1>a. /\ Len(issued) \in Nat /\ Len(executed) \in Nat /\ Len(buffer_) \in 0..BufferSize
        /\ InFlight \in Nat /\ WbinvdCall = 0 /\ Flushed \in Nat
    BY Lengths, InFlightType DEF InstrumentedAccess, WbinvdCall, InCall, FlushPCs, Flushed
  <1>b. /\ Len(issued') = Len(issued) + 1 /\ issued'[Len(issued) + 1] = op
        /\ \A n \in 1..Len(issued) : issued'[n] = issued[n]
    BY DEF InstrumentedAccess, TypeOK, NewOp
  <1>c. InFlight' = InFlight /\ FirstSlot' = FirstSlot /\ Flushed' = Flushed
    BY DEF InstrumentedAccess, page, agent, InFlight, FirstSlot, Flushed, Requested
  <1>d. Len(issued) = Flushed + Len(buffer_)
    BY <1>a DEF CountInv, InstrumentedAccess, Flushed
  <1>e. executed' = executed /\ data' = data /\ control' = control
          /\ active_channel_' = active_channel_ /\ upc # "dead"
    BY DEF InstrumentedAccess, page
  <1>f. /\ Len(buffer_') = Len(buffer_) + 1
        /\ buffer_'[Len(buffer_) + 1] = WordOf(op)
        /\ \A i \in 1..Len(buffer_) : buffer_'[i] = buffer_[i]
    BY DEF InstrumentedAccess, TypeOK, WordOf
  <1>g. op.kind = "access" /\ op.kind \in OpKinds /\ op.kind # "wbinvd" /\ op.id = Len(issued) + 1
    BY ArchAssumption DEF NewOp, OpKinds
  <1> HIDE DEF op
  <1>1. TypeOK'
    <2>1. NewOp \in Nat /\ NewOp \in 0..MaxOps
      BY Lengths, BoundAssumption DEF NewOp, InstrumentedAccess
    <2>2. [kind |-> "access", id |-> NewOp] \in Ops
      BY <1>g, <2>1 DEF Ops, op
    <2>3. issued' \in Seq(Ops)
      BY <2>2 DEF TypeOK, InstrumentedAccess
    <2>4. OpWord("access", NewOp) \in Word
      BY <1>g, <2>1, Decoding
    <2>5. buffer_' \in Seq(Word)
      BY <2>4 DEF TypeOK, InstrumentedAccess
    <2>6. Len(buffer_') <= BufferSize
      BY <1>a, <1>f, BufferAssumption DEF InstrumentedAccess, UserInv
    <2>7. upc' \in UserPCs /\ ret' \in ReturnPCs
      BY DEF TypeOK, InstrumentedAccess, CallFlush, UserPCs, ReturnPCs
    <2>8. QED
      BY <2>3, <2>5, <2>6, <2>7 DEF InstrumentedAccess, TypeOK, page, agent, release
  <1>2. PositionInv' /\ ChainInv' /\ AgentInv' /\ UserInv' /\ ReleaseInv'
    BY DEF InstrumentedAccess, CallFlush, NewOp, page, agent, release,
       PositionInv, InCall, FlushPCs, ChainInv, AgentInv, IsBatch, UserInv,
       WbinvdCall, OwnerPCs, ReleaseInv
  <1>3. InOrder' /\ ResultIsOwn'
    BY DEF InstrumentedAccess, CallFlush, NewOp, page, agent, release, InOrder,
       ResultIsOwn
  <1>4. NumberInv'
    BY <1>a, <1>b, <1>g DEF NumberInv
  <1>5. CountInv'
    <2>1. WbinvdCall' = 0
      BY DEF InstrumentedAccess, CallFlush, WbinvdCall, InCall, FlushPCs
    <2>2. QED
      BY <1>a, <1>b, <1>c, <1>d, <1>f, <2>1 DEF CountInv
  <1>6. BufferInv'
    <2>1. \A i \in 1..Len(buffer_') : i \in 1..Len(buffer_) \/ i = Len(buffer_) + 1
      BY <1>a, <1>f
    <2>2. \A i \in 1..Len(buffer_) : Flushed + i \in 1..Len(issued)
      BY <1>a, <1>d
    <2>3. Flushed + (Len(buffer_) + 1) = Len(issued) + 1
      BY <1>a, <1>d
    <2>4. QED
      BY <1>b, <1>c, <1>f, <1>g, <2>1, <2>2, <2>3 DEF BufferInv, WordOf
  <1>7. BatchInv'
    <2>1. \A i \in 1..InFlight : Len(executed) + i \in 1..Len(issued)
      BY <1>a, <1>d DEF Flushed
    <2>2. InFlight = 1 => Len(executed) + 1 \in 1..Len(issued)
      BY <2>1
    <2>3. QED
      BY <1>b, <1>c, <1>e, <2>1, <2>2 DEF BatchInv, WordOf
  <1>8. CounterInv' /\ SyncInv'
    BY DEF InstrumentedAccess, CallFlush, NewOp, page, agent, release,
       CounterInv, LastSampled, IsBatch, SyncInv, InSync
  <1>9. QED
    BY <1>1, <1>2, <1>3, <1>4, <1>5, <1>6, <1>7, <1>8

\* An explicit flush() only starts the wait for the channel.
LEMMA FlushStep ==
    ASSUME IndInv, Flush
    PROVE  IndInv'
  <1> USE DEF IndInv
  <1>1. TypeOK'
    BY DEF Flush, CallFlush, page, agent, release, history, TypeOK, UserPCs,
       ReturnPCs, AgentPCs, ReleasePCs
  <1>2. PositionInv' /\ ChainInv' /\ AgentInv' /\ UserInv' /\ ReleaseInv'
    BY DEF Flush, CallFlush, page, agent, release, history, PositionInv,
       InCall, FlushPCs, ChainInv, AgentInv, IsBatch, UserInv, WbinvdCall,
       OwnerPCs, ReleaseInv
  <1>3. NumberInv' /\ InOrder' /\ ResultIsOwn'
    BY DEF Flush, CallFlush, page, agent, release, history, NumberInv, InOrder,
       ResultIsOwn
  <1>4. CountInv' /\ BufferInv' /\ BatchInv'
    BY DEF Flush, CallFlush, page, agent, release, history, CountInv, Flushed,
       InFlight, Requested, WbinvdCall, InCall, FlushPCs, BufferInv, WordOf,
       BatchInv, FirstSlot
  <1>5. CounterInv' /\ SyncInv'
    BY DEF Flush, CallFlush, page, agent, release, history, CounterInv,
       LastSampled, IsBatch, SyncInv, InSync
  <1>6. QED
    BY <1>1, <1>2, <1>3, <1>4, <1>5

\* wbinvd() becomes the last operation; the buffer is flushed before it.
LEMMA WbinvdStep ==
    ASSUME IndInv, Wbinvd
    PROVE  IndInv'
  <1> USE DEF IndInv
  <1> DEFINE op == [kind |-> "wbinvd", id |-> 0]
  <1>a. /\ Len(issued) \in Nat /\ Len(executed) \in Nat /\ Len(buffer_) \in 0..BufferSize
        /\ InFlight \in Nat /\ WbinvdCall = 0 /\ Flushed \in Nat
    BY Lengths, InFlightType DEF Wbinvd, WbinvdCall, InCall, FlushPCs, Flushed
  <1>b. /\ Len(issued') = Len(issued) + 1 /\ issued'[Len(issued) + 1] = op
        /\ \A n \in 1..Len(issued) : issued'[n] = issued[n]
    BY DEF Wbinvd, TypeOK, NewOp
  <1>c. InFlight' = InFlight /\ FirstSlot' = FirstSlot /\ Flushed' = Flushed
    BY DEF Wbinvd, page, agent, InFlight, FirstSlot, Flushed, Requested
  <1>d. Len(issued) = Flushed + Len(buffer_)
    BY <1>a DEF CountInv, Wbinvd, Flushed
  <1>e. executed' = executed /\ data' = data /\ control' = control
          /\ active_channel_' = active_channel_ /\ upc # "dead"
    BY DEF Wbinvd, page
  <1>f. buffer_' = buffer_ /\ op.kind = "wbinvd" /\ op.id = 0
    BY DEF Wbinvd
  <1> HIDE DEF op
  <1>1. PositionInv' /\ ChainInv' /\ AgentInv' /\ UserInv' /\ ReleaseInv'
          /\ NumberInv' /\ InOrder' /\ ResultIsOwn' /\ CounterInv' /\ SyncInv'
    BY DEF Wbinvd, CallFlush, NewOp, page, agent, release, PositionInv, InCall,
       FlushPCs, ChainInv, AgentInv, IsBatch, UserInv, WbinvdCall, OwnerPCs,
       ReleaseInv, NumberInv, InOrder, ResultIsOwn, CounterInv, LastSampled,
       SyncInv, InSync
  <1>2. TypeOK'
    <2>1. [kind |-> "wbinvd", id |-> 0] \in Ops
      BY BoundAssumption DEF Ops
    <2>2. issued' \in Seq(Ops)
      BY <2>1 DEF TypeOK, Wbinvd
    <2>3. upc' \in UserPCs /\ ret' \in ReturnPCs
      BY DEF TypeOK, Wbinvd, CallFlush, UserPCs, ReturnPCs
    <2>4. QED
      BY <2>2, <2>3 DEF Wbinvd, TypeOK, page, agent, release
  <1>3. CountInv'
    <2>1. WbinvdCall' = 1
      BY DEF Wbinvd, CallFlush, WbinvdCall, InCall, FlushPCs
    <2>2. QED
      BY <1>a, <1>b, <1>c, <1>d, <1>f, <2>1 DEF CountInv
  <1>4. BufferInv'
    <2>1. \A i \in 1..Len(buffer_) : Flushed + i \in 1..Len(issued)
      BY <1>a, <1>d
    <2>2. QED
      BY <1>b, <1>c, <1>f, <2>1 DEF BufferInv, WordOf
  <1>5. BatchInv'
    <2>1. \A i \in 1..InFlight : Len(executed) + i \in 1..Len(issued)
      BY <1>a, <1>d DEF Flushed
    <2>2. InFlight = 1 => Len(executed) + 1 \in 1..Len(issued)
      BY <2>1
    <2>3. QED
      BY <1>b, <1>c, <1>e, <2>1, <2>2 DEF BatchInv, WordOf
  <1>6. QED
    BY <1>1, <1>2, <1>3, <1>4, <1>5

\* switch_channel() starts with a flush and stays inside the client's limit.
LEMMA SwitchChannelStep ==
    ASSUME IndInv, SwitchChannel
    PROVE  IndInv'
  <1> USE DEF IndInv
  <1>1. TypeOK'
    BY DEF SwitchChannel, CallFlush, page, agent, release, history, TypeOK,
       UserPCs, ReturnPCs, AgentPCs, ReleasePCs
  <1>2. PositionInv' /\ ChainInv' /\ AgentInv' /\ UserInv' /\ ReleaseInv'
    BY DEF SwitchChannel, CallFlush, page, agent, release, history,
       PositionInv, InCall, FlushPCs, ChainInv, AgentInv, IsBatch, UserInv,
       WbinvdCall, OwnerPCs, ReleaseInv
  <1>3. NumberInv' /\ InOrder' /\ ResultIsOwn'
    BY DEF SwitchChannel, CallFlush, page, agent, release, history, NumberInv,
       InOrder, ResultIsOwn
  <1>4. CountInv' /\ BufferInv' /\ BatchInv'
    BY DEF SwitchChannel, CallFlush, page, agent, release, history, CountInv,
       Flushed, InFlight, Requested, WbinvdCall, InCall, FlushPCs, BufferInv,
       WordOf, BatchInv, FirstSlot
  <1>5. CounterInv' /\ SyncInv'
    BY DEF SwitchChannel, CallFlush, page, agent, release, history, CounterInv,
       LastSampled, IsBatch, SyncInv, InSync
  <1>6. QED
    BY <1>1, <1>2, <1>3, <1>4, <1>5

\* ~kernel_memory starts with a flush.
LEMMA DestroyStep ==
    ASSUME IndInv, Destroy
    PROVE  IndInv'
  <1> USE DEF IndInv
  <1>1. TypeOK'
    BY DEF Destroy, CallFlush, page, agent, release, history, TypeOK, UserPCs,
       ReturnPCs, AgentPCs, ReleasePCs
  <1>2. PositionInv' /\ ChainInv' /\ AgentInv' /\ UserInv' /\ ReleaseInv'
    BY DEF Destroy, CallFlush, page, agent, release, history, PositionInv,
       InCall, FlushPCs, ChainInv, AgentInv, IsBatch, UserInv, WbinvdCall,
       OwnerPCs, ReleaseInv
  <1>3. NumberInv' /\ InOrder' /\ ResultIsOwn'
    BY DEF Destroy, CallFlush, page, agent, release, history, NumberInv,
       InOrder, ResultIsOwn
  <1>4. CountInv' /\ BufferInv' /\ BatchInv'
    BY DEF Destroy, CallFlush, page, agent, release, history, CountInv,
       Flushed, InFlight, Requested, WbinvdCall, InCall, FlushPCs, BufferInv,
       WordOf, BatchInv, FirstSlot
  <1>5. CounterInv' /\ SyncInv'
    BY DEF Destroy, CallFlush, page, agent, release, history, CounterInv,
       LastSampled, IsBatch, SyncInv, InSync
  <1>6. QED
    BY <1>1, <1>2, <1>3, <1>4, <1>5

-----------------------------------------------------------------------------
(* The steps of user space inside a call, and a kill.                      *)

\* flush() sees its channel idle: user space owns it from here on.
LEMMA FlushWaitStep ==
    ASSUME IndInv, FlushWait
    PROVE  IndInv'
  <1> USE DEF IndInv
  <1>a. control[active_channel_] = IDLE
    BY RequestWords, BatchWord, SpecialWords DEF FlushWait, WaitForIdle, UserInv, IsBatch, WbinvdRequest
  <1>1. TypeOK'
    BY DEF FlushWait, WaitForIdle, page, agent, release, history, TypeOK,
       UserPCs, ReturnPCs, AgentPCs, ReleasePCs
  <1>2. PositionInv' /\ ChainInv' /\ AgentInv' /\ ReleaseInv'
    BY DEF FlushWait, WaitForIdle, page, agent, release, history, PositionInv,
       InCall, FlushPCs, ChainInv, AgentInv, IsBatch, ReleaseInv
  <1>3. UserInv'
    <2>1. UNCHANGED <<control, data, active_channel_, buffer_>>
      BY DEF FlushWait, WaitForIdle, page
    <2>2. WbinvdCall' = WbinvdCall
      BY DEF FlushWait, WaitForIdle, WbinvdCall, InCall, FlushPCs
    <2>3. QED
      BY <1>a, <2>1, <2>2 DEF FlushWait, WaitForIdle, UserInv, FlushPCs, OwnerPCs
  <1>4. NumberInv' /\ InOrder' /\ ResultIsOwn'
    BY DEF FlushWait, WaitForIdle, page, agent, release, history, NumberInv,
       InOrder, ResultIsOwn
  <1>5. CountInv' /\ BufferInv' /\ BatchInv'
    BY DEF FlushWait, WaitForIdle, page, agent, release, history, CountInv,
       Flushed, InFlight, Requested, WbinvdCall, InCall, FlushPCs, BufferInv,
       WordOf, BatchInv, FirstSlot
  <1>6. CounterInv' /\ SyncInv'
    BY DEF FlushWait, WaitForIdle, page, agent, release, history, CounterInv,
       LastSampled, IsBatch, SyncInv, InSync
  <1>7. QED
    BY <1>1, <1>2, <1>3, <1>4, <1>5, <1>6

\* flush() copies the buffer into data[] of an idle channel: no request that
\* lies between the agent and user space is overwritten.
LEMMA FlushCopyStep ==
    ASSUME IndInv, FlushCopy
    PROVE  IndInv'
  <1> USE DEF IndInv
  <1>a. control[active_channel_] = IDLE
    BY DEF UserInv, OwnerPCs, FlushCopy
  <1>b. /\ apc \in {"retry", "switch_idle", "switch_read", "switch_store"}
        /\ usw = asw => apc = "retry"
        /\ InFlight = 0 /\ FirstSlot = 0
    BY <1>a, IdleChannel
  <1>c. \A c \in Channel \ {active_channel_} : data'[c] = data[c]
    BY OtherChannels DEF FlushCopy, TypeOK
  <1>1. PositionInv' /\ AgentInv' /\ ReleaseInv' /\ NumberInv' /\ InOrder'
          /\ ResultIsOwn' /\ CountInv' /\ BufferInv' /\ SyncInv'
    BY DEF FlushCopy, agent, release, history, PositionInv, InCall, FlushPCs,
       AgentInv, IsBatch, ReleaseInv, NumberInv, InOrder, ResultIsOwn,
       CountInv, Flushed, InFlight, Requested, WbinvdCall, BufferInv, WordOf,
       SyncInv, InSync, LastSampled
  <1>2. TypeOK'
    <2>1. \A i \in Slots : i < Len(buffer_) => buffer_[i + 1] \in Word
      BY Lengths DEF Slots
    <2>2. data' \in [Channel -> [Slots -> Word]]
      BY <2>1 DEF FlushCopy, TypeOK
    <2>3. QED
      BY <2>2 DEF FlushCopy, TypeOK, UserPCs, agent, release, history
  <1>3. ChainInv'
    BY <1>c, OtherChannels DEF FlushCopy, ChainInv, agent, history
  <1>4. UserInv'
    <2>1. \A i \in 1..Len(buffer_) : i - 1 \in Slots /\ i - 1 < Len(buffer_) /\ (i - 1) + 1 = i
      BY Lengths DEF Slots
    <2>2. \A i \in 1..Len(buffer_) : data'[active_channel_][i - 1] = buffer_[i]
      BY <2>1, OtherChannels DEF FlushCopy, TypeOK
    <2>3. QED
      BY <1>a, <2>2 DEF FlushCopy, UserInv, FlushPCs, OwnerPCs, IsBatch, WbinvdCall,
         InCall, agent, history
  <1>5. BatchInv'
    <2>1. InFlight' = 0 /\ IDLE # AccessWord(WbinvdRequest)
      BY <1>a, <1>b, SpecialWords DEF FlushCopy, InFlight, agent
    <2>2. QED
      BY <1>a, <2>1 DEF FlushCopy, BatchInv
  <1>6. CounterInv'
    BY <1>b DEF FlushCopy, CounterInv, agent, history
  <1>7. QED
    BY <1>1, <1>2, <1>3, <1>4, <1>5, <1>6

\* flush() hands the batch over: what was buffered is now in flight.
LEMMA FlushSetStep ==
    ASSUME IndInv, FlushSet
    PROVE  IndInv'
  <1> USE DEF IndInv
  <1>a. control[active_channel_] = IDLE
    BY DEF UserInv, OwnerPCs, FlushSet
  <1>b. /\ apc \in {"retry", "switch_idle", "switch_read", "switch_store"}
        /\ usw = asw => apc = "retry"
        /\ InFlight = 0 /\ FirstSlot = 0
    BY <1>a, IdleChannel
  <1>c. /\ \A c \in Channel \ {active_channel_} : control'[c] = control[c]
        /\ control'[active_channel_] = AccessWord(Len(buffer_))
    BY OtherChannels DEF FlushSet, TypeOK
  <1>d. Len(buffer_) \in 1..BufferSize
    BY Lengths DEF FlushSet, UserInv, FlushPCs
  <1>1. NumberInv' /\ InOrder' /\ ResultIsOwn' /\ BufferInv'
    BY DEF FlushSet, agent, release, history, NumberInv, InOrder, ResultIsOwn,
       BufferInv, Flushed, InFlight, Requested, WordOf
  <1>2. TypeOK'
    <2>1. Len(buffer_) \in 0..WbinvdRequest
      BY <1>d, BatchWord
    <2>2. control' \in [Channel -> {IDLE} \cup {AccessWord(n) : n \in 0..WbinvdRequest}]
      BY <2>1 DEF FlushSet, TypeOK
    <2>3. buffer_' \in Seq(Word) /\ Len(buffer_') <= BufferSize
      BY BufferAssumption DEF FlushSet
    <2>4. upc' \in UserPCs
      BY DEF FlushSet, TypeOK, ReturnPCs, UserPCs
    <2>5. QED
      BY <2>2, <2>3, <2>4 DEF FlushSet, TypeOK, agent, release, history
  <1>3. PositionInv'
    BY DEF FlushSet, PositionInv, InCall, FlushPCs, TypeOK, ReturnPCs, agent, history
  <1>4. ChainInv'
    <2>1. \A c \in Channel : (\A k \in asw..usw : c # ChannelAfter(k)) => c # active_channel_
      BY OtherChannels
    <2>2. QED
      BY <1>c, <2>1, OtherChannels DEF FlushSet, ChainInv, agent, history
  <1>5. AgentInv'
    <2>1. CASE usw = asw
      BY <1>b, <2>1 DEF FlushSet, AgentInv, agent, history
    <2>2. CASE usw # asw
      <3>1. control'[achan] = control[achan]
        BY <1>c, <2>2, SamePlace, OtherChannels
      <3>2. QED
        BY <3>1 DEF FlushSet, AgentInv, IsBatch, agent, history
    <2>3. QED
      BY <2>1, <2>2
  <1>6. UserInv'
    <2>1. IsBatch(control'[active_channel_])
      BY <1>c, <1>d, BatchWord
    <2>2. buffer_' = << >> /\ Len(buffer_') < BufferSize
      BY BufferAssumption DEF FlushSet
    <2>3. upc' \in ReturnPCs /\ upc' = ret
      BY DEF FlushSet, TypeOK
    <2>4. WbinvdCall' = WbinvdCall
      BY <2>3 DEF FlushSet, WbinvdCall, InCall, FlushPCs, ReturnPCs
    <2>5. QED
      BY <2>1, <2>2, <2>3, <2>4 DEF FlushSet, UserInv, ReturnPCs, FlushPCs, OwnerPCs, IsBatch
  <1>7. ReleaseInv'
    <2>1. upc' # "dead" /\ upc # "dead"
      BY DEF FlushSet, TypeOK, ReturnPCs
    <2>2. AccessWord(Len(buffer_)) # ACCESS
      BY <1>d, BatchWord
    <2>3. QED
      BY <1>c, <2>1, <2>2 DEF FlushSet, ReleaseInv, release
  <1>8. CountInv'
    <2>1. InFlight' = Len(buffer_)
      BY <1>b, <1>c, <1>d, BatchWord DEF FlushSet, InFlight, Requested, agent
    <2>2. Flushed' + Len(buffer_') = Flushed + Len(buffer_)
      BY <1>b, <2>1, Lengths DEF FlushSet, Flushed, history
    <2>3. WbinvdCall' = WbinvdCall
      BY DEF FlushSet, WbinvdCall, InCall, FlushPCs, TypeOK, ReturnPCs
    <2>4. issued' = issued /\ upc # "dead"
      BY DEF FlushSet, history
    <2>5. QED
      BY <2>2, <2>3, <2>4 DEF CountInv
  <1>9. BatchInv'
    <2>1. InFlight' = Len(buffer_) /\ FirstSlot' = 0
      BY <1>b, <1>c, <1>d, BatchWord DEF FlushSet, InFlight, FirstSlot, Requested, agent
    <2>2. Flushed = Len(executed)
      BY <1>b, Lengths DEF Flushed
    <2>3. \A i \in 1..Len(buffer_) : /\ issued[Len(executed) + i].kind \in OpKinds
                                     /\ data[active_channel_][i - 1] = WordOf(issued[Len(executed) + i])
      BY <2>2 DEF BufferInv, FlushSet, UserInv
    <2>4. control'[active_channel_] # AccessWord(WbinvdRequest)
      BY <1>c, <1>d, BatchWord
    <2>5. data' = data /\ issued' = issued /\ executed' = executed
            /\ active_channel_' = active_channel_
      BY DEF FlushSet, history
    <2>6. \A i \in 1..Len(buffer_) : 0 + i - 1 = i - 1
      BY Lengths
    <2>7. QED
      BY <2>1, <2>3, <2>4, <2>5, <2>6 DEF BatchInv, WordOf
  <1>10. CounterInv'
    BY <1>b DEF FlushSet, CounterInv, agent, history
  <1>11. SyncInv'
    <2>1. control'[active_channel_] # IDLE
      BY <1>c, <1>d, BatchWord
    <2>2. InSync' => InSync
      BY DEF FlushSet, InSync, TypeOK, ReturnPCs
    <2>3. upc' # "instr_read" /\ issued' = issued /\ active_channel_' = active_channel_
      BY DEF FlushSet, TypeOK, ReturnPCs, history
    <2>4. QED
      BY <2>1, <2>2, <2>3 DEF SyncInv
  <1>12. QED
    BY <1>1, <1>2, <1>3, <1>4, <1>5, <1>6, <1>7, <1>8, <1>9, <1>10, <1>11

\* instrumented_access() sees its channel idle: its batch has been performed
\* and the counters in data[] are those of its access.
LEMMA InstrWaitStep ==
    ASSUME IndInv, InstrWait
    PROVE  IndInv'
  <1> USE DEF IndInv
  <1>a. control[active_channel_] = IDLE
    BY RequestWords, BatchWord, SpecialWords DEF InstrWait, WaitForIdle, UserInv, IsBatch, WbinvdRequest
  <1>1. TypeOK'
    BY DEF InstrWait, WaitForIdle, page, agent, release, history, TypeOK,
       UserPCs, ReturnPCs, AgentPCs, ReleasePCs
  <1>2. PositionInv' /\ ChainInv' /\ AgentInv' /\ ReleaseInv'
    BY DEF InstrWait, WaitForIdle, page, agent, release, history, PositionInv,
       InCall, FlushPCs, ChainInv, AgentInv, IsBatch, ReleaseInv
  <1>3. UserInv'
    <2>1. UNCHANGED <<control, data, active_channel_, buffer_>>
      BY DEF InstrWait, WaitForIdle, page
    <2>2. WbinvdCall' = WbinvdCall
      BY DEF InstrWait, WaitForIdle, WbinvdCall, InCall, FlushPCs
    <2>3. QED
      BY <1>a, <2>1, <2>2 DEF InstrWait, WaitForIdle, UserInv, FlushPCs, OwnerPCs
  <1>4. NumberInv' /\ InOrder' /\ ResultIsOwn'
    BY DEF InstrWait, WaitForIdle, page, agent, release, history, NumberInv,
       InOrder, ResultIsOwn
  <1>5. CountInv' /\ BufferInv' /\ BatchInv'
    BY DEF InstrWait, WaitForIdle, page, agent, release, history, CountInv,
       Flushed, InFlight, Requested, WbinvdCall, InCall, FlushPCs, BufferInv,
       WordOf, BatchInv, FirstSlot
  <1>6. CounterInv'
    BY DEF InstrWait, WaitForIdle, page, agent, release, history, CounterInv,
       LastSampled, IsBatch
  <1>7. SyncInv'
    BY <1>a DEF InstrWait, WaitForIdle, page, agent, history, SyncInv, InSync, LastSampled
  <1>8. QED
    BY <1>1, <1>2, <1>3, <1>4, <1>5, <1>6, <1>7

\* instrumented_access() reads the counters of its own access.
LEMMA InstrReadStep ==
    ASSUME IndInv, InstrRead
    PROVE  IndInv'
  <1> USE DEF IndInv
  <1>1. ChainInv' /\ AgentInv' /\ ReleaseInv' /\ NumberInv' /\ InOrder'
          /\ CountInv' /\ BufferInv' /\ BatchInv' /\ CounterInv' /\ SyncInv'
    BY DEF InstrRead, page, agent, release, history, ChainInv, AgentInv,
       IsBatch, ReleaseInv, NumberInv, InOrder, CountInv, Flushed, InFlight,
       Requested, WbinvdCall, InCall, FlushPCs, BufferInv, WordOf, BatchInv,
       FirstSlot, CounterInv, LastSampled, SyncInv, InSync
  <1>2. TypeOK'
    <2>1. result' \in [op : Nat, sample : [CounterSlots -> Word]]
      BY Lengths DEF InstrRead, TypeOK, CounterSlots, Slots
    <2>2. QED
      BY <2>1 DEF InstrRead, TypeOK, UserPCs, page, agent, release, history
  <1>3. PositionInv'
    <2>1. usw = asw /\ usw \in Nat
      BY DEF InstrRead, SyncInv, TypeOK
    <2>2. QED
      BY <2>1, BoundAssumption DEF InstrRead, PositionInv, InCall, FlushPCs, agent, history
  <1>4. UserInv'
    <2>1. Len(buffer_) = 0 /\ Len(buffer_) < BufferSize
      BY BufferAssumption DEF InstrRead, UserInv, FlushPCs
    <2>2. QED
      BY <2>1 DEF InstrRead, UserInv, FlushPCs, OwnerPCs, IsBatch, WbinvdCall, InCall, page
  <1>5. ResultIsOwn'
    <2>1. executed = issued /\ LastSampled
      BY DEF InstrRead, SyncInv
    <2>2. executed[Len(executed)].id = Len(issued)
      BY <2>1 DEF InstrRead, SyncInv, InSync
    <2>3. QED
      BY <2>1, <2>2 DEF InstrRead, ResultIsOwn, Sample, LastSampled
  <1>6. QED
    BY <1>1, <1>2, <1>3, <1>4, <1>5

\* switch_channel() sees its channel idle.
LEMMA SwitchWaitStep ==
    ASSUME IndInv, SwitchWait
    PROVE  IndInv'
  <1> USE DEF IndInv
  <1>a. control[active_channel_] = IDLE
    BY RequestWords, BatchWord, SpecialWords DEF SwitchWait, WaitForIdle, UserInv, IsBatch, WbinvdRequest
  <1>1. TypeOK'
    BY DEF SwitchWait, WaitForIdle, page, agent, release, history, TypeOK,
       UserPCs, ReturnPCs, AgentPCs, ReleasePCs
  <1>2. PositionInv' /\ ChainInv' /\ AgentInv' /\ ReleaseInv'
    BY DEF SwitchWait, WaitForIdle, page, agent, release, history, PositionInv,
       InCall, FlushPCs, ChainInv, AgentInv, IsBatch, ReleaseInv
  <1>3. UserInv'
    <2>1. UNCHANGED <<control, data, active_channel_, buffer_>>
      BY DEF SwitchWait, WaitForIdle, page
    <2>2. WbinvdCall' = WbinvdCall
      BY DEF SwitchWait, WaitForIdle, WbinvdCall, InCall, FlushPCs
    <2>3. QED
      BY <1>a, <2>1, <2>2 DEF SwitchWait, WaitForIdle, UserInv, FlushPCs, OwnerPCs
  <1>4. NumberInv' /\ InOrder' /\ ResultIsOwn'
    BY DEF SwitchWait, WaitForIdle, page, agent, release, history, NumberInv,
       InOrder, ResultIsOwn
  <1>5. CountInv' /\ BufferInv' /\ BatchInv'
    BY DEF SwitchWait, WaitForIdle, page, agent, release, history, CountInv,
       Flushed, InFlight, Requested, WbinvdCall, InCall, FlushPCs, BufferInv,
       WordOf, BatchInv, FirstSlot
  <1>6. CounterInv' /\ SyncInv'
    BY DEF SwitchWait, WaitForIdle, page, agent, release, history, CounterInv,
       LastSampled, IsBatch, SyncInv, InSync
  <1>7. QED
    BY <1>1, <1>2, <1>3, <1>4, <1>5, <1>6

\* switch_channel() stores the new channel number in an idle channel.
LEMMA SwitchDataStep ==
    ASSUME IndInv, SwitchData
    PROVE  IndInv'
  <1> USE DEF IndInv
  <1>a. control[active_channel_] = IDLE
    BY DEF UserInv, OwnerPCs, SwitchData
  <1>b. /\ apc \in {"retry", "switch_idle", "switch_read", "switch_store"}
        /\ usw = asw => apc = "retry"
        /\ InFlight = 0 /\ FirstSlot = 0
    BY <1>a, IdleChannel
  <1>c. \A c \in Channel \ {active_channel_} : data'[c] = data[c]
    BY OtherChannels DEF SwitchData, TypeOK
  <1>1. PositionInv' /\ AgentInv' /\ ReleaseInv' /\ NumberInv' /\ InOrder'
          /\ ResultIsOwn' /\ CountInv' /\ BufferInv' /\ SyncInv'
    BY DEF SwitchData, agent, release, history, PositionInv, InCall, FlushPCs,
       AgentInv, IsBatch, ReleaseInv, NumberInv, InOrder, ResultIsOwn,
       CountInv, Flushed, InFlight, Requested, WbinvdCall, BufferInv, WordOf,
       SyncInv, InSync, LastSampled
  <1>2. TypeOK'
    <2>1. NextChannel(active_channel_) \in Nat
      <3>1. usw \in Nat /\ usw + 1 \in Nat
        BY DEF TypeOK
      <3>2. QED
        BY <3>1, OtherChannels, ChannelAfterNext, ChannelAfterType DEF Channel
    <2>2. ChannelNumber(NextChannel(active_channel_)) \in Word
      BY <2>1 DEF ChannelNumber, Word
    <2>3. data' \in [Channel -> [Slots -> Word]]
      BY <2>2 DEF SwitchData, TypeOK
    <2>4. QED
      BY <2>3 DEF SwitchData, TypeOK, UserPCs, agent, release, history
  <1>3. ChainInv'
    BY <1>c, OtherChannels DEF SwitchData, ChainInv, agent, history
  <1>4. UserInv'
    <2>1. data'[active_channel_][0] = ChannelNumber(NextChannel(active_channel_))
      BY OtherChannels DEF SwitchData, TypeOK, Slots
    <2>2. QED
      BY <1>a, <2>1 DEF SwitchData, UserInv, FlushPCs, OwnerPCs, IsBatch, WbinvdCall,
         InCall, agent, history
  <1>5. BatchInv'
    <2>1. InFlight' = 0 /\ IDLE # AccessWord(WbinvdRequest)
      BY <1>a, <1>b, SpecialWords DEF SwitchData, InFlight, agent
    <2>2. QED
      BY <1>a, <2>1 DEF SwitchData, BatchInv
  <1>6. CounterInv'
    BY <1>b DEF SwitchData, CounterInv, agent, history
  <1>7. QED
    BY <1>1, <1>2, <1>3, <1>4, <1>5, <1>6

\* switch_channel() requests the switch and moves on: one more request lies
\* between the agent and user space, in a channel none of the others uses.
LEMMA SwitchSetStep ==
    ASSUME IndInv, SwitchSet
    PROVE  IndInv'
  <1> USE DEF IndInv
  <1>a. control[active_channel_] = IDLE
    BY DEF UserInv, OwnerPCs, SwitchSet
  <1>b. /\ apc \in {"retry", "switch_idle", "switch_read", "switch_store"}
        /\ usw = asw => apc = "retry"
        /\ InFlight = 0 /\ FirstSlot = 0
    BY <1>a, IdleChannel
  <1>c. /\ \A c \in Channel \ {active_channel_} : control'[c] = control[c]
        /\ control'[active_channel_] = AccessWord(SwitchRequest)
    BY OtherChannels DEF SwitchSet, TypeOK
  <1> DEFINE next == ChannelAfter(usw + 1)
  <1>d. /\ active_channel_' = next /\ next \in Channel
        /\ NextChannel(active_channel_) = next
        /\ \A k \in asw..usw : k \in Nat /\ ChannelAfter(k) # next
    <2>1. asw \in Nat /\ usw \in Nat /\ usw + 1 \in Nat /\ unsynced \in Nat
      BY DEF TypeOK
    <2>2. usw + 1 < asw + ChannelCount
      BY <2>1, ClientAssumption, BoundAssumption, ChannelAssumption DEF SwitchSet, PositionInv
    <2>3. \A k \in asw..usw : k \in Nat /\ k < usw + 1 /\ usw + 1 < k + ChannelCount
      BY <2>1, <2>2, ChannelAssumption
    <2>4. \A k \in asw..usw : ChannelAfter(k) # next
      BY <2>1, <2>3, ChannelAfterDistinct
    <2>5. QED
      BY <2>1, <2>3, <2>4, OtherChannels, ChannelAfterNext, ChannelAfterType DEF SwitchSet
  <1>e. next # active_channel_ /\ control'[next] = control[next]
          /\ control[next] \in {IDLE, ACCESS}
    <2>1. usw \in asw..usw
      BY OtherChannels
    <2>2. QED
      BY <1>c, <1>d, <2>1, OtherChannels DEF ChainInv
  <1>f. apc' = apc /\ asw' = asw /\ usw' = usw + 1 /\ achan' = achan
    BY DEF SwitchSet, agent
  <1>g. InFlight' = 0
    BY <1>b, <1>d, <1>e, <1>f, SpecialWords DEF InFlight
  <1> HIDE DEF next
  <1>1. NumberInv' /\ InOrder' /\ ResultIsOwn' /\ SyncInv'
    BY DEF SwitchSet, agent, release, NumberInv, InOrder, ResultIsOwn, SyncInv,
       InSync, LastSampled
  <1>2. TypeOK'
    <2>1. SwitchRequest \in 0..WbinvdRequest
      BY DEF SwitchRequest, WbinvdRequest
    <2>2. control' \in [Channel -> {IDLE} \cup {AccessWord(n) : n \in 0..WbinvdRequest}]
      BY <2>1 DEF SwitchSet, TypeOK
    <2>3. QED
      BY <1>d, <2>2 DEF SwitchSet, TypeOK, UserPCs, agent, release
  <1>3. PositionInv'
    <2>1. asw \in Nat /\ usw \in Nat /\ unsynced \in Nat
      BY DEF TypeOK
    <2>2. QED
      BY <1>d, <1>f, <2>1, BoundAssumption
         DEF SwitchSet, PositionInv, InCall, FlushPCs, agent, next
  <1>4. ChainInv'
    <2>1. \A k \in asw..usw : k = usw \/ k \in asw..(usw - 1)
      BY OtherChannels
    <2>2. \A k \in asw..usw : data[ChannelAfter(k)][0] = ChannelNumber(ChannelAfter(k + 1))
      BY <1>d, <2>1, OtherChannels DEF ChainInv, UserInv, SwitchSet, next
    <2>3. \A k \in asw..usw : (k # asw \/ apc \in {"retry", "switch_idle"})
             => control'[ChannelAfter(k)] = AccessWord(SwitchRequest)
      BY <1>c, <2>1, OtherChannels DEF ChainInv
    <2>4. \A c \in Channel :
             (\A k \in asw..(usw + 1) : c # ChannelAfter(k)) => control'[c] \in {IDLE, ACCESS}
      <3>1. usw \in asw..(usw + 1) /\ \A k \in asw..usw : k \in asw..(usw + 1)
        BY OtherChannels
      <3>2. QED
        BY <1>c, <3>1, OtherChannels DEF ChainInv
    <2>5. usw' - 1 = usw
      BY <1>f, OtherChannels
    <2>6. QED
      BY <1>b, <1>f, <2>2, <2>3, <2>4, <2>5 DEF ChainInv, SwitchSet
  <1>5. AgentInv'
    <2>1. asw < usw'
      BY <1>f, OtherChannels
    <2>2. CASE usw = asw
      BY <1>b, <1>f, <2>1, <2>2 DEF AgentInv
    <2>3. CASE usw # asw
      <3>1. control'[achan] = control[achan]
        BY <1>c, <2>3, SamePlace, OtherChannels
      <3>2. QED
        BY <1>b, <1>f, <2>1, <3>1 DEF SwitchSet, AgentInv, agent
    <2>4. QED
      BY <2>2, <2>3
  <1>6. UserInv'
    <2>1. WbinvdCall' = 0 /\ buffer_' = << >>
      BY DEF SwitchSet, WbinvdCall, InCall, FlushPCs, UserInv
    <2>2. QED
      BY <1>d, <1>e, <2>1 DEF SwitchSet, UserInv, FlushPCs, OwnerPCs
  <1>7. ReleaseInv'
    <2>1. AccessWord(SwitchRequest) # ACCESS
      BY SpecialWords, RequestWords
    <2>2. QED
      BY <1>c, <2>1 DEF SwitchSet, ReleaseInv, release
  <1>8. CountInv'
    <2>1. WbinvdCall' = WbinvdCall
      BY DEF SwitchSet, WbinvdCall, InCall, FlushPCs
    <2>2. Flushed' = Flushed /\ buffer_' = buffer_ /\ issued' = issued
      BY <1>b, <1>g DEF SwitchSet, Flushed
    <2>3. QED
      BY <2>1, <2>2 DEF SwitchSet, CountInv
  <1>9. BufferInv'
    BY <1>b, <1>g DEF SwitchSet, BufferInv, Flushed, WordOf
  <1>10. BatchInv'
    BY <1>d, <1>e, <1>g, SpecialWords DEF BatchInv
  <1>11. CounterInv'
    BY <1>b, <1>f DEF CounterInv
  <1>12. QED
    BY <1>1, <1>2, <1>3, <1>4, <1>5, <1>6, <1>7, <1>8, <1>9, <1>10, <1>11

\* switch_channel() returns once the new channel is idle.
LEMMA SwitchAwaitStep ==
    ASSUME IndInv, SwitchAwait
    PROVE  IndInv'
  <1> USE DEF IndInv
  <1>a. control[active_channel_] = IDLE
    BY RequestWords, BatchWord, SpecialWords DEF SwitchAwait, WaitForIdle, UserInv, IsBatch, WbinvdRequest
  <1>1. TypeOK'
    BY DEF SwitchAwait, WaitForIdle, page, agent, release, history, TypeOK,
       UserPCs, ReturnPCs, AgentPCs, ReleasePCs
  <1>2. PositionInv' /\ ChainInv' /\ AgentInv' /\ ReleaseInv'
    BY DEF SwitchAwait, WaitForIdle, page, agent, release, history,
       PositionInv, InCall, FlushPCs, ChainInv, AgentInv, IsBatch, ReleaseInv
  <1>3. UserInv'
    <2>1. Len(buffer_) = 0 /\ Len(buffer_) < BufferSize
      BY BufferAssumption DEF SwitchAwait, WaitForIdle, UserInv
    <2>2. WbinvdCall' = WbinvdCall
      BY DEF SwitchAwait, WaitForIdle, WbinvdCall, InCall, FlushPCs
    <2>3. UNCHANGED <<control, data, active_channel_, buffer_>>
      BY DEF SwitchAwait, WaitForIdle, page
    <2>4. QED
      BY <1>a, <2>1, <2>2, <2>3 DEF SwitchAwait, WaitForIdle, UserInv, FlushPCs, OwnerPCs
  <1>4. NumberInv' /\ InOrder' /\ ResultIsOwn'
    BY DEF SwitchAwait, WaitForIdle, page, agent, release, history, NumberInv,
       InOrder, ResultIsOwn
  <1>5. CountInv' /\ BufferInv' /\ BatchInv'
    BY DEF SwitchAwait, WaitForIdle, page, agent, release, history, CountInv,
       Flushed, InFlight, Requested, WbinvdCall, InCall, FlushPCs, BufferInv,
       WordOf, BatchInv, FirstSlot
  <1>6. CounterInv' /\ SyncInv'
    BY DEF SwitchAwait, WaitForIdle, page, agent, release, history, CounterInv,
       LastSampled, IsBatch, SyncInv, InSync
  <1>7. QED
    BY <1>1, <1>2, <1>3, <1>4, <1>5, <1>6

\* wbinvd() sees its channel idle.
LEMMA WbinvdWaitStep ==
    ASSUME IndInv, WbinvdWait
    PROVE  IndInv'
  <1> USE DEF IndInv
  <1>a. control[active_channel_] = IDLE
    BY RequestWords, BatchWord, SpecialWords DEF WbinvdWait, WaitForIdle, UserInv, IsBatch, WbinvdRequest
  <1>1. TypeOK'
    BY DEF WbinvdWait, WaitForIdle, page, agent, release, history, TypeOK,
       UserPCs, ReturnPCs, AgentPCs, ReleasePCs
  <1>2. PositionInv' /\ ChainInv' /\ AgentInv' /\ ReleaseInv'
    BY DEF WbinvdWait, WaitForIdle, page, agent, release, history, PositionInv,
       InCall, FlushPCs, ChainInv, AgentInv, IsBatch, ReleaseInv
  <1>3. UserInv'
    <2>1. UNCHANGED <<control, data, active_channel_, buffer_>>
      BY DEF WbinvdWait, WaitForIdle, page
    <2>2. WbinvdCall' = WbinvdCall
      BY DEF WbinvdWait, WaitForIdle, WbinvdCall, InCall, FlushPCs
    <2>3. QED
      BY <1>a, <2>1, <2>2 DEF WbinvdWait, WaitForIdle, UserInv, FlushPCs, OwnerPCs
  <1>4. NumberInv' /\ InOrder' /\ ResultIsOwn'
    BY DEF WbinvdWait, WaitForIdle, page, agent, release, history, NumberInv,
       InOrder, ResultIsOwn
  <1>5. CountInv' /\ BufferInv' /\ BatchInv'
    BY DEF WbinvdWait, WaitForIdle, page, agent, release, history, CountInv,
       Flushed, InFlight, Requested, WbinvdCall, InCall, FlushPCs, BufferInv,
       WordOf, BatchInv, FirstSlot
  <1>6. CounterInv' /\ SyncInv'
    BY DEF WbinvdWait, WaitForIdle, page, agent, release, history, CounterInv,
       LastSampled, IsBatch, SyncInv, InSync
  <1>7. QED
    BY <1>1, <1>2, <1>3, <1>4, <1>5, <1>6

\* wbinvd() hands its request over.
LEMMA WbinvdSetStep ==
    ASSUME IndInv, WbinvdSet
    PROVE  IndInv'
  <1> USE DEF IndInv
  <1>a. control[active_channel_] = IDLE
    BY DEF UserInv, OwnerPCs, WbinvdSet
  <1>b. /\ apc \in {"retry", "switch_idle", "switch_read", "switch_store"}
        /\ usw = asw => apc = "retry"
        /\ InFlight = 0 /\ FirstSlot = 0
    BY <1>a, IdleChannel
  <1>c. /\ \A c \in Channel \ {active_channel_} : control'[c] = control[c]
        /\ control'[active_channel_] = AccessWord(WbinvdRequest)
    BY OtherChannels DEF WbinvdSet, TypeOK
  <1>d. InFlight' = 1 /\ FirstSlot' = 0 /\ WbinvdCall = 1 /\ WbinvdCall' = 0
    BY <1>b, <1>c, SpecialWords
       DEF WbinvdSet, InFlight, FirstSlot, WbinvdCall, InCall, FlushPCs, agent
  <1>e. buffer_ = << >> /\ Len(buffer_) = 0
    BY DEF WbinvdSet, UserInv, FlushPCs
  <1>1. PositionInv' /\ NumberInv' /\ InOrder' /\ ResultIsOwn' /\ SyncInv'
    BY DEF WbinvdSet, agent, release, history, PositionInv, InCall, FlushPCs,
       NumberInv, InOrder, ResultIsOwn, SyncInv, InSync, LastSampled
  <1>2. TypeOK'
    <2>1. WbinvdRequest \in 0..WbinvdRequest
      BY DEF WbinvdRequest
    <2>2. control' \in [Channel -> {IDLE} \cup {AccessWord(n) : n \in 0..WbinvdRequest}]
      BY <2>1 DEF WbinvdSet, TypeOK
    <2>3. QED
      BY <2>2 DEF WbinvdSet, TypeOK, UserPCs, agent, release, history
  <1>3. ChainInv'
    <2>1. \A c \in Channel : (\A k \in asw..usw : c # ChannelAfter(k)) => c # active_channel_
      BY OtherChannels
    <2>2. QED
      BY <1>c, <2>1, OtherChannels DEF WbinvdSet, ChainInv, agent, history
  <1>4. AgentInv'
    <2>1. CASE usw = asw
      BY <1>b, <2>1 DEF WbinvdSet, AgentInv, agent, history
    <2>2. CASE usw # asw
      <3>1. control'[achan] = control[achan]
        BY <1>c, <2>2, SamePlace, OtherChannels
      <3>2. QED
        BY <3>1 DEF WbinvdSet, AgentInv, IsBatch, agent, history
    <2>3. QED
      BY <2>1, <2>2
  <1>5. UserInv'
    <2>1. Arch = "x86" /\ Len(buffer_) < BufferSize
      BY <1>d, <1>e, BufferAssumption DEF UserInv
    <2>2. QED
      BY <1>c, <1>d, <1>e, <2>1 DEF WbinvdSet, UserInv, FlushPCs, OwnerPCs
  <1>6. ReleaseInv'
    <2>1. AccessWord(WbinvdRequest) # ACCESS
      BY SpecialWords, RequestWords
    <2>2. QED
      BY <1>c, <2>1 DEF WbinvdSet, ReleaseInv, release
  <1>7. CountInv'
    <2>1. Flushed' = Flushed + 1
      BY <1>b, <1>d, Lengths DEF WbinvdSet, Flushed, history
    <2>2. Flushed \in Nat /\ Len(issued) \in Nat
      BY <1>b, Lengths DEF Flushed
    <2>3. QED
      BY <1>d, <1>e, <2>1, <2>2 DEF WbinvdSet, CountInv, history
  <1>8. BufferInv'
    BY <1>e DEF WbinvdSet, BufferInv
  <1>9. BatchInv'
    <2>1. Len(issued) = Len(executed) + 1
      BY <1>b, <1>d, <1>e, Lengths DEF WbinvdSet, CountInv, Flushed
    <2>2. issued[Len(executed) + 1].kind = "wbinvd"
      BY <1>d, <2>1 DEF CountInv
    <2>3. QED
      BY <1>c, <2>2 DEF WbinvdSet, BatchInv, history
  <1>10. CounterInv'
    BY <1>b DEF WbinvdSet, CounterInv, agent, history
  <1>11. QED
    BY <1>1, <1>2, <1>3, <1>4, <1>5, <1>6, <1>7, <1>8, <1>9, <1>10

\* munmap() ends the client and starts device_release.
LEMMA MunmapStep ==
    ASSUME IndInv, Munmap
    PROVE  IndInv'
  <1> USE DEF IndInv
  <1>1. TypeOK' /\ PositionInv' /\ ChainInv' /\ AgentInv' /\ UserInv'
          /\ ReleaseInv' /\ NumberInv' /\ InOrder' /\ ResultIsOwn' /\ CountInv'
          /\ BufferInv' /\ BatchInv' /\ CounterInv' /\ SyncInv'
    BY DEF Munmap, page, agent, history, TypeOK, UserPCs, ReturnPCs, AgentPCs,
       ReleasePCs, PositionInv, InCall, FlushPCs, ChainInv, AgentInv, IsBatch,
       UserInv, WbinvdCall, OwnerPCs, ReleaseInv, NumberInv, InOrder,
       ResultIsOwn, CountInv, Flushed, InFlight, Requested, BufferInv, WordOf,
       BatchInv, FirstSlot, CounterInv, LastSampled, SyncInv, InSync
  <1>2. QED
    BY <1>1

\* A kill drops what is buffered and nothing that is in flight.
LEMMA KillStep ==
    ASSUME IndInv, Kill
    PROVE  IndInv'
  <1> USE DEF IndInv
  <1>1. TypeOK' /\ PositionInv' /\ ChainInv' /\ AgentInv' /\ UserInv'
          /\ ReleaseInv' /\ NumberInv' /\ InOrder' /\ ResultIsOwn'
          /\ BufferInv' /\ BatchInv' /\ CounterInv' /\ SyncInv'
    BY DEF Kill, page, agent, history, TypeOK, UserPCs, ReturnPCs, AgentPCs,
       ReleasePCs, PositionInv, InCall, FlushPCs, ChainInv, AgentInv, IsBatch,
       UserInv, WbinvdCall, OwnerPCs, ReleaseInv, NumberInv, InOrder,
       ResultIsOwn, BufferInv, Flushed, InFlight, Requested, WordOf, BatchInv,
       FirstSlot, CounterInv, LastSampled, SyncInv, InSync
  <1>2. CountInv'
    <2>1. WbinvdCall \in {0, 1} /\ WbinvdCall' = 0
      BY DEF Kill, WbinvdCall, InCall, FlushPCs
    <2>2. Flushed' = Flushed /\ Flushed \in Nat
      BY Lengths, InFlightType DEF Kill, Flushed, InFlight, Requested, page, agent, history
    <2>3. QED
      BY <2>1, <2>2, Lengths DEF Kill, CountInv, history
  <1>3. QED
    BY <1>1, <1>2

-----------------------------------------------------------------------------
(* The agent.                                                              *)

\* The agent reads a request and takes the branch that belongs to it.
LEMMA RetryStep ==
    ASSUME IndInv, Retry
    PROVE  IndInv'
  <1> USE DEF IndInv
  <1>a. /\ achan \in Channel /\ control[achan] # IDLE
        /\ usw = asw => achan = active_channel_
        /\ usw # asw => asw < usw
    BY OtherChannels, SamePlace DEF Retry, IDLE
  <1>b. \/ asw < usw /\ control[achan] = AccessWord(SwitchRequest) /\ apc' = "switch_idle"
        \/ usw = asw /\ control[achan] = ACCESS /\ apc' = "exit"
        \/ usw = asw /\ control[achan] = AccessWord(WbinvdRequest) /\ apc' = "wbinvd"
        \/ /\ usw = asw /\ apc' = "loop" /\ acount' \in 1..BufferSize
           /\ control[achan] = AccessWord(acount')
    <2>1. CASE asw < usw
      <3>1. asw \in asw..(usw - 1)
        BY <2>1, OtherChannels
      <3>2. control[achan] = AccessWord(SwitchRequest)
        BY <3>1, OtherChannels DEF ChainInv, Retry
      <3>3. QED
        BY <2>1, <3>2, RequestWords DEF Retry
    <2>2. CASE usw = asw /\ control[achan] = ACCESS
      BY <2>2, RequestWords DEF Retry
    <2>3. CASE usw = asw /\ control[achan] = AccessWord(WbinvdRequest) /\ Arch = "x86"
      BY <2>3, RequestWords DEF Retry
    <2>4. CASE usw = asw /\ IsBatch(control[achan])
      <3>1. PICK n \in 1..BufferSize : control[achan] = AccessWord(n)
        BY <2>4 DEF IsBatch
      <3>2. n \in 1..7 /\ Request(AccessWord(n)) = n
        BY BatchWord
      <3>3. apc' = "loop" /\ acount' = n
        BY <3>1, <3>2, RequestWords DEF Retry
      <3>4. QED
        BY <2>4, <3>1, <3>3
    <2>5. QED
      BY <1>a, <2>1, <2>2, <2>3, <2>4 DEF UserInv
  <1>c. apos' = 0 /\ apc = "retry" /\ UNCHANGED <<page, user, achan, history>>
    BY DEF Retry, page, user, history
  <1>d. InFlight' = InFlight /\ FirstSlot' = FirstSlot
    <2>1. CASE apc' = "loop"
      BY <1>a, <1>b, <1>c, <2>1, BatchWord DEF InFlight, FirstSlot, page, user
    <2>2. CASE apc' # "loop"
      BY <1>b, <1>c, <2>2 DEF InFlight, FirstSlot, Requested, page, user
    <2>3. QED
      BY <2>1, <2>2
  <1>e. Flushed' = Flushed /\ WbinvdCall' = WbinvdCall
    BY <1>c, <1>d DEF Flushed, WbinvdCall, InCall, user, history
  <1>1. PositionInv' /\ UserInv' /\ ReleaseInv' /\ NumberInv' /\ InOrder'
          /\ ResultIsOwn' /\ CounterInv' /\ SyncInv'
    BY DEF Retry, page, user, release, history, PositionInv, InCall, FlushPCs,
       UserInv, IsBatch, WbinvdCall, OwnerPCs, ReleaseInv, NumberInv, InOrder,
       ResultIsOwn, CounterInv, LastSampled, SyncInv, InSync
  <1>2. TypeOK'
    <2>1. acount' \in Nat
      <3>1. PICK n \in 0..WbinvdRequest : control[achan] = AccessWord(n)
        BY <1>a, ControlRange
      <3>2. QED
        BY <3>1, RequestWords DEF Retry, WbinvdRequest
    <2>2. apc' \in AgentPCs
      BY <1>b DEF AgentPCs
    <2>3. QED
      BY <2>1, <2>2 DEF Retry, TypeOK, page, user, release, history
  <1>3. ChainInv'
    <2>1. asw < usw => apc' = "switch_idle"
      BY <1>b, OtherChannels
    <2>2. UNCHANGED <<control, data, asw, usw>>
      BY <1>c DEF page, history
    <2>3. QED
      BY <1>c, <2>1, <2>2 DEF ChainInv
  <1>4. AgentInv'
    <2>1. CASE apc' = "loop"
      <3>1. acount' \in 1..BufferSize /\ 0 + acount' = acount' /\ acount' >= 1 /\ acount' <= BufferSize
        BY <1>b, <2>1, BufferAssumption
      <3>2. QED
        BY <1>b, <1>c, <2>1, <3>1 DEF AgentInv, page, history
    <2>2. CASE apc' # "loop"
      BY <1>b, <1>c, <2>2 DEF AgentInv, page, history
    <2>3. QED
      BY <2>1, <2>2
  <1>5. CountInv'
    BY <1>c, <1>e DEF CountInv, user, history
  <1>6. BufferInv'
    BY <1>c, <1>e DEF BufferInv, WordOf, user, history
  <1>7. BatchInv'
    BY <1>c, <1>d DEF BatchInv, WordOf, page, user, history
  <1>8. QED
    BY <1>1, <1>2, <1>3, <1>4, <1>5, <1>6, <1>7

\* The agent performs a wbinvd request: the next operation of the client.
LEMMA AgentWbinvdStep ==
    ASSUME IndInv, AgentWbinvd
    PROVE  IndInv'
  <1> USE DEF IndInv
  <1> DEFINE done == Len(executed) + 1
  <1>a. /\ usw = asw /\ achan = active_channel_
        /\ control[active_channel_] = AccessWord(WbinvdRequest)
    BY SamePlace DEF AgentWbinvd, AgentInv
  <1>b. InFlight = 1 /\ InFlight' = 0
    BY <1>a, SpecialWords DEF AgentWbinvd, InFlight
  <1>c. done \in 1..Len(issued) /\ Len(executed) \in Nat
    BY <1>b, NextInFlight, Lengths
  <1>d. issued[done] = [kind |-> "wbinvd", id |-> 0]
    <2>1. issued[done] \in Ops /\ issued[done].kind = "wbinvd" /\ issued[done].id = 0
      BY <1>a, <1>b, <1>c, Lengths DEF BatchInv, NumberInv
    <2>2. QED
      BY <2>1 DEF Ops
  <1>e. /\ Len(executed') = done /\ executed'[done] = issued[done]
        /\ \A n \in 1..Len(executed) : executed'[n] = executed[n]
    BY <1>c, <1>d DEF AgentWbinvd, TypeOK
  <1>f. UNCHANGED <<page, user, achan, issued>>
    BY DEF AgentWbinvd, page, user
  <1> HIDE DEF done
  <1>1. PositionInv' /\ ChainInv' /\ AgentInv' /\ UserInv' /\ ReleaseInv'
          /\ NumberInv' /\ ResultIsOwn' /\ BatchInv'
    BY DEF AgentWbinvd, page, user, release, PositionInv, InCall, FlushPCs,
       ChainInv, AgentInv, IsBatch, UserInv, WbinvdCall, OwnerPCs, ReleaseInv,
       NumberInv, ResultIsOwn, BatchInv, InFlight, FirstSlot, Requested, WordOf
  <1>2. TypeOK'
    <2>1. [kind |-> "wbinvd", id |-> 0] \in Ops
      BY BoundAssumption DEF Ops
    <2>2. executed' \in Seq(Ops)
      BY <2>1 DEF AgentWbinvd, TypeOK
    <2>3. QED
      BY <2>2 DEF AgentWbinvd, TypeOK, AgentPCs, page, user, release
  <1>3. InOrder'
    <2>1. \A n \in 1..done : n \in 1..Len(executed) \/ n = done
      BY <1>c DEF done
    <2>2. done <= Len(issued)
      BY <1>c, Lengths
    <2>3. QED
      BY <1>e, <1>f, <2>1, <2>2 DEF InOrder
  <1>4. CountInv'
    <2>1. Flushed' = Flushed /\ WbinvdCall' = WbinvdCall
      BY <1>b, <1>c, <1>e, <1>f DEF Flushed, WbinvdCall, InCall, user, done
    <2>2. QED
      BY <1>f, <2>1 DEF CountInv, user
  <1>5. BufferInv'
    <2>1. Flushed' = Flushed
      BY <1>b, <1>c, <1>e DEF Flushed, done
    <2>2. QED
      BY <1>f, <2>1 DEF BufferInv, WordOf, user
  <1>6. CounterInv'
    BY <1>a, <1>c, <1>d, <1>e, <1>f, SpecialWords DEF AgentWbinvd, CounterInv, page, done
  <1>7. SyncInv'
    BY <1>a, <1>f, SpecialWords DEF SyncInv, InSync, UserInv, OwnerPCs, page, user
  <1>8. QED
    BY <1>1, <1>2, <1>3, <1>4, <1>5, <1>6, <1>7

\* The agent performs the next operation of a batch: the next of the client.
LEMMA PerformStep ==
    ASSUME IndInv, Perform
    PROVE  IndInv'
  <1> USE DEF IndInv
  <1> DEFINE done == Len(executed) + 1
             word == data[achan][apos]
  <1>a. /\ usw = asw /\ achan = active_channel_ /\ apos \in Nat /\ acount \in Nat
        /\ acount >= 1 /\ apos + acount \in 1..BufferSize
        /\ control[achan] = AccessWord(apos + acount)
    <2>1. usw = asw /\ achan = active_channel_
      BY SamePlace DEF Perform, AgentInv
    <2>2. apos \in Nat /\ acount \in Nat
      BY DEF TypeOK
    <2>3. QED
      BY <2>1, <2>2, BufferAssumption DEF Perform, AgentInv
  <1>b. IsBatch(control[achan]) /\ control[achan] \notin {IDLE, AccessWord(WbinvdRequest)}
    BY <1>a, BatchWord
  <1>c. done \in 1..Len(issued) /\ Len(executed) \in Nat
    BY <1>a, NextInFlight, Lengths DEF Perform, InFlight
  <1>d. issued[done].kind \in OpKinds /\ word = WordOf(issued[done]) /\ issued[done] \in Ops
    <2>1. 1 \in 1..InFlight /\ FirstSlot + 1 - 1 = apos
      BY <1>a DEF Perform, InFlight, FirstSlot
    <2>2. QED
      BY <1>a, <1>b, <1>c, <2>1, Lengths DEF BatchInv
  <1>e. Decode(word.sel) = issued[done].kind /\ word.val = issued[done].id /\ word \in Word
    <2>1. issued[done].id \in Nat
      BY <1>d, BoundAssumption DEF Ops
    <2>2. QED
      BY <1>d, <2>1, Decoding DEF WordOf
  <1>f. [kind |-> Decode(word.sel), id |-> word.val] = issued[done]
    BY <1>d, <1>e DEF Ops
  <1>g. /\ executed' = Append(executed, issued[done]) /\ areg' = word
        /\ acount' = acount - 1 /\ apos' = apos + 1
        /\ UNCHANGED <<page, user, achan, issued, usw, asw>>
    BY <1>f DEF Perform, page, user
  <1>h. \/ acount > 1 /\ apc' = "loop"
        \/ acount = 1 /\ apc' = "counters"
        \/ acount = 1 /\ apc' = "idle" /\ ~WritesCounters(issued[done].kind)
    BY <1>a, <1>e DEF Perform
  <1>i. /\ Len(executed') = done /\ executed'[done] = issued[done]
        /\ \A n \in 1..Len(executed) : executed'[n] = executed[n]
    BY <1>c, <1>g DEF TypeOK
  <1>j. InFlight = acount /\ InFlight' = acount - 1
    BY <1>a, <1>g, <1>h DEF Perform, InFlight
  <1>k. Flushed' = Flushed /\ WbinvdCall' = WbinvdCall
    BY <1>a, <1>c, <1>g, <1>i, <1>j DEF Flushed, WbinvdCall, InCall, user, done
  <1> HIDE DEF done, word
  <1>1. PositionInv' /\ ChainInv' /\ UserInv' /\ ReleaseInv' /\ NumberInv'
          /\ ResultIsOwn'
    BY DEF Perform, page, user, release, PositionInv, InCall, FlushPCs,
       ChainInv, UserInv, IsBatch, WbinvdCall, OwnerPCs, ReleaseInv, NumberInv,
       ResultIsOwn
  <1>2. TypeOK'
    <2>1. executed' \in Seq(Ops)
      BY <1>d, <1>g DEF TypeOK
    <2>2. acount' \in Nat /\ apos' \in Nat /\ areg' \in Word /\ apc' \in AgentPCs
      BY <1>a, <1>e, <1>g, <1>h DEF AgentPCs
    <2>3. QED
      BY <2>1, <2>2 DEF Perform, TypeOK, page, user, release
  <1>3. AgentInv'
    <2>1. apos' + acount' = apos + acount
      BY <1>a, <1>g
    <2>2. QED
      BY <1>a, <1>b, <1>g, <1>h, <2>1, BufferAssumption DEF AgentInv, IsBatch, page
  <1>4. InOrder'
    <2>1. \A n \in 1..done : n \in 1..Len(executed) \/ n = done
      BY <1>c DEF done
    <2>2. done <= Len(issued)
      BY <1>c, Lengths
    <2>3. QED
      BY <1>g, <1>i, <2>1, <2>2 DEF InOrder
  <1>5. CountInv'
    BY <1>g, <1>k DEF CountInv, user
  <1>6. BufferInv'
    BY <1>g, <1>k DEF BufferInv, WordOf, user
  <1>7. BatchInv'
    <2>1. CASE acount = 1
      BY <1>a, <1>b, <1>g, <1>j, <2>1 DEF BatchInv, page, user
    <2>2. CASE acount > 1
      <3>1. FirstSlot = apos /\ FirstSlot' = apos + 1
        BY <1>g, <1>h, <2>2 DEF Perform, FirstSlot
      <3>2. \A i \in 1..(acount - 1) : /\ i + 1 \in 1..acount
                                       /\ Len(executed) + (i + 1) = done + i
                                       /\ apos + (i + 1) - 1 = (apos + 1) + i - 1
        BY <1>a, <1>c DEF done
      <3>3. \A i \in 1..(acount - 1) :
               /\ issued[done + i].kind \in OpKinds
               /\ data[active_channel_][(apos + 1) + i - 1] = WordOf(issued[done + i])
        BY <1>a, <1>b, <1>j, <3>1, <3>2 DEF BatchInv
      <3>4. QED
        BY <1>a, <1>b, <1>g, <1>i, <1>j, <3>1, <3>3 DEF BatchInv, WordOf, page, user
    <2>3. QED
      BY <1>a, <2>1, <2>2
  <1>8. CounterInv'
    <2>1. Len(executed') > 0 /\ executed'[Len(executed')] = issued[done]
      BY <1>c, <1>i DEF done
    <2>2. QED
      BY <1>b, <1>e, <1>g, <1>h, <2>1 DEF CounterInv, page
  <1>9. SyncInv'
    BY <1>a, <1>b, <1>g DEF SyncInv, InSync, UserInv, OwnerPCs, page, user
  <1>10. QED
    BY <1>1, <1>2, <1>3, <1>4, <1>5, <1>6, <1>7, <1>8, <1>9

\* The agent stores the counters of the last operation over the batch.
LEMMA WriteCountersStep ==
    ASSUME IndInv, WriteCounters
    PROVE  IndInv'
  <1> USE DEF IndInv
  <1>a. usw = asw /\ achan = active_channel_ /\ IsBatch(control[achan]) /\ control[achan] # IDLE
    BY SamePlace, SpecialWords DEF WriteCounters, AgentInv
  <1>b. \A i \in CounterSlots : data'[achan][i] = Counter(i, areg.val)
    BY OtherChannels DEF WriteCounters, TypeOK, CounterSlots, Slots
  <1>1. PositionInv' /\ AgentInv' /\ ReleaseInv' /\ NumberInv' /\ InOrder'
          /\ ResultIsOwn' /\ CountInv' /\ BufferInv' /\ BatchInv'
    BY DEF WriteCounters, user, release, history, PositionInv, InCall,
       FlushPCs, AgentInv, IsBatch, ReleaseInv, NumberInv, InOrder,
       ResultIsOwn, CountInv, Flushed, InFlight, Requested, WbinvdCall,
       BufferInv, WordOf, BatchInv, FirstSlot
  <1>2. TypeOK'
    <2>1. \A i \in CounterSlots : Counter(i, areg.val) \in Word
      BY DEF TypeOK, Counter, Word, CounterSlots
    <2>2. data' \in [Channel -> [Slots -> Word]]
      BY <2>1 DEF WriteCounters, TypeOK
    <2>3. QED
      BY <2>2 DEF WriteCounters, TypeOK, AgentPCs, user, release, history
  <1>3. ChainInv'
    <2>1. ~(asw < usw) /\ asw..(usw - 1) = {}
      BY <1>a, OtherChannels
    <2>2. QED
      BY <2>1 DEF WriteCounters, ChainInv, user, history
  <1>4. UserInv'
    BY <1>a DEF WriteCounters, UserInv, FlushPCs, OwnerPCs, IsBatch, WbinvdCall, InCall, user
  <1>5. CounterInv'
    <2>1. areg.val = executed[Len(executed)].id /\ Len(executed) > 0
      BY DEF WriteCounters, CounterInv
    <2>2. LastSampled'
      BY <1>a, <1>b, <2>1 DEF WriteCounters, LastSampled, user, history
    <2>3. QED
      BY <1>a, <2>1, <2>2, SpecialWords DEF WriteCounters, CounterInv, history
  <1>6. SyncInv'
    BY <1>a DEF WriteCounters, SyncInv, InSync, UserInv, OwnerPCs, user, history
  <1>7. QED
    BY <1>1, <1>2, <1>3, <1>4, <1>5, <1>6

\* The agent gives its channel back to user space.
LEMMA SetIdleStep ==
    ASSUME IndInv, SetIdle
    PROVE  IndInv'
  <1> USE DEF IndInv
  <1>a. /\ usw = asw /\ achan = active_channel_ /\ control[achan] # IDLE
        /\ IsBatch(control[achan]) \/ control[achan] = AccessWord(WbinvdRequest)
    BY SamePlace, SpecialWords DEF SetIdle, AgentInv
  <1>b. /\ \A c \in Channel \ {active_channel_} : control'[c] = control[c]
        /\ control'[active_channel_] = IDLE
    BY <1>a, OtherChannels DEF SetIdle, TypeOK
  <1>c. InFlight = 0 /\ InFlight' = 0
    BY <1>b, SpecialWords DEF SetIdle, InFlight, user
  <1>d. Flushed' = Flushed /\ WbinvdCall' = WbinvdCall
    BY <1>c DEF SetIdle, Flushed, WbinvdCall, InCall, user, history
  <1>1. TypeOK' /\ PositionInv' /\ AgentInv' /\ UserInv' /\ NumberInv'
          /\ InOrder' /\ ResultIsOwn' /\ CounterInv'
    BY DEF SetIdle, user, release, history, TypeOK, UserPCs, ReturnPCs,
       AgentPCs, ReleasePCs, PositionInv, InCall, FlushPCs, AgentInv, IsBatch,
       UserInv, WbinvdCall, OwnerPCs, NumberInv, InOrder, ResultIsOwn,
       CounterInv, LastSampled
  <1>2. ChainInv'
    <2>1. ~(asw < usw) /\ asw..(usw - 1) = {}
      BY <1>a, OtherChannels
    <2>2. QED
      BY <1>b, <2>1 DEF SetIdle, ChainInv, user, history
  <1>3. ReleaseInv'
    <2>1. IDLE # ACCESS
      BY SpecialWords, RequestWords
    <2>2. QED
      BY <1>b, <2>1 DEF SetIdle, ReleaseInv, release, user
  <1>4. CountInv'
    BY <1>d DEF SetIdle, CountInv, user, history
  <1>5. BufferInv'
    BY <1>d DEF SetIdle, BufferInv, WordOf, user, history
  <1>6. BatchInv'
    BY <1>b, <1>c, SpecialWords DEF SetIdle, BatchInv, user
  <1>7. SyncInv'
    <2>1. upc # "instr_read"
      BY <1>a DEF UserInv, OwnerPCs
    <2>2. ASSUME upc = "instr_wait"
          PROVE  executed = issued /\ LastSampled
      <3>1. buffer_ = << >> /\ WbinvdCall = 0
        BY <2>2 DEF UserInv, FlushPCs, WbinvdCall, InCall
      <3>2. Len(issued) = Len(executed)
        BY <1>c, <2>2, <3>1, Lengths DEF CountInv, Flushed
      <3>3. executed = issued
        <4>1. issued \in Seq(Ops) /\ executed \in Seq(Ops)
          BY DEF TypeOK
        <4>2. \A n \in 1..Len(executed) : executed[n] = issued[n]
          BY DEF InOrder
        <4>3. QED
          BY <3>2, <4>1, <4>2
      <3>4. executed[Len(executed)].kind = "access"
        BY <2>2, <3>3 DEF SyncInv, InSync
      <3>5. IsBatch(control[achan]) /\ WritesCounters("access")
        BY <1>a, <3>4 DEF SetIdle, CounterInv, WritesCounters
      <3>6. QED
        BY <3>3, <3>4, <3>5 DEF SetIdle, CounterInv
    <2>3. QED
      BY <1>a, <2>1, <2>2 DEF SetIdle, SyncInv, InSync, LastSampled, user, history
  <1>8. QED
    BY <1>1, <1>2, <1>3, <1>4, <1>5, <1>6, <1>7

\* The agent gives the old channel back before it has read data[0]; the client
\* keeps to its limit, so data[0] stays as it is.
LEMMA SwitchIdleStep ==
    ASSUME IndInv, SwitchIdle
    PROVE  IndInv'
  <1> USE DEF IndInv
  <1>a. /\ asw < usw /\ achan # active_channel_ /\ asw \in asw..(usw - 1)
        /\ \A k \in asw..(usw - 1) : k # asw => ChannelAfter(k) # achan
    <2>1. asw < usw
      BY DEF SwitchIdle, AgentInv
    <2>2. asw \in asw..usw /\ asw \in asw..(usw - 1) /\ \A k \in asw..(usw - 1) : k \in asw..usw
      BY <2>1, OtherChannels
    <2>3. \A k \in asw..(usw - 1) : k # asw => ChannelAfter(k) # achan
      BY <2>2, ChainDistinct, OtherChannels
    <2>4. QED
      BY <2>1, <2>2, <2>3, SamePlace
  <1>b. /\ \A c \in Channel \ {achan} : control'[c] = control[c]
        /\ control'[achan] = IDLE
    BY OtherChannels DEF SwitchIdle, TypeOK
  <1>c. control'[active_channel_] = control[active_channel_]
    BY <1>a, <1>b, OtherChannels
  <1>d. /\ InFlight' = InFlight /\ FirstSlot' = FirstSlot
        /\ Flushed' = Flushed /\ WbinvdCall' = WbinvdCall
    BY <1>c DEF SwitchIdle, InFlight, FirstSlot, Requested, Flushed, WbinvdCall, InCall,
       user, history
  <1>1. TypeOK' /\ PositionInv' /\ UserInv' /\ NumberInv' /\ InOrder'
          /\ ResultIsOwn' /\ CounterInv'
    BY DEF SwitchIdle, user, release, history, TypeOK, UserPCs, ReturnPCs,
       AgentPCs, ReleasePCs, PositionInv, InCall, FlushPCs, UserInv, IsBatch,
       WbinvdCall, OwnerPCs, NumberInv, InOrder, ResultIsOwn, CounterInv,
       LastSampled
  <1>2. ChainInv'
    BY <1>a, <1>b, OtherChannels DEF SwitchIdle, ChainInv, user, history
  <1>3. AgentInv'
    BY <1>a, <1>b DEF SwitchIdle, AgentInv, user, history
  <1>4. ReleaseInv'
    <2>1. IDLE # ACCESS
      BY SpecialWords, RequestWords
    <2>2. QED
      BY <1>b, <2>1 DEF SwitchIdle, ReleaseInv, release, user
  <1>5. CountInv'
    BY <1>d DEF SwitchIdle, CountInv, user, history
  <1>6. BufferInv'
    BY <1>d DEF SwitchIdle, BufferInv, WordOf, user, history
  <1>7. BatchInv'
    BY <1>c, <1>d DEF SwitchIdle, BatchInv, WordOf, user, history
  <1>8. SyncInv'
    BY <1>c DEF SwitchIdle, SyncInv, InSync, LastSampled, user, history
  <1>9. QED
    BY <1>1, <1>2, <1>3, <1>4, <1>5, <1>6, <1>7, <1>8

\* The agent reads the number of the channel the client switched to.
LEMMA SwitchReadStep ==
    ASSUME IndInv, SwitchRead
    PROVE  IndInv'
  <1> USE DEF IndInv
  <1>a. areg' = data[achan][0] /\ data[achan][0] = ChannelNumber(ChannelAfter(asw + 1))
    <2>1. asw \in asw..(usw - 1)
      BY OtherChannels DEF SwitchRead, AgentInv
    <2>2. QED
      BY <2>1, OtherChannels DEF SwitchRead, ChainInv
  <1>1. PositionInv' /\ ChainInv' /\ UserInv' /\ ReleaseInv' /\ NumberInv'
          /\ InOrder' /\ ResultIsOwn' /\ CountInv' /\ BufferInv' /\ BatchInv'
          /\ CounterInv' /\ SyncInv'
    BY DEF SwitchRead, page, user, release, history, PositionInv, InCall,
       FlushPCs, ChainInv, UserInv, IsBatch, WbinvdCall, OwnerPCs, ReleaseInv,
       NumberInv, InOrder, ResultIsOwn, CountInv, Flushed, InFlight, Requested,
       BufferInv, WordOf, BatchInv, FirstSlot, CounterInv, LastSampled,
       SyncInv, InSync
  <1>2. TypeOK'
    <2>1. data[achan][0] \in Word
      BY OtherChannels DEF TypeOK, Slots
    <2>2. QED
      BY <1>a, <2>1 DEF SwitchRead, TypeOK, AgentPCs, page, user, release, history
  <1>3. AgentInv'
    BY <1>a DEF SwitchRead, AgentInv, page, user, history
  <1>4. QED
    BY <1>1, <1>2, <1>3

\* The agent takes up the next position of the sequence of channels.
LEMMA SwitchStoreStep ==
    ASSUME IndInv, SwitchStore
    PROVE  IndInv'
  <1> USE DEF IndInv
  <1>a. asw \in Nat /\ asw + 1 \in Nat /\ usw \in Nat /\ asw < usw
    BY OtherChannels DEF SwitchStore, AgentInv
  <1>b. ChannelAfter(asw + 1) \in Channel
    BY <1>a, ChannelAfterType
  <1>c. /\ active_channel' = ChannelAfter(asw + 1) /\ achan' = ChannelAfter(asw + 1)
        /\ apc' = "retry" /\ asw' = asw + 1 /\ usw' = usw
    BY <1>b DEF SwitchStore, AgentInv, ChannelNumber
  <1>1. TypeOK'
    BY DEF SwitchStore, page, user, release, TypeOK, UserPCs, ReturnPCs,
       AgentPCs, ReleasePCs
  <1>2. UserInv' /\ ReleaseInv'
    BY DEF SwitchStore, page, user, release, UserInv, IsBatch, InCall,
       WbinvdCall, FlushPCs, OwnerPCs, ReleaseInv
  <1>3. PositionInv'
    <2>1. unsynced \in Nat
      BY DEF TypeOK
    <2>2. QED
      BY <1>a, <1>c, <2>1 DEF SwitchStore, PositionInv, InCall, FlushPCs, user
  <1>4. ChainInv'
    <2>1. \A k \in (asw + 1)..(usw - 1) : k \in asw..(usw - 1) /\ k # asw
      BY <1>a
    <2>2. \A k \in asw..usw : k = asw \/ k \in (asw + 1)..usw
      BY <1>a
    <2>3. \A c \in Channel : (\A k \in (asw + 1)..usw : c # ChannelAfter(k))
                                 => control[c] \in {IDLE, ACCESS}
      BY <2>2, OtherChannels DEF ChainInv, AgentInv, SwitchStore
    <2>4. QED
      BY <1>c, <2>1, <2>3 DEF SwitchStore, ChainInv, page
  <1>5. AgentInv'
    BY <1>c DEF AgentInv
  <1>6. NumberInv' /\ InOrder' /\ ResultIsOwn'
    BY DEF SwitchStore, page, user, release, NumberInv, InOrder, ResultIsOwn
  <1>7. CountInv' /\ BufferInv' /\ BatchInv'
    BY DEF SwitchStore, page, user, release, CountInv, Flushed, InFlight,
       Requested, WbinvdCall, InCall, FlushPCs, BufferInv, WordOf, BatchInv,
       FirstSlot
  <1>8. CounterInv'
    BY DEF SwitchStore, page, user, release, CounterInv, LastSampled, IsBatch
  <1>9. SyncInv'
    <2>1. upc # "instr_read" /\ ~(upc = "instr_wait" /\ control[active_channel_] = IDLE)
      BY <1>a DEF SyncInv
    <2>2. QED
      BY <2>1 DEF SwitchStore, SyncInv, InSync, page, user
  <1>10. QED
    BY <1>1, <1>2, <1>3, <1>4, <1>5, <1>6, <1>7, <1>8, <1>9

\* The agent returns.
LEMMA AgentReturnStep ==
    ASSUME IndInv, AgentReturn
    PROVE  IndInv'
  <1> USE DEF IndInv
  <1>1. TypeOK' /\ PositionInv' /\ ChainInv' /\ AgentInv' /\ UserInv'
          /\ ReleaseInv' /\ NumberInv' /\ InOrder' /\ ResultIsOwn' /\ CountInv'
          /\ BufferInv' /\ BatchInv' /\ CounterInv' /\ SyncInv'
    BY DEF AgentReturn, page, user, release, history, TypeOK, UserPCs,
       ReturnPCs, AgentPCs, ReleasePCs, PositionInv, InCall, FlushPCs,
       ChainInv, AgentInv, IsBatch, UserInv, WbinvdCall, OwnerPCs, ReleaseInv,
       NumberInv, InOrder, ResultIsOwn, CountInv, Flushed, InFlight, Requested,
       BufferInv, WordOf, BatchInv, FirstSlot, CounterInv, LastSampled,
       SyncInv, InSync
  <1>2. QED
    BY <1>1

-----------------------------------------------------------------------------
(* device_release.                                                         *)

\* device_release reads active_channel.
LEMMA ReadActiveChannelStep ==
    ASSUME IndInv, ReadActiveChannel
    PROVE  IndInv'
  <1> USE DEF IndInv
  <1>1. TypeOK' /\ PositionInv' /\ ChainInv' /\ AgentInv' /\ UserInv'
          /\ ReleaseInv' /\ NumberInv' /\ InOrder' /\ ResultIsOwn' /\ CountInv'
          /\ BufferInv' /\ BatchInv' /\ CounterInv' /\ SyncInv'
    BY DEF ReadActiveChannel, page, user, agent, history, TypeOK, UserPCs,
       ReturnPCs, AgentPCs, ReleasePCs, PositionInv, InCall, FlushPCs,
       ChainInv, AgentInv, IsBatch, UserInv, WbinvdCall, OwnerPCs, ReleaseInv,
       NumberInv, InOrder, ResultIsOwn, CountInv, Flushed, InFlight, Requested,
       BufferInv, WordOf, BatchInv, FirstSlot, CounterInv, LastSampled,
       SyncInv, InSync
  <1>2. QED
    BY <1>1

\* device_release stores ACCESS without a request into an idle channel.
LEMMA TerminateStep ==
    ASSUME IndInv, Terminate
    PROVE  IndInv'
  <1> USE DEF IndInv
  <1>a. rchan \in Channel /\ control[rchan] = IDLE
    BY DEF Terminate, TypeOK
  <1>b. /\ \A c \in Channel \ {rchan} : control'[c] = control[c]
        /\ control'[rchan] = ACCESS
    BY <1>a DEF Terminate, TypeOK
  <1>c. /\ InFlight' = InFlight /\ FirstSlot' = FirstSlot
        /\ Flushed' = Flushed /\ WbinvdCall' = WbinvdCall
    <2>1. Requested(control'[active_channel_]) = Requested(control[active_channel_])
      BY <1>a, <1>b, OtherChannels, SpecialWords
    <2>2. InFlight' = InFlight
      BY <2>1 DEF Terminate, InFlight, user, agent
    <2>3. QED
      BY <2>2 DEF Terminate, FirstSlot, Flushed, WbinvdCall, InCall, user, agent, history
  <1>1. PositionInv' /\ ReleaseInv' /\ NumberInv' /\ InOrder' /\ ResultIsOwn'
          /\ SyncInv'
    BY DEF Terminate, user, agent, history, PositionInv, InCall, FlushPCs,
       ReleaseInv, NumberInv, InOrder, ResultIsOwn, SyncInv, InSync,
       LastSampled
  <1>2. TypeOK'
    <2>1. ACCESS = AccessWord(0) /\ 0 \in 0..WbinvdRequest
      BY RequestWords DEF WbinvdRequest
    <2>2. control' \in [Channel -> {IDLE} \cup {AccessWord(n) : n \in 0..WbinvdRequest}]
      BY <2>1 DEF Terminate, TypeOK
    <2>3. QED
      BY <2>2 DEF Terminate, TypeOK, ReleasePCs, user, agent, history
  <1>3. ChainInv'
    BY <1>a, <1>b, OtherChannels, SpecialWords DEF Terminate, ChainInv, user, agent, history
  <1>4. AgentInv'
    <2>1. CASE achan = rchan
      <3>1. apc # "loop"
        <4>1. apos \in Nat /\ acount \in Nat
          BY DEF TypeOK
        <4>2. AccessWord(apos + acount) # IDLE
          BY <4>1, RequestWords
        <4>3. QED
          BY <1>a, <2>1, <4>2 DEF AgentInv
      <3>2. QED
        BY <1>a, <1>b, <2>1, <3>1, SpecialWords DEF Terminate, AgentInv, agent, user, history
    <2>2. CASE achan # rchan
      <3>1. control'[achan] = control[achan]
        BY <1>b, <2>2, OtherChannels
      <3>2. QED
        BY <3>1 DEF Terminate, AgentInv, IsBatch, agent, user, history
    <2>3. QED
      BY <2>1, <2>2
  <1>5. UserInv'
    <2>1. upc = "dead"
      BY DEF Terminate, ReleaseInv
    <2>2. WbinvdCall' = 0
      BY <2>1 DEF Terminate, WbinvdCall, InCall, FlushPCs, user
    <2>3. control'[active_channel_] = control[active_channel_] \/ control'[active_channel_] = ACCESS
      BY <1>b, OtherChannels
    <2>4. QED
      BY <2>1, <2>2, <2>3 DEF Terminate, UserInv, FlushPCs, OwnerPCs, IsBatch, user
  <1>6. CountInv'
    BY <1>c DEF Terminate, CountInv, user, history
  <1>7. BufferInv'
    BY <1>c DEF Terminate, BufferInv, WordOf, user, history
  <1>8. BatchInv'
    <2>1. (control'[active_channel_] = AccessWord(WbinvdRequest))
             <=> (control[active_channel_] = AccessWord(WbinvdRequest))
      BY <1>a, <1>b, OtherChannels, SpecialWords
    <2>2. QED
      BY <1>c, <2>1 DEF Terminate, BatchInv, WordOf, user, history
  <1>9. CounterInv'
    <2>1. IsBatch(control'[achan]) => IsBatch(control[achan])
      BY <1>a, <1>b, OtherChannels, SpecialWords
    <2>2. control'[achan] = AccessWord(WbinvdRequest) => control[achan] = AccessWord(WbinvdRequest)
      BY <1>a, <1>b, OtherChannels, SpecialWords
    <2>3. QED
      BY <2>1, <2>2 DEF Terminate, CounterInv, LastSampled, agent, user, history
  <1>10. QED
    BY <1>1, <1>2, <1>3, <1>4, <1>5, <1>6, <1>7, <1>8, <1>9

-----------------------------------------------------------------------------
(* The invariant.                                                          *)

\* The cleared page of alloc_ch_state and a fresh client satisfy the invariant.
LEMMA InitInv == Init => IndInv
  <1> SUFFICES ASSUME Init PROVE IndInv
    OBVIOUS
  <1>1. ChannelAfter(0) = 0 /\ 0 \in Channel
    BY ChannelAfterType, ChannelAssumption DEF ChannelAfter, Channel
  <1>2. ChannelNumber(0) \in Word
    BY DEF ChannelNumber, Word
  <1>3. Sample(0) \in [CounterSlots -> Word]
    BY DEF Sample, Counter, Word, CounterSlots
  <1>4. \A c \in Channel : control[c] = IDLE
    BY DEF Init
  <1>5. control[active_channel_] = IDLE /\ InFlight = 0
    BY <1>1, <1>4, SpecialWords DEF Init, InFlight
  <1>6. TypeOK
    <2>1. control \in [Channel -> {IDLE} \cup {AccessWord(n) : n \in 0..WbinvdRequest}]
      BY DEF Init
    <2>2. data \in [Channel -> [Slots -> Word]]
      BY <1>2 DEF Init
    <2>3. buffer_ \in Seq(Word) /\ Len(buffer_) <= BufferSize
      BY BufferAssumption DEF Init
    <2>4. issued \in Seq(Ops) /\ executed \in Seq(Ops)
      BY DEF Init
    <2>5. QED
      BY <1>1, <1>2, <1>3, <2>1, <2>2, <2>3, <2>4
         DEF Init, TypeOK, UserPCs, ReturnPCs, AgentPCs, ReleasePCs
  <1>7. PositionInv /\ ReleaseInv
    BY <1>1, <1>4, BoundAssumption, RequestWords
       DEF Init, PositionInv, InCall, FlushPCs, ReleaseInv
  <1>8. ChainInv /\ AgentInv
    BY <1>1, <1>4 DEF Init, ChainInv, AgentInv
  <1>9. UserInv
    BY <1>5, BufferAssumption DEF Init, UserInv, OwnerPCs, FlushPCs, WbinvdCall, InCall
  <1>10. NumberInv /\ InOrder /\ ResultIsOwn
    BY DEF Init, NumberInv, InOrder, ResultIsOwn
  <1>11. CountInv /\ BufferInv
    BY <1>5 DEF Init, CountInv, BufferInv, Flushed, WbinvdCall, InCall, FlushPCs
  <1>12. BatchInv
    BY <1>5, SpecialWords DEF BatchInv
  <1>13. CounterInv /\ SyncInv
    BY DEF Init, CounterInv, SyncInv, InSync
  <1>14. QED
    BY <1>6, <1>7, <1>8, <1>9, <1>10, <1>11, <1>12, <1>13 DEF IndInv

\* A step of another program leaves the invariant alone.
LEMMA StutterInv ==
    ASSUME IndInv, UNCHANGED vars
    PROVE  IndInv'
  <1> USE DEF IndInv
  <1> USE DEF vars, page, user, agent, release, history
  <1>1. TypeOK' /\ PositionInv' /\ ChainInv' /\ AgentInv'
    BY DEF TypeOK, PositionInv, InCall, ChainInv, AgentInv, IsBatch
  <1>2. UserInv' /\ ReleaseInv' /\ NumberInv' /\ InOrder' /\ ResultIsOwn'
    BY DEF UserInv, IsBatch, WbinvdCall, InCall, ReleaseInv, NumberInv, InOrder, ResultIsOwn
  <1>3. CountInv' /\ BufferInv' /\ BatchInv'
    BY DEF CountInv, BufferInv, BatchInv, Flushed, InFlight, FirstSlot, Requested,
       WbinvdCall, InCall, WordOf
  <1>4. CounterInv' /\ SyncInv'
    BY DEF CounterInv, SyncInv, LastSampled, IsBatch, InSync
  <1>5. QED
    BY <1>1, <1>2, <1>3, <1>4

\* The invariant holds of every behaviour of the protocol, for every number of
\* channels, stride that visits them all, batch size up to 7, operation and switch
\* bound and both architectures.
THEOREM Inductive == Spec => []IndInv
  <1>1. Init => IndInv
    BY InitInv
  <1>2. IndInv /\ [Next]_vars => IndInv'
    <2> SUFFICES ASSUME IndInv, [Next]_vars PROVE IndInv'
      OBVIOUS
    <2>1. ASSUME UserCall PROVE IndInv'
      BY <2>1, AccessStep, InstrumentedAccessStep, FlushStep, WbinvdStep,
         SwitchChannelStep, DestroyStep DEF UserCall
    <2>2. ASSUME UserStep PROVE IndInv'
      BY <2>2, FlushWaitStep, FlushCopyStep, FlushSetStep, InstrWaitStep,
         InstrReadStep, SwitchWaitStep, SwitchDataStep, SwitchSetStep,
         SwitchAwaitStep, WbinvdWaitStep, WbinvdSetStep, MunmapStep DEF UserStep
    <2>3. ASSUME AgentStep PROVE IndInv'
      BY <2>3, RetryStep, AgentWbinvdStep, PerformStep, WriteCountersStep,
         SetIdleStep, SwitchIdleStep, SwitchReadStep, SwitchStoreStep,
         AgentReturnStep DEF AgentStep
    <2>4. ASSUME ReleaseStep PROVE IndInv'
      BY <2>4, ReadActiveChannelStep, TerminateStep DEF ReleaseStep
    <2>5. QED
      BY <2>1, <2>2, <2>3, <2>4, KillStep, StutterInv DEF Next
  <1>3. QED
    BY <1>1, <1>2, PTL DEF Spec

-----------------------------------------------------------------------------
(* The safety properties of ChannelProtocol.                               *)

\* Control words stay in the encoding of ch_channel.h, the buffer stays within
\* buffer_.size() and every index is a channel of the page.
THEOREM TypeCorrect == Spec => []TypeOK
  <1>1. IndInv => TypeOK
    BY DEF IndInv
  <1>2. QED
    BY <1>1, Inductive, PTL

\* The agent performs the client's operations once and in the order of the calls.
THEOREM OrderKept == Spec => []InOrder
  <1>1. IndInv => InOrder
    BY DEF IndInv
  <1>2. QED
    BY <1>1, Inductive, PTL

\* instrumented_access() returns the six counters of its own access.
THEOREM OwnResult == Spec => []ResultIsOwn
  <1>1. IndInv => ResultIsOwn
    BY DEF IndInv
  <1>2. QED
    BY <1>1, Inductive, PTL

\* instrumented_access() reads its counters only after everything issued before
\* has been performed.
THEOREM SyncSound == Spec => []SyncComplete
  <1>1. IndInv => SyncComplete
    BY DEF IndInv, SyncInv, SyncComplete
  <1>2. QED
    BY <1>1, Inductive, PTL

\* User space and the agent never touch the data words of a channel at once.
THEOREM RaceFree == Spec => []NoDataRace
  <1>1. ASSUME IndInv, upc \in OwnerPCs, achan = active_channel_
        PROVE  apc = "retry"
    <2>1. usw = asw
      BY <1>1, SamePlace
    <2>2. control[active_channel_] = IDLE
      BY <1>1 DEF IndInv, UserInv
    <2>3. QED
      BY <1>1, <2>1, <2>2, IdleChannel
  <1>2. IndInv => NoDataRace
    BY <1>1 DEF NoDataRace, OwnerPCs
  <1>3. QED
    BY <1>2, Inductive, PTL

\* Although it gives the old channel back first, the agent reads the channel
\* number that switch_channel() stored for it.
THEOREM SwitchesSound == Spec => []NoWildChannel
  <1>1. IndInv => NoWildChannel
    <2> SUFFICES ASSUME IndInv PROVE NoWildChannel
      OBVIOUS
    <2>1. NextChannel(achan) = ChannelAfter(asw + 1)
      BY ChannelAfterNext DEF IndInv, TypeOK, PositionInv
    <2>2. QED
      BY <2>1 DEF IndInv, AgentInv, NoWildChannel
  <1>2. QED
    BY <1>1, Inductive, PTL

\* With no switch outstanding, user space, the agent and device_release mean the
\* same channel.
THEOREM SidesAgree == Spec => []ChannelAgreement
  <1>1. IndInv => ChannelAgreement
    BY DEF IndInv, PositionInv, ChannelAgreement
  <1>2. QED
    BY <1>1, Inductive, PTL

-----------------------------------------------------------------------------
(* The refinement.                                                         *)

\* The initial state is an initial state of FifoMemory.
LEMMA FifoInit == Init => Fifo!Init
  BY DEF Init, Fifo!Init, InSync

\* A call of the client issues an operation or is invisible.
LEMMA FifoCall ==
    ASSUME IndInv, UserCall
    PROVE  [Fifo!Next]_(Fifo!vars)
  <1>1. ASSUME NEW kind \in OpKinds, Access(kind) PROVE Fifo!Issue
    <2>1. NewOp \in 0..MaxOps
      BY <1>1, Lengths, BoundAssumption DEF IndInv, NewOp, Access
    <2>2. [kind |-> kind, id |-> NewOp] \in Ops
      BY <2>1 DEF Ops
    <2>3. ~InSync /\ InSync' = FALSE /\ upc # "dead" /\ upc' # "dead" /\ executed' = executed
            /\ result' = result
      BY <1>1 DEF Access, CallFlush, InSync
    <2>4. issued' = Append(issued, [kind |-> kind, id |-> NewOp])
      BY <1>1 DEF Access
    <2>5. QED
      BY <2>2, <2>3, <2>4 DEF Fifo!Issue
  <1>2. ASSUME InstrumentedAccess PROVE Fifo!Issue
    <2>1. NewOp \in 0..MaxOps
      BY <1>2, Lengths, BoundAssumption DEF IndInv, NewOp, InstrumentedAccess
    <2>2. [kind |-> "access", id |-> NewOp] \in Ops
      BY <2>1, Decoding, ArchAssumption DEF Ops, OpKinds
    <2>3. ~InSync /\ InSync' = TRUE /\ upc # "dead" /\ upc' # "dead" /\ executed' = executed
            /\ result' = result
      BY <1>2 DEF InstrumentedAccess, CallFlush, InSync
    <2>4. issued' = Append(issued, [kind |-> "access", id |-> NewOp])
      BY <1>2 DEF InstrumentedAccess
    <2>5. QED
      BY <2>2, <2>3, <2>4 DEF Fifo!Issue
  <1>3. ASSUME Wbinvd PROVE Fifo!Issue
    <2>2. [kind |-> "wbinvd", id |-> 0] \in Ops
      BY BoundAssumption DEF Ops
    <2>3. ~InSync /\ InSync' = FALSE /\ upc # "dead" /\ upc' # "dead" /\ executed' = executed
            /\ result' = result
      BY <1>3 DEF Wbinvd, CallFlush, InSync
    <2>4. issued' = Append(issued, [kind |-> "wbinvd", id |-> 0])
      BY <1>3 DEF Wbinvd
    <2>5. QED
      BY <2>2, <2>3, <2>4 DEF Fifo!Issue
  <1>4. ASSUME Flush \/ SwitchChannel \/ Destroy PROVE UNCHANGED Fifo!vars
    BY <1>4 DEF Flush, SwitchChannel, Destroy, CallFlush, InSync, history, Fifo!vars
  <1>5. QED
    BY <1>1, <1>2, <1>3, <1>4 DEF UserCall, Fifo!Next

\* Inside a call, only the end of instrumented_access() and the end of the client
\* are visible.
LEMMA FifoUser ==
    ASSUME IndInv, UserStep \/ Kill
    PROVE  [Fifo!Next]_(Fifo!vars)
  <1>1. ASSUME InstrRead PROVE Fifo!Return
    <2>1. executed = issued
      BY <1>1 DEF IndInv, SyncInv, InstrRead
    <2>2. QED
      BY <1>1, <2>1 DEF InstrRead, Fifo!Return, InSync, history
  <1>2. ASSUME Munmap \/ Kill PROVE Fifo!Close
    BY <1>2 DEF Munmap, Kill, Fifo!Close, InSync, history
  <1>3. ASSUME FlushSet PROVE UNCHANGED Fifo!vars
    BY <1>3 DEF FlushSet, InSync, history, Fifo!vars, IndInv, TypeOK, ReturnPCs
  <1>4. ASSUME \/ FlushWait \/ FlushCopy \/ InstrWait \/ SwitchWait \/ SwitchData
               \/ SwitchSet \/ SwitchAwait \/ WbinvdWait \/ WbinvdSet
        PROVE  UNCHANGED Fifo!vars
    BY <1>4 DEF FlushWait, FlushCopy, InstrWait, SwitchWait, SwitchData, SwitchSet,
       SwitchAwait, WbinvdWait, WbinvdSet, WaitForIdle, InSync, history, Fifo!vars
  <1>5. QED
    BY <1>1, <1>2, <1>3, <1>4 DEF UserStep, Fifo!Next

\* The agent executes the next operation or does something invisible.
LEMMA FifoAgent ==
    ASSUME IndInv, AgentStep \/ ReleaseStep
    PROVE  [Fifo!Next]_(Fifo!vars)
  <1>1. ASSUME AgentWbinvd \/ Perform PROVE Fifo!Execute
    <2>1. IndInv'
      BY <1>1, AgentWbinvdStep, PerformStep
    <2>2. PICK op : executed' = Append(executed, op)
      BY <1>1 DEF AgentWbinvd, Perform
    <2>3. issued' = issued /\ result' = result /\ upc' = upc /\ InSync' = InSync
      BY <1>1 DEF AgentWbinvd, Perform, user, InSync
    <2>4. Len(executed') = Len(executed) + 1 /\ executed'[Len(executed) + 1] = op
      BY <2>2 DEF IndInv, TypeOK
    <2>5. Len(executed) < Len(issued) /\ op = issued[Len(executed) + 1]
      BY <2>1, <2>3, <2>4, Lengths DEF IndInv, InOrder
    <2>6. QED
      BY <2>2, <2>3, <2>5 DEF Fifo!Execute
  <1>2. ASSUME \/ Retry \/ WriteCounters \/ SetIdle \/ SwitchIdle \/ SwitchRead
               \/ SwitchStore \/ AgentReturn \/ ReadActiveChannel \/ Terminate
        PROVE  UNCHANGED Fifo!vars
    BY <1>2 DEF Retry, WriteCounters, SetIdle, SwitchIdle, SwitchRead, SwitchStore,
       AgentReturn, ReadActiveChannel, Terminate, user, history, InSync, Fifo!vars
  <1>3. QED
    BY <1>1, <1>2 DEF AgentStep, ReleaseStep, Fifo!Next

\* kernel_memory and the agent together implement FifoMemory: batches, channels
\* and channel switches cannot be told from the outside.
THEOREM Implements == Spec => Refinement
  <1>1. Init => Fifo!Init
    BY FifoInit
  <1>2. IndInv /\ [Next]_vars => [Fifo!Next]_(Fifo!vars)
    <2>1. ASSUME UNCHANGED vars PROVE UNCHANGED Fifo!vars
      BY <2>1 DEF vars, user, history, Fifo!vars, InSync
    <2>2. QED
      BY <2>1, FifoCall, FifoUser, FifoAgent DEF Next
  <1>3. QED
    BY <1>1, <1>2, Inductive, PTL DEF Spec, Refinement, Fifo!Spec
=============================================================================
