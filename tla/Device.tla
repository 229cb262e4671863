------------------------------- MODULE Device -------------------------------
(***************************************************************************)
(* The life of one open /dev/cachehound: struct ch_state, its reference    *)
(* counter and its list of memory regions, as the threads of a process,    *)
(* the kernel agent and device_release use them (kernel/cachehound.c).     *)
(*                                                                         *)
(* What travels through the channels is ChannelProtocol's subject; here a  *)
(* channel is idle, carries a request, a switch or the order to exit.      *)
(***************************************************************************)
EXTENDS Naturals, FiniteSets

CONSTANTS Threads,      \* user threads that share the file
          Allocators,   \* those of them that call ALLOC_MEMORY
          Regions,      \* struct ch_memory_region with its pages
          ChannelCount, \* PAGE_SIZE / sizeof(ch_channel): 64
          Stride,       \* switch_channel() moves by 5
          None          \* the null pointer

ASSUME ThreadAssumption == /\ Allocators \subseteq Threads
                           /\ "agent" \notin Threads /\ "release" \notin Threads
                           /\ None \notin Regions

ASSUME ChannelAssumption == ChannelCount \in Nat \ {0} /\ Stride \in Nat

Actors == Threads \cup {"agent", "release"}

Channel == 0..(ChannelCount - 1)

\* Where the switch after channel c leads: switch_channel() without argument.
NextChannel(c) == (c + Stride) % ChannelCount

VARIABLES fd, mapped,           \* the references of user space to the file
          pc, old, region,      \* per actor: program counter and registers
          it,                   \* region_it of ch_state_free
          reported,             \* per thread: the region the last ALLOC_MEMORY returned
          alive, ref_counter, started, regions_head, regions_tail, next,
          pages,                \* the regions whose memory is allocated
          control,              \* the control words of the channels page
          active_channel,       \* ch_state.active_channel, written by the agent
          active_channel_,      \* the channel of the client
          achan, rchan          \* the channel in a register of agent and device_release

file  == <<fd, mapped>>
state == <<alive, ref_counter, started, regions_head, regions_tail, next>>
chans == <<control, active_channel, active_channel_, achan, rchan>>
vars  == <<file, pc, old, region, it, reported, state, pages, chans>>

\* device_open: alloc_ch_state has succeeded.
Init ==
    /\ fd = TRUE /\ mapped = FALSE
    /\ pc = [a \in Actors |-> IF a \in Threads THEN "user" ELSE "none"]
    /\ old = [a \in Actors |-> 0]
    /\ region = [t \in Threads |-> None]
    /\ it = None
    /\ reported = [t \in Threads |-> None]
    /\ alive = TRUE /\ ref_counter = 1 /\ started = 0
    /\ regions_head = None /\ regions_tail = None
    /\ next = [r \in Regions |-> None]
    /\ pages = {}
    /\ control = [c \in Channel |-> "idle"]
    /\ active_channel = 0 /\ active_channel_ = 0 /\ achan = 0 /\ rchan = 0

Goto(a, to) == pc' = [pc EXCEPT ![a] = to]

-----------------------------------------------------------------------------
(* ioctl ALLOC_MEMORY: ch_state_alloc_memory and the reply.                *)

AllocPages(t) ==
    /\ pc[t] = "user" /\ fd /\ t \in Allocators
    /\ \E r \in Regions \ pages :
          /\ pages' = pages \cup {r}
          /\ region' = [region EXCEPT ![t] = r]
    /\ Goto(t, "alloc_map")
    /\ UNCHANGED <<file, old, it, reported, state, chans>>

\* memremap or kmalloc fails: the pages go back, the list is untouched.
AllocFails(t) ==
    /\ pc[t] = "alloc_map"
    /\ pages' = pages \ {region[t]}
    /\ region' = [region EXCEPT ![t] = reported[t]]
    /\ Goto(t, "user")
    /\ UNCHANGED <<file, old, it, reported, state, chans>>

\* Fill in the region and look at the head of the list.
AllocMap(t) ==
    /\ pc[t] = "alloc_map"
    /\ next' = [next EXCEPT ![region[t]] = None]
    /\ Goto(t, IF regions_head = None THEN "link_first" ELSE "link_next")
    /\ UNCHANGED <<file, old, region, it, reported, alive, ref_counter, started,
                   regions_head, regions_tail, pages, chans>>

LinkFirst(t) ==
    /\ pc[t] = "link_first"
    /\ regions_head' = region[t] /\ regions_tail' = region[t]
    /\ Goto(t, "reply")
    /\ UNCHANGED <<file, old, region, it, reported, alive, ref_counter, started,
                   next, pages, chans>>

LinkNext(t) ==
    /\ pc[t] = "link_next"
    /\ next' = [next EXCEPT ![regions_tail] = region[t]]
    /\ Goto(t, "link_tail")
    /\ UNCHANGED <<file, old, region, it, reported, alive, ref_counter, started,
                   regions_head, regions_tail, pages, chans>>

\* Mutant: the tail stays where it was.
LinkTailForgotten(t) ==
    /\ pc[t] = "link_tail"
    /\ Goto(t, "reply")
    /\ UNCHANGED <<file, old, region, it, reported, state, pages, chans>>

LinkTail(t) ==
    /\ pc[t] = "link_tail"
    /\ regions_tail' = region[t]
    /\ Goto(t, "reply")
    /\ UNCHANGED <<file, old, region, it, reported, alive, ref_counter, started,
                   regions_head, next, pages, chans>>

\* Mutant: the reply is taken from the head of the list.
ReplyHead(t) ==
    /\ pc[t] = "reply"
    /\ reported' = [reported EXCEPT ![t] = regions_head]
    /\ Goto(t, "user")
    /\ UNCHANGED <<file, old, region, it, state, pages, chans>>

\* The addresses returned are those of the tail of the list.
Reply(t) ==
    /\ pc[t] = "reply"
    /\ reported' = [reported EXCEPT ![t] = regions_tail]
    /\ Goto(t, "user")
    /\ UNCHANGED <<file, old, region, it, state, pages, chans>>

Alloc(t) == \/ AllocPages(t) \/ AllocFails(t) \/ AllocMap(t) \/ LinkFirst(t)
            \/ LinkNext(t) \/ LinkTail(t) \/ Reply(t)

-----------------------------------------------------------------------------
(* ioctl START_AGENT.  A missing region, a cpu or an isolation level out of *)
(* range returns before anything is changed.                                *)

StartCheck(t) ==
    /\ pc[t] = "user" /\ fd
    /\ regions_head # None
    /\ Goto(t, "try_start")
    /\ UNCHANGED <<file, old, region, it, reported, state, pages, chans>>

\* Mutant: started is set without looking at its old value.
TryStartUnchecked(t) ==
    /\ pc[t] = "try_start"
    /\ started' = 1
    /\ Goto(t, "create")
    /\ UNCHANGED <<file, old, region, it, reported, alive, ref_counter,
                   regions_head, regions_tail, next, pages, chans>>

\* ch_state_try_start; EBUSY when another call was first.
TryStart(t) ==
    /\ pc[t] = "try_start"
    /\ started' = 1
    /\ Goto(t, IF started = 0 THEN "create" ELSE "user")
    /\ UNCHANGED <<file, old, region, it, reported, alive, ref_counter,
                   regions_head, regions_tail, next, pages, chans>>

\* Mutant: no reference is taken for the agent.
CreateNoGet(t) ==
    /\ pc[t] = "create"
    /\ pc' = [pc EXCEPT ![t] = "wake", !["agent"] = "created"]
    /\ UNCHANGED <<file, old, region, it, reported, state, pages, chans>>

Create(t) ==
    /\ pc[t] = "create"
    /\ pc' = [pc EXCEPT ![t] = "get", !["agent"] = "created"]
    /\ UNCHANGED <<file, old, region, it, reported, state, pages, chans>>

\* kthread_create returns an error pointer, which kthread_bind dereferences
\* before the test for NULL: the thread dies inside the call.
CreateFails(t) ==
    /\ pc[t] = "create"
    /\ Goto(t, "oops")
    /\ UNCHANGED <<file, old, region, it, reported, state, pages, chans>>

\* The loops of ch_state_get and ch_state_put: read the counter ...
ReadRef(a, at, then) ==
    /\ pc[a] = at
    /\ old' = [old EXCEPT ![a] = ref_counter]
    /\ Goto(a, then)
    /\ UNCHANGED <<file, region, it, reported, state, pages, chans>>

GetRead(t) == ReadRef(t, "get", "get_cas")

\* ... and replace it, or read again when someone else was faster.
GetCas(t) ==
    /\ pc[t] = "get_cas"
    /\ IF ref_counter = old[t]
       THEN ref_counter' = old[t] + 1 /\ Goto(t, "wake")
       ELSE Goto(t, "get") /\ UNCHANGED ref_counter
    /\ UNCHANGED <<file, old, region, it, reported, alive, started, regions_head,
                   regions_tail, next, pages, chans>>

Wake(t) ==
    /\ pc[t] = "wake"
    /\ pc' = [pc EXCEPT ![t] = "user", !["agent"] = "loop"]
    /\ UNCHANGED <<file, old, region, it, reported, state, pages, chans>>

Start(t) == \/ StartCheck(t) \/ TryStart(t) \/ Create(t) \/ CreateFails(t)
            \/ GetRead(t) \/ GetCas(t) \/ Wake(t)

-----------------------------------------------------------------------------
(* mmap, requests through the mapping, munmap and close.                   *)

Mmap(t) ==
    /\ pc[t] = "user" /\ fd
    /\ mapped' = TRUE
    /\ UNCHANGED <<fd, pc, old, region, it, reported, state, pages, chans>>

Submit(t) ==
    /\ pc[t] = "user" /\ mapped
    /\ control[active_channel_] = "idle"
    /\ control' = [control EXCEPT ![active_channel_] = "request"]
    /\ UNCHANGED <<file, pc, old, region, it, reported, state, pages,
                   active_channel, active_channel_, achan, rchan>>

\* A client never has as many switches outstanding as there are channels: the
\* number in data[0] of a channel is then read before the client comes round to it.
\* The wait for the new channel delays the next operation only.
SwitchChannel(t) ==
    /\ pc[t] = "user" /\ mapped
    /\ NextChannel(active_channel_) # active_channel
    /\ control[active_channel_] = "idle"
    /\ control' = [control EXCEPT ![active_channel_] = "switch"]
    /\ active_channel_' = NextChannel(active_channel_)
    /\ UNCHANGED <<file, pc, old, region, it, reported, state, pages,
                   active_channel, achan, rchan>>

Munmap(t) ==
    /\ pc[t] = "user" /\ mapped
    /\ mapped' = FALSE
    /\ UNCHANGED <<fd, pc, old, region, it, reported, state, pages, chans>>

Close(t) ==
    /\ pc[t] = "user" /\ fd
    /\ fd' = FALSE
    /\ UNCHANGED <<mapped, pc, old, region, it, reported, state, pages, chans>>

\* The kernel drops the last reference to the file: the descriptor, the mapping
\* and the calls in progress hold one each.
Fput ==
    /\ pc["release"] = "none"
    /\ ~fd /\ ~mapped /\ \A t \in Threads : pc[t] = "user"
    /\ Goto("release", "check")
    /\ UNCHANGED <<file, old, region, it, reported, state, pages, chans>>

-----------------------------------------------------------------------------
(* device_release, the end of agent() and ch_state_put.                    *)

\* Mutant: device_release does not tell the agent.
ReleaseNoTerminate ==
    /\ pc["release"] = "check"
    /\ Goto("release", "put")
    /\ UNCHANGED <<file, old, region, it, reported, state, pages, chans>>

\* started does not change any more, so both reads are made at the later one's time.
ReleaseCheck ==
    /\ pc["release"] = "check"
    /\ IF started = 1
       THEN Goto("release", "terminate") /\ rchan' = active_channel
       ELSE Goto("release", "put") /\ UNCHANGED rchan
    /\ UNCHANGED <<file, old, region, it, reported, state, pages,
                   control, active_channel, active_channel_, achan>>

Terminate ==
    /\ pc["release"] = "terminate"
    /\ control[rchan] = "idle"
    /\ control' = [control EXCEPT ![rchan] = "exit"]
    /\ Goto("release", "put")
    /\ UNCHANGED <<file, old, region, it, reported, state, pages,
                   active_channel, active_channel_, achan, rchan>>

Serve ==
    /\ pc["agent"] = "loop"
    /\ control[achan] = "request"
    /\ control' = [control EXCEPT ![achan] = "idle"]
    /\ UNCHANGED <<file, pc, old, region, it, reported, state, pages,
                   active_channel, active_channel_, achan, rchan>>

\* A switch: the agent gives the channel back ...
SwitchIdle ==
    /\ pc["agent"] = "loop"
    /\ control[achan] = "switch"
    /\ control' = [control EXCEPT ![achan] = "idle"]
    /\ Goto("agent", "switch")
    /\ UNCHANGED <<file, old, region, it, reported, state, pages,
                   active_channel, active_channel_, achan, rchan>>

\* ... and publishes and enters the one whose number the client left in data[0].
SwitchStore ==
    /\ pc["agent"] = "switch"
    /\ active_channel' = NextChannel(achan) /\ achan' = NextChannel(achan)
    /\ Goto("agent", "loop")
    /\ UNCHANGED <<file, old, region, it, reported, state, pages,
                   control, active_channel_, rchan>>

LeaveLoop ==
    /\ pc["agent"] = "loop"
    /\ control[achan] = "exit"
    /\ Goto("agent", "put")
    /\ UNCHANGED <<file, old, region, it, reported, state, pages, chans>>

PutRead(a) == ReadRef(a, "put", "put_cas")

\* Mutant: a store instead of the compare-and-swap.
PutStore(a) ==
    /\ pc[a] = "put_cas"
    /\ ref_counter' = old[a] - 1
    /\ Goto(a, IF ref_counter' = 0 THEN "free" ELSE "gone")
    /\ it' = IF ref_counter' = 0 THEN regions_head ELSE it
    /\ UNCHANGED <<file, old, region, reported, alive, started, regions_head,
                   regions_tail, next, pages, chans>>

\* Whoever brings the counter to zero frees the state.
PutCas(a) ==
    /\ pc[a] = "put_cas"
    /\ IF ref_counter = old[a]
       THEN /\ ref_counter' = old[a] - 1
            /\ Goto(a, IF ref_counter' = 0 THEN "free" ELSE "gone")
            /\ it' = IF ref_counter' = 0 THEN regions_head ELSE it
       ELSE Goto(a, "put") /\ UNCHANGED <<ref_counter, it>>
    /\ UNCHANGED <<file, old, region, reported, alive, started, regions_head,
                   regions_tail, next, pages, chans>>

\* ch_state_free, one region per step.
FreeRegion(a) ==
    /\ pc[a] = "free" /\ it # None
    /\ pages' = pages \ {it}
    /\ it' = next[it]
    /\ UNCHANGED <<file, pc, old, region, reported, state, chans>>

FreeState(a) ==
    /\ pc[a] = "free" /\ it = None
    /\ alive' = FALSE
    /\ Goto(a, "gone")
    /\ UNCHANGED <<file, old, region, it, reported, ref_counter, started,
                   regions_head, regions_tail, next, pages, chans>>

Put(a) == PutRead(a) \/ PutCas(a) \/ FreeRegion(a) \/ FreeState(a)

AgentStep   == Serve \/ SwitchIdle \/ SwitchStore \/ LeaveLoop \/ Put("agent")
ReleaseStep == Fput \/ ReleaseCheck \/ Terminate \/ Put("release")
UserStep(t) == \/ Alloc(t) \/ Start(t) \/ Mmap(t) \/ Submit(t) \/ SwitchChannel(t)
               \/ Munmap(t) \/ Close(t)

Next == (\E t \in Threads : UserStep(t)) \/ AgentStep \/ ReleaseStep

Spec == Init /\ [][Next]_vars

\* The kernel schedules the agent and runs device_release to its end; user
\* threads may stop anywhere.
FairSpec == Spec /\ WF_vars(AgentStep) /\ WF_vars(ReleaseStep)

-----------------------------------------------------------------------------
(* Properties.                                                             *)

ThreadPCs == {"user", "alloc_map", "link_first", "link_next", "link_tail",
              "reply", "try_start", "create", "get", "get_cas", "wake", "oops"}
KernelPCs == {"none", "created", "loop", "switch", "check", "terminate", "put", "put_cas",
              "free", "gone"}

\* The values the state can have.
TypeOK ==
    /\ fd \in BOOLEAN /\ mapped \in BOOLEAN
    /\ pc \in [Actors -> ThreadPCs \cup KernelPCs]
    /\ old \in [Actors -> 0..2]
    /\ region \in [Threads -> Regions \cup {None}]
    /\ it \in Regions \cup {None}
    /\ reported \in [Threads -> Regions \cup {None}]
    /\ alive \in BOOLEAN /\ ref_counter \in 0..2 /\ started \in 0..1
    /\ regions_head \in Regions \cup {None} /\ regions_tail \in Regions \cup {None}
    /\ next \in [Regions -> Regions \cup {None}]
    /\ pages \in SUBSET Regions
    /\ control \in [Channel -> {"idle", "request", "switch", "exit"}]
    /\ active_channel \in Channel /\ active_channel_ \in Channel
    /\ achan \in Channel /\ rchan \in Channel

\* The reference counter counts the open file and the agent: the file's
\* reference ends in device_release, the agent's begins when START_AGENT has
\* taken it on the agent's behalf and ends when agent() returns.  It never counts
\* anyone twice, so it stays within 0..2.
FileHolds  == pc["release"] \in {"none", "check", "terminate", "put", "put_cas"}
AgentHolds == \/ pc["agent"] \in {"loop", "switch", "put", "put_cas"}
              \/ \E t \in Threads : pc[t] = "wake"
RefCount ==
    /\ TypeOK
    /\ ref_counter = (IF FileHolds THEN 1 ELSE 0) + (IF AgentHolds THEN 1 ELSE 0)

\* ch_state and its channels page outlive everyone who may still reach them: a
\* call in progress, the user mapping, the agent from its creation to its put,
\* and device_release.
NoUseAfterFree ==
    /\ \A t \in Threads : pc[t] # "user" => alive
    /\ \A a \in {"agent", "release"} : pc[a] \notin {"none", "gone"} => alive
    /\ fd \/ mapped => alive

\* START_AGENT never starts a second agent on the same state.
OneAgent == [][pc'["agent"] = "created" => pc["agent"] \in {"none", "created"}]_vars

\* Every region allocated through the state is freed with it, and once: only one of
\* the agent and device_release walks the list, nobody holds the state any more,
\* and the list leads to allocated regions only.
AllRegionsFreed ==
    /\ ~alive => pages = {}
    /\ ~(pc["agent"] = "free" /\ pc["release"] = "free")
    /\ \A a \in {"agent", "release"} :
          pc[a] = "free" => ref_counter = 0 /\ (it # None => it \in pages)

\* ALLOC_MEMORY reports the region it allocated.
ReplyIsOwn == \A t \in Threads : pc[t] = "user" => reported[t] = region[t]

\* A switch that the client has requested and the agent has not completed.
SwitchPending == active_channel_ # active_channel

\* Once the last reference to the file is gone, the state is freed: device_release
\* tells the agent, in the channel that it polls, the agent notices, and nobody
\* waits for anybody.  With a switch outstanding device_release may address a
\* channel the agent has left or is about to leave; then this need not happen.
EventuallyFreed == (pc["release"] = "check" /\ (started = 1 => ~SwitchPending)) ~> ~alive
=============================================================================
