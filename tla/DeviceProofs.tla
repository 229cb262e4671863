---------------------------- MODULE DeviceProofs ----------------------------
(***************************************************************************)
(* The theorems about Device: the reference counter, the life of ch_state  *)
(* and the single agent for any threads, and, for a client with a single   *)
(* allocating thread, the list of regions and the reply of ALLOC_MEMORY.   *)
(***************************************************************************)
EXTENDS Device, TLAPS

-----------------------------------------------------------------------------
(* The inductive invariant of the state's life.                            *)

StarterPCs == {"create", "get", "get_cas", "wake"}
AgentPCs   == {"none", "created", "loop", "switch", "put", "put_cas", "free", "gone"}
ReleasePCs == {"none", "check", "terminate", "put", "put_cas", "free", "gone"}

\* Every actor is in its own code.
PlaceInv ==
    /\ \A t \in Threads : pc[t] \in ThreadPCs
    /\ pc["agent"] \in AgentPCs /\ pc["release"] \in ReleasePCs

\* started is a lock that is never given back: at most one thread is past
\* ch_state_try_start, and it is the one that made the agent that does not run yet.
StartInv ==
    /\ \A t \in Threads : pc[t] \in StarterPCs => started = 1
    /\ \A s, t \in Threads : pc[s] \in StarterPCs /\ pc[t] \in StarterPCs => s = t
    /\ \A t \in Threads : pc[t] = "create" => pc["agent"] = "none"
    /\ \A t \in Threads : pc[t] \in {"get", "get_cas", "wake"} => pc["agent"] = "created"
    /\ pc["agent"] = "created" => \E t \in Threads : pc[t] \in {"get", "get_cas", "wake"}
    /\ pc["agent"] # "none" => started = 1

\* The kernel calls device_release when nobody can enter the driver any more.
ReleaseInv ==
    pc["release"] # "none" => ~fd /\ ~mapped /\ \A t \in Threads : pc[t] = "user"

\* Who frees the state is alone with it.
FreeInv ==
    /\ pc["release"] = "free" => pc["agent"] \in {"none", "gone"}
    /\ pc["agent"] = "free" => pc["release"] = "gone"
    /\ ~alive => pc["release"] = "gone" /\ pc["agent"] \in {"none", "gone"}

\* The list of regions is not looked at before it has a head, and has a tail then.
HeadInv ==
    /\ regions_head = None <=> regions_tail = None
    /\ \A t \in Threads : pc[t] \in {"link_next", "link_tail"} => regions_head # None
    /\ \A t \in Threads :
          pc[t] \in {"alloc_map", "link_first", "link_next", "link_tail", "reply"}
             => t \in Allocators /\ region[t] \in Regions

LifeInv == RefCount /\ PlaceInv /\ StartInv /\ ReleaseInv /\ FreeInv /\ HeadInv

-----------------------------------------------------------------------------
(* The inductive invariant of the list, with one allocating thread.        *)

\* ch_state_alloc_memory takes no lock: it relies on its caller to be alone.
SingleAllocator == \A s, t \in Allocators : s = t

BuildPCs == {"alloc_map", "link_first", "link_next"}
AllocPCs == BuildPCs \cup {"link_tail", "reply"}

Freeing == pc["agent"] = "free" \/ pc["release"] = "free"

\* The regions that are in the list, and the first of those not yet freed.
Linked == {r \in pages : \A t \in Threads : pc[t] \in BuildPCs => region[t] # r}
First  == IF Freeing THEN it ELSE regions_head

\* What the list leads to, without counting steps: a region is reached from a
\* start if it is in every set that has the start and is closed under next.
Closed(S) == \A r \in S : next[r] # None => next[r] \in S
ReachesLinked(start) ==
    \A S \in SUBSET Regions : (Closed(S) /\ (start # None => start \in S)) => Linked \subseteq S

\* The list begins at First, leads to linked regions only, meets none of them twice
\* and misses none.
ListInv ==
    /\ First # None => First \in Linked
    /\ \A r \in Linked : next[r] # None => next[r] \in Linked /\ next[r] # First
    /\ \A q, r \in Linked : (next[q] = next[r] /\ next[q] # None) => q = r
    /\ ReachesLinked(First)

\* The tail is the last region, except between the two stores that append one.
TailInv ==
    regions_tail # None =>
        /\ regions_tail \in Linked
        /\ IF \E t \in Threads : pc[t] = "link_tail"
           THEN \A t \in Threads : pc[t] = "link_tail" => next[regions_tail] = region[t]
           ELSE next[regions_tail] = None

\* Where the allocating thread is tells what it has done with its region.
AllocInv ==
    \A t \in Threads :
        /\ pc[t] \in AllocPCs => region[t] \in pages
        /\ pc[t] = "link_first" => regions_head = None
        /\ pc[t] \in {"link_first", "link_next", "link_tail"} => next[region[t]] = None
        /\ pc[t] = "reply" => regions_tail = region[t]
        /\ pc[t] \notin AllocPCs => reported[t] = region[t]

RegionInv ==
    /\ alive => ListInv
    /\ (alive /\ ~Freeing) => TailInv
    /\ ~alive => pages = {}
    /\ AllocInv

-----------------------------------------------------------------------------
(* The state's life.                                                       *)

\* TypeOK in two parts: the provers treat truth values apart.
Flags  == fd \in BOOLEAN /\ mapped \in BOOLEAN /\ alive \in BOOLEAN
Values == /\ pc \in [Actors -> ThreadPCs \cup KernelPCs]
          /\ old \in [Actors -> 0..2]
          /\ region \in [Threads -> Regions \cup {None}]
          /\ it \in Regions \cup {None}
          /\ reported \in [Threads -> Regions \cup {None}]
          /\ ref_counter \in 0..2 /\ started \in 0..1
          /\ regions_head \in Regions \cup {None} /\ regions_tail \in Regions \cup {None}
          /\ next \in [Regions -> Regions \cup {None}]
          /\ pages \in SUBSET Regions
          /\ control \in [Channel -> {"idle", "request", "switch", "exit"}]
          /\ active_channel \in Channel /\ active_channel_ \in Channel
          /\ achan \in Channel /\ rchan \in Channel

\* The two parts make up TypeOK, before and after a step.
LEMMA TypeParts == /\ TypeOK <=> Flags /\ Values
                   /\ TypeOK' <=> Flags' /\ Values'
  BY DEF TypeOK, Flags, Values

\* A switch leads to a channel of the page.
LEMMA SwitchInPage ==
    /\ 0 \in Channel
    /\ \A c \in Channel : NextChannel(c) \in Channel
  BY ChannelAssumption DEF Channel, NextChannel

\* device_open hands out a state with the reference of the file.
LEMMA LifeInit == Init => LifeInv
  <1> SUFFICES ASSUME Init PROVE LifeInv
    OBVIOUS
  <1> USE ThreadAssumption DEF Init
  <1>1. /\ \A t \in Threads : pc[t] = "user"
        /\ pc["agent"] = "none" /\ pc["release"] = "none"
    BY DEF Actors
  <1>2. Flags
    BY Zenon DEF Flags
  <1>3. Values
    BY SwitchInPage DEF Values, Actors, ThreadPCs, KernelPCs
  <1>4. ref_counter = (IF FileHolds THEN 1 ELSE 0) + (IF AgentHolds THEN 1 ELSE 0)
    BY <1>1 DEF FileHolds, AgentHolds
  <1>5. PlaceInv /\ StartInv /\ ReleaseInv /\ FreeInv /\ HeadInv
    BY <1>1 DEF PlaceInv, StartInv, ReleaseInv, FreeInv, HeadInv, ThreadPCs,
                AgentPCs, ReleasePCs, StarterPCs
  <1>6. QED
    BY <1>2, <1>3, <1>4, <1>5, TypeParts DEF LifeInv, RefCount

\* A call in progress, or a descriptor to begin one, keeps device_release away.
LEMMA NotReleased ==
    ASSUME LifeInv, NEW t \in Threads, pc[t] # "user" \/ fd
    PROVE  pc["release"] = "none" /\ alive /\ pc["agent"] # "free"
  BY DEF LifeInv, ReleaseInv, FreeInv

\* A step of a thread outside the section that started protects, and not into it.
LEMMA ThreadMove ==
    ASSUME LifeInv, NEW t \in Threads, NEW to \in ThreadPCs \ StarterPCs,
           pc[t] \notin {"get", "get_cas", "wake"}, pc[t] # "user" \/ fd,
           pc' = [pc EXCEPT ![t] = to],
           UNCHANGED <<fd, mapped, alive, ref_counter, started>>,
           Values', HeadInv'
    PROVE  LifeInv'
  <1> USE ThreadAssumption
  <1>1. /\ Values /\ Flags
        /\ ref_counter = (IF FileHolds THEN 1 ELSE 0) + (IF AgentHolds THEN 1 ELSE 0)
    BY TypeParts DEF LifeInv, RefCount
  <1>2. /\ \A s \in Threads : pc'[s] = IF s = t THEN to ELSE pc[s]
        /\ pc'["agent"] = pc["agent"] /\ pc'["release"] = pc["release"]
    BY <1>1 DEF Values, Actors
  <1>3. pc["release"] = "none" /\ alive
    BY NotReleased
  <1>4. Flags'
    BY <1>1, Zenon DEF Flags
  <1>5. FileHolds' = FileHolds /\ AgentHolds' = AgentHolds
    BY <1>2 DEF FileHolds, AgentHolds, StarterPCs
  <1>6. RefCount'
    BY <1>1, <1>4, <1>5, TypeParts DEF RefCount
  <1>7. PlaceInv'
    BY <1>2 DEF LifeInv, PlaceInv
  <1>8. StartInv'
    BY <1>2 DEF LifeInv, StartInv, StarterPCs
  <1>9. ReleaseInv' /\ FreeInv'
    BY <1>2, <1>3 DEF LifeInv, ReleaseInv, FreeInv
  <1>10. QED
    BY <1>6, <1>7, <1>8, <1>9 DEF LifeInv

\* ALLOC_MEMORY preserves the invariant.
LEMMA AllocLife ==
    ASSUME LifeInv, NEW t \in Threads, Alloc(t)
    PROVE  LifeInv'
  <1> USE ThreadAssumption DEF Goto, file, state, chans
  <1>1. Values /\ HeadInv /\ (pc[t] # "user" \/ fd => pc["release"] = "none")
    BY TypeParts, NotReleased DEF LifeInv, RefCount
  <1> USE <1>1
  <1>2. CASE AllocPages(t)
    <2>1. Values' /\ HeadInv'
      BY <1>2 DEF AllocPages, Values, HeadInv, Actors, ThreadPCs
    <2>2. QED
      BY <1>2, <2>1, ThreadMove DEF AllocPages, ThreadPCs, StarterPCs
  <1>3. CASE AllocFails(t)
    <2>1. Values' /\ HeadInv'
      BY <1>3 DEF AllocFails, Values, HeadInv, Actors, ThreadPCs
    <2>2. QED
      BY <1>3, <2>1, ThreadMove DEF AllocFails, ThreadPCs, StarterPCs
  <1>4. CASE AllocMap(t)
    <2>1. Values' /\ HeadInv'
      BY <1>4 DEF AllocMap, Values, HeadInv, Actors, ThreadPCs
    <2>2. QED
      BY <1>4, <2>1, ThreadMove DEF AllocMap, ThreadPCs, StarterPCs
  <1>5. CASE LinkFirst(t)
    <2>1. Values' /\ HeadInv'
      BY <1>5 DEF LinkFirst, Values, HeadInv, Actors, ThreadPCs
    <2>2. QED
      BY <1>5, <2>1, ThreadMove DEF LinkFirst, ThreadPCs, StarterPCs
  <1>6. CASE LinkNext(t)
    <2>1. Values' /\ HeadInv'
      BY <1>6 DEF LinkNext, Values, HeadInv, Actors, ThreadPCs
    <2>2. QED
      BY <1>6, <2>1, ThreadMove DEF LinkNext, ThreadPCs, StarterPCs
  <1>7. CASE LinkTail(t)
    <2>1. Values' /\ HeadInv'
      BY <1>7 DEF LinkTail, Values, HeadInv, Actors, ThreadPCs
    <2>2. QED
      BY <1>7, <2>1, ThreadMove DEF LinkTail, ThreadPCs, StarterPCs
  <1>8. CASE Reply(t)
    <2>1. Values' /\ HeadInv'
      BY <1>8 DEF Reply, Values, HeadInv, Actors, ThreadPCs
    <2>2. QED
      BY <1>8, <2>1, ThreadMove DEF Reply, ThreadPCs, StarterPCs
  <1>9. QED
    BY <1>2, <1>3, <1>4, <1>5, <1>6, <1>7, <1>8 DEF Alloc

\* START_AGENT preserves the invariant: who finds started clear goes on alone.
LEMMA StartLife ==
    ASSUME LifeInv, NEW t \in Threads, Start(t)
    PROVE  LifeInv'
  <1> USE ThreadAssumption DEF Goto, file, state, chans
  <1>1. /\ Values /\ Flags /\ HeadInv /\ PlaceInv /\ StartInv /\ ReleaseInv /\ FreeInv
        /\ ref_counter = (IF FileHolds THEN 1 ELSE 0) + (IF AgentHolds THEN 1 ELSE 0)
    BY TypeParts DEF LifeInv, RefCount
  <1> USE <1>1
  <1>2. CASE StartCheck(t)
    <2>1. Values' /\ HeadInv'
      BY <1>2 DEF StartCheck, Values, HeadInv, Actors, ThreadPCs
    <2>2. QED
      BY <1>2, <2>1, ThreadMove DEF StartCheck, ThreadPCs, StarterPCs
  <1>3. CASE CreateFails(t)
    <2>1. Values' /\ HeadInv'
      BY <1>3 DEF CreateFails, Values, HeadInv, Actors, ThreadPCs
    <2>2. QED
      BY <1>3, <2>1, ThreadMove DEF CreateFails, ThreadPCs, StarterPCs
  <1>4. CASE TryStart(t)
    <2>1. Values' /\ HeadInv' /\ Flags'
      <3>1. Values' /\ HeadInv'
        BY <1>4 DEF TryStart, Values, HeadInv, Actors, ThreadPCs
      <3>2. Flags'
        BY <1>4, Zenon DEF TryStart, Flags
      <3>3. QED
        BY <3>1, <3>2
    <2>2. CASE started = 1
      <3>1. pc' = [pc EXCEPT ![t] = "user"] /\ UNCHANGED <<started, fd, mapped>>
        BY <1>4, <2>2 DEF TryStart
      <3>2. QED
        BY <1>4, <2>1, <3>1, ThreadMove DEF TryStart, ThreadPCs, StarterPCs
    <2>3. CASE started = 0
      <3>1. /\ \A s \in Threads : pc'[s] = IF s = t THEN "create" ELSE pc[s]
            /\ pc'["agent"] = "none" /\ pc["agent"] = "none" /\ started' = 1
            /\ pc'["release"] = "none" /\ pc["release"] = "none" /\ alive /\ alive'
        BY <1>4, <2>3, NotReleased DEF TryStart, Values, Actors, StartInv
      <3>2. FileHolds' = FileHolds /\ AgentHolds' = AgentHolds
        BY <1>4, <3>1 DEF TryStart, FileHolds, AgentHolds
      <3>3. RefCount'
        BY <1>4, <2>1, <3>2, TypeParts DEF TryStart, RefCount
      <3>4. PlaceInv' /\ StartInv'
        BY <2>3, <3>1 DEF PlaceInv, StartInv, StarterPCs, AgentPCs, ReleasePCs, ThreadPCs
      <3>5. ReleaseInv' /\ FreeInv'
        BY <3>1 DEF ReleaseInv, FreeInv
      <3>6. QED
        BY <2>1, <3>3, <3>4, <3>5 DEF LifeInv
    <2>4. QED
      BY <2>2, <2>3 DEF Values
  <1>5. CASE Create(t)
    <2>1. Values' /\ HeadInv'
      BY <1>5 DEF Create, Values, HeadInv, Actors, ThreadPCs, KernelPCs
    <2>2. Flags'
      BY <1>5, Zenon DEF Create, Flags
    <2>3. /\ \A s \in Threads : pc'[s] = IF s = t THEN "get" ELSE pc[s]
          /\ pc'["agent"] = "created" /\ pc["agent"] = "none"
          /\ pc'["release"] = "none" /\ pc["release"] = "none" /\ alive /\ alive'
      BY <1>5, NotReleased DEF Create, Values, Actors, StartInv
    <2>4. FileHolds /\ FileHolds' /\ ~AgentHolds /\ ~AgentHolds'
      <3>1. \A s \in Threads : pc[s] # "wake"
        BY <2>3 DEF StartInv
      <3>2. QED
        BY <2>3, <3>1 DEF FileHolds, AgentHolds
    <2>5. RefCount'
      BY <1>5, <2>1, <2>2, <2>4, TypeParts DEF Create, RefCount
    <2>6. PlaceInv' /\ StartInv'
      <3>1. started' = started /\ \A s \in Threads : pc[s] \in StarterPCs => s = t
        BY <1>5 DEF Create, StartInv, StarterPCs
      <3>2. PlaceInv'
        BY <2>3 DEF PlaceInv, AgentPCs, ReleasePCs, ThreadPCs
      <3>3. StartInv'
        BY <1>5, <2>3, <3>1 DEF Create, StartInv, StarterPCs
      <3>4. QED
        BY <3>2, <3>3
    <2>7. ReleaseInv' /\ FreeInv'
      BY <2>3 DEF ReleaseInv, FreeInv
    <2>8. QED
      BY <2>1, <2>5, <2>6, <2>7 DEF LifeInv
  <1>6. CASE GetRead(t)
    <2>1. Values' /\ HeadInv'
      BY <1>6 DEF GetRead, ReadRef, Values, HeadInv, Actors, ThreadPCs
    <2>2. Flags'
      BY <1>6, Zenon DEF GetRead, ReadRef, Flags
    <2>3. /\ \A s \in Threads : pc'[s] = IF s = t THEN "get_cas" ELSE pc[s]
          /\ pc'["agent"] = "created" /\ pc["agent"] = "created"
          /\ pc'["release"] = "none" /\ pc["release"] = "none" /\ alive /\ alive'
      BY <1>6, NotReleased DEF GetRead, ReadRef, Values, Actors, StartInv
    <2>4. FileHolds' = FileHolds /\ AgentHolds' = AgentHolds
      BY <1>6, <2>3 DEF GetRead, ReadRef, FileHolds, AgentHolds
    <2>5. RefCount'
      BY <1>6, <2>1, <2>2, <2>4, TypeParts DEF GetRead, ReadRef, RefCount
    <2>6. PlaceInv' /\ StartInv'
      BY <1>6, <2>3
         DEF GetRead, ReadRef, PlaceInv, StartInv, StarterPCs, AgentPCs, ReleasePCs, ThreadPCs
    <2>7. ReleaseInv' /\ FreeInv'
      BY <2>3 DEF ReleaseInv, FreeInv
    <2>8. QED
      BY <2>1, <2>5, <2>6, <2>7 DEF LifeInv
  <1>7. CASE GetCas(t)
    <2>1. PICK to \in {"wake", "get"} :
            /\ pc' = [pc EXCEPT ![t] = to]
            /\ to = "wake" => ref_counter = old[t] /\ ref_counter' = ref_counter + 1
            /\ to = "get" => ref_counter' = ref_counter
      BY <1>7 DEF GetCas, Values
    <2>2. /\ \A s \in Threads : pc'[s] = IF s = t THEN to ELSE pc[s]
          /\ pc'["agent"] = "created" /\ pc["agent"] = "created"
          /\ pc'["release"] = "none" /\ pc["release"] = "none" /\ alive /\ alive'
      BY <1>7, <2>1, NotReleased DEF GetCas, Values, Actors, StartInv
    <2>3. FileHolds /\ FileHolds' /\ ~AgentHolds /\ (AgentHolds' <=> to = "wake")
      BY <1>7, <2>1, <2>2 DEF GetCas, FileHolds, AgentHolds, StartInv, StarterPCs
    <2>4. ref_counter = 1 /\ ref_counter' = IF to = "wake" THEN 2 ELSE 1
      BY <2>1, <2>3
    <2>5. Values' /\ HeadInv'
      <3>1. pc' \in [Actors -> ThreadPCs \cup KernelPCs]
        BY <2>1 DEF Values, Actors, ThreadPCs
      <3>2. QED
        BY <1>7, <2>2, <2>4, <3>1 DEF GetCas, Values, HeadInv
    <2>6. Flags'
      BY <1>7, Zenon DEF GetCas, Flags
    <2>7. RefCount'
      BY <2>3, <2>4, <2>5, <2>6, TypeParts DEF RefCount
    <2>8. PlaceInv' /\ StartInv'
      BY <1>7, <2>1, <2>2
         DEF GetCas, PlaceInv, StartInv, StarterPCs, AgentPCs, ReleasePCs, ThreadPCs
    <2>9. ReleaseInv' /\ FreeInv'
      BY <2>2 DEF ReleaseInv, FreeInv
    <2>10. QED
      BY <2>5, <2>7, <2>8, <2>9 DEF LifeInv
  <1>8. CASE Wake(t)
    <2>1. Values' /\ HeadInv'
      BY <1>8 DEF Wake, Values, HeadInv, Actors, ThreadPCs, KernelPCs
    <2>2. Flags'
      BY <1>8, Zenon DEF Wake, Flags
    <2>3. /\ \A s \in Threads : pc'[s] = IF s = t THEN "user" ELSE pc[s]
          /\ pc'["agent"] = "loop" /\ pc["agent"] = "created"
          /\ pc'["release"] = "none" /\ pc["release"] = "none" /\ alive /\ alive'
      BY <1>8, NotReleased DEF Wake, Values, Actors, StartInv
    <2>4. FileHolds /\ FileHolds' /\ AgentHolds /\ AgentHolds'
      BY <1>8, <2>3 DEF Wake, FileHolds, AgentHolds
    <2>5. RefCount'
      BY <1>8, <2>1, <2>2, <2>4, TypeParts DEF Wake, RefCount
    <2>6. PlaceInv' /\ StartInv'
      <3>1. started' = started /\ \A s \in Threads : pc[s] \in StarterPCs => s = t
        BY <1>8 DEF Wake, StartInv, StarterPCs
      <3>2. PlaceInv'
        BY <2>3 DEF PlaceInv, AgentPCs, ReleasePCs, ThreadPCs
      <3>3. started' = 1 /\ \A s \in Threads : pc'[s] \notin StarterPCs
        BY <2>3, <3>1 DEF StartInv, StarterPCs
      <3>4. StartInv'
        BY <2>3, <3>3 DEF StartInv, StarterPCs
      <3>5. QED
        BY <3>2, <3>4
    <2>7. ReleaseInv' /\ FreeInv'
      BY <2>3 DEF ReleaseInv, FreeInv
    <2>8. QED
      BY <2>1, <2>5, <2>6, <2>7 DEF LifeInv
  <1>9. QED
    BY <1>2, <1>3, <1>4, <1>5, <1>6, <1>7, <1>8 DEF Start

\* A step that moves nobody, and takes no reference of user space that was gone.
LEMMA StayLife ==
    ASSUME LifeInv, UNCHANGED <<pc, old, region, reported, alive, ref_counter, started,
                                regions_head, regions_tail>>,
           Flags', Values',
           (fd' => fd) /\ (mapped' => mapped \/ fd)
    PROVE  LifeInv'
  <1>1. RefCount'
    BY TypeParts DEF LifeInv, RefCount, FileHolds, AgentHolds
  <1>2. PlaceInv' /\ StartInv' /\ HeadInv'
    BY DEF LifeInv, PlaceInv, StartInv, HeadInv
  <1>3. ReleaseInv' /\ FreeInv'
    BY DEF LifeInv, ReleaseInv, FreeInv
  <1>4. QED
    BY <1>1, <1>2, <1>3 DEF LifeInv

\* Mapping, requests, unmapping and closing preserve the invariant.
LEMMA FileLife ==
    ASSUME LifeInv, NEW t \in Threads,
           Mmap(t) \/ Submit(t) \/ SwitchChannel(t) \/ Munmap(t) \/ Close(t)
    PROVE  LifeInv'
  <1>1. Flags /\ Values
    BY TypeParts DEF LifeInv, RefCount
  <1>2. Flags'
    BY <1>1, Zenon DEF Flags, Mmap, Submit, SwitchChannel, Munmap, Close, file, state
  <1>3. Values'
    BY <1>1, SwitchInPage
       DEF Values, Mmap, Submit, SwitchChannel, Munmap, Close, file, state, chans
  <1>4. (fd' => fd) /\ (mapped' => mapped \/ fd)
    BY DEF Mmap, Submit, SwitchChannel, Munmap, Close, file
  <1>5. UNCHANGED <<pc, old, region, reported, alive, ref_counter, started,
                    regions_head, regions_tail>>
    BY DEF Mmap, Submit, SwitchChannel, Munmap, Close, state
  <1>6. QED
    BY <1>2, <1>3, <1>4, <1>5, StayLife

\* device_release up to its put preserves the invariant.
LEMMA ReleaseLife ==
    ASSUME LifeInv, Fput \/ ReleaseCheck \/ Terminate
    PROVE  LifeInv'
  <1> USE ThreadAssumption DEF Goto, file, state, chans
  <1>1. /\ Values /\ Flags /\ HeadInv /\ PlaceInv /\ StartInv /\ ReleaseInv /\ FreeInv
        /\ ref_counter = (IF FileHolds THEN 1 ELSE 0) + (IF AgentHolds THEN 1 ELSE 0)
    BY TypeParts DEF LifeInv, RefCount
  <1>2. PICK to \in {"check", "terminate", "put"} : pc' = [pc EXCEPT !["release"] = to]
    BY DEF Fput, ReleaseCheck, Terminate
  <1>3. /\ \A t \in Threads : pc'[t] = pc[t] /\ pc[t] = "user"
        /\ pc'["agent"] = pc["agent"] /\ pc'["release"] = to
        /\ pc["release"] \in {"none", "check", "terminate"}
        /\ ~fd /\ ~mapped /\ alive /\ pc["agent"] # "free"
    BY <1>1, <1>2 DEF Values, Actors, ReleaseInv, FreeInv, Fput, ReleaseCheck, Terminate
  <1>4. UNCHANGED <<fd, mapped, alive, ref_counter, started, region, regions_head, regions_tail>>
    BY DEF Fput, ReleaseCheck, Terminate
  <1>5. Flags'
    BY <1>1, <1>4, Zenon DEF Flags
  <1>6. Values'
    BY <1>1, <1>2 DEF Values, Fput, ReleaseCheck, Terminate, Actors, KernelPCs
  <1>7. FileHolds /\ FileHolds' /\ (AgentHolds' <=> AgentHolds)
    BY <1>3 DEF FileHolds, AgentHolds
  <1>8. RefCount'
    BY <1>1, <1>4, <1>5, <1>6, <1>7, TypeParts DEF RefCount
  <1>9. PlaceInv' /\ StartInv' /\ HeadInv'
    BY <1>1, <1>3, <1>4 DEF PlaceInv, StartInv, HeadInv, ReleasePCs
  <1>10. ReleaseInv' /\ FreeInv'
    BY <1>3, <1>4 DEF ReleaseInv, FreeInv
  <1>11. QED
    BY <1>8, <1>9, <1>10 DEF LifeInv

\* The agent's loop preserves the invariant.
LEMMA AgentLife ==
    ASSUME LifeInv, Serve \/ SwitchIdle \/ SwitchStore \/ LeaveLoop
    PROVE  LifeInv'
  <1> USE ThreadAssumption DEF Goto, file, state, chans
  <1>1. /\ Values /\ Flags /\ HeadInv /\ PlaceInv /\ StartInv /\ ReleaseInv /\ FreeInv
        /\ ref_counter = (IF FileHolds THEN 1 ELSE 0) + (IF AgentHolds THEN 1 ELSE 0)
    BY TypeParts DEF LifeInv, RefCount
  <1>2. UNCHANGED <<fd, mapped, old, region, reported, alive, ref_counter, started,
                    regions_head, regions_tail>>
    BY DEF Serve, SwitchIdle, SwitchStore, LeaveLoop
  <1>3. Flags'
    BY <1>1, <1>2, Zenon DEF Flags
  <1>4. Values'
    BY <1>1, SwitchInPage
       DEF Values, Serve, SwitchIdle, SwitchStore, LeaveLoop, Actors, KernelPCs
  <1>5. CASE Serve
    BY <1>2, <1>3, <1>4, <1>5, StayLife DEF Serve
  <1>6. CASE SwitchIdle \/ SwitchStore \/ LeaveLoop
    <2>1. PICK to \in {"loop", "switch", "put"} : pc' = [pc EXCEPT !["agent"] = to]
      BY <1>6 DEF SwitchIdle, SwitchStore, LeaveLoop
    <2>2. /\ \A t \in Threads : pc'[t] = pc[t]
          /\ pc["agent"] \in {"loop", "switch"} /\ pc'["agent"] = to
          /\ pc'["release"] = pc["release"]
      BY <1>1, <1>6, <2>1 DEF Values, Actors, SwitchIdle, SwitchStore, LeaveLoop
    <2>3. (FileHolds' <=> FileHolds) /\ AgentHolds /\ AgentHolds'
      BY <2>2 DEF FileHolds, AgentHolds
    <2>4. RefCount'
      BY <1>1, <1>2, <1>3, <1>4, <2>3, TypeParts DEF RefCount
    <2>5. PlaceInv' /\ StartInv' /\ HeadInv'
      BY <1>1, <1>2, <2>2 DEF PlaceInv, StartInv, HeadInv, AgentPCs
    <2>6. ReleaseInv' /\ FreeInv'
      BY <1>1, <1>2, <2>2 DEF ReleaseInv, FreeInv
    <2>7. QED
      BY <2>4, <2>5, <2>6 DEF LifeInv
  <1>7. QED
    BY <1>5, <1>6

\* ch_state_put preserves the invariant: the counter reaches zero once, for the
\* last holder, who is then alone.
LEMMA PutLife ==
    ASSUME LifeInv, NEW a \in {"agent", "release"}, Put(a)
    PROVE  LifeInv'
  <1> USE ThreadAssumption DEF Goto, file, state, chans
  <1>1. /\ Values /\ Flags /\ HeadInv /\ PlaceInv /\ StartInv /\ ReleaseInv /\ FreeInv
        /\ ref_counter = (IF FileHolds THEN 1 ELSE 0) + (IF AgentHolds THEN 1 ELSE 0)
    BY TypeParts DEF LifeInv, RefCount
  <1> USE <1>1
  <1>2. a \in Actors /\ a \notin Threads
    BY DEF Actors
  <1>3. CASE PutRead(a)
    <2>1. /\ \A b \in Actors : pc'[b] = IF b = a THEN "put_cas" ELSE pc[b]
          /\ pc[a] = "put"
          /\ UNCHANGED <<fd, mapped, alive, ref_counter, started, region, regions_head,
                         regions_tail>>
      BY <1>2, <1>3 DEF PutRead, ReadRef, Values
    <2>2. Flags'
      BY <2>1, Zenon DEF Flags
    <2>3. Values'
      BY <1>2, <1>3 DEF Values, PutRead, ReadRef, KernelPCs
    <2>4. (FileHolds' <=> FileHolds) /\ (AgentHolds' <=> AgentHolds)
      BY <1>2, <2>1 DEF FileHolds, AgentHolds, Actors
    <2>5. RefCount'
      BY <2>1, <2>2, <2>3, <2>4, TypeParts DEF RefCount
    <2>6. PlaceInv' /\ StartInv' /\ HeadInv'
      BY <1>2, <2>1 DEF PlaceInv, StartInv, HeadInv, AgentPCs, ReleasePCs, Actors
    <2>7. ReleaseInv' /\ FreeInv'
      BY <1>2, <2>1 DEF ReleaseInv, FreeInv, Actors
    <2>8. QED
      BY <2>5, <2>6, <2>7 DEF LifeInv
  <1>4. CASE PutCas(a)
    <2>1. PICK to \in {"put", "free", "gone"} :
            /\ pc' = [pc EXCEPT ![a] = to]
            /\ to = "put" => ref_counter' = ref_counter
            /\ to # "put" => ref_counter' = ref_counter - 1
            /\ to = "free" <=> (to # "put" /\ ref_counter = 1)
      BY <1>4 DEF PutCas, Values
    <2>2. /\ \A b \in Actors : pc'[b] = IF b = a THEN to ELSE pc[b]
          /\ pc[a] = "put_cas" /\ alive
          /\ UNCHANGED <<fd, mapped, alive, started, region, regions_head, regions_tail>>
      BY <1>2, <1>4, <2>1 DEF PutCas, Values, FreeInv
    <2>3. Flags'
      BY <2>2, Zenon DEF Flags
    <2>4. ref_counter' = (IF FileHolds' THEN 1 ELSE 0) + (IF AgentHolds' THEN 1 ELSE 0)
      <3>1. CASE a = "release"
        <4>1. FileHolds /\ (FileHolds' <=> to = "put") /\ (AgentHolds' <=> AgentHolds)
          BY <1>2, <2>1, <2>2, <3>1 DEF FileHolds, AgentHolds, Actors
        <4>2. QED
          BY <2>1, <4>1
      <3>2. CASE a = "agent"
        <4>1. AgentHolds /\ (AgentHolds' <=> to = "put") /\ (FileHolds' <=> FileHolds)
          BY <1>2, <2>1, <2>2, <3>2 DEF FileHolds, AgentHolds, Actors, StartInv
        <4>2. QED
          BY <2>1, <4>1
      <3>3. QED
        BY <3>1, <3>2
    <2>5. Values'
      <3>1. ref_counter' \in 0..2
        BY <2>4
      <3>2. pc' \in [Actors -> ThreadPCs \cup KernelPCs]
        BY <1>2, <2>1 DEF Values, KernelPCs
      <3>3. it' \in Regions \cup {None}
        BY <1>4 DEF PutCas, Values
      <3>4. QED
        BY <1>4, <3>1, <3>2, <3>3 DEF PutCas, Values
    <2>6. RefCount'
      BY <2>3, <2>4, <2>5, TypeParts DEF RefCount
    <2>7. PlaceInv' /\ StartInv' /\ HeadInv'
      BY <1>2, <2>1, <2>2 DEF PlaceInv, StartInv, HeadInv, AgentPCs, ReleasePCs, Actors
    <2>8. ReleaseInv'
      BY <1>2, <2>2 DEF ReleaseInv, Actors
    <2>9. FreeInv'
      <3>1. CASE a = "release"
        <4>1. to = "free" => ~AgentHolds
          BY <2>1, <2>2, <3>1 DEF FileHolds
        <4>2. \A t \in Threads : pc[t] = "user"
          BY <2>2, <3>1 DEF ReleaseInv
        <4>3. to = "free" => pc["agent"] \in {"none", "gone"}
          BY <2>2, <3>1, <4>1, <4>2 DEF AgentHolds, PlaceInv, AgentPCs, StartInv, FreeInv
        <4>4. QED
          BY <1>2, <2>1, <2>2, <3>1, <4>3 DEF FreeInv, Actors
      <3>2. CASE a = "agent"
        <4>1. to = "free" => ~FileHolds
          BY <2>1, <2>2, <3>2 DEF AgentHolds
        <4>2. to = "free" => pc["release"] = "gone"
          BY <2>2, <3>2, <4>1 DEF FileHolds, PlaceInv, ReleasePCs, FreeInv
        <4>3. QED
          BY <1>2, <2>1, <2>2, <3>2, <4>2 DEF FreeInv, Actors
      <3>3. QED
        BY <3>1, <3>2
    <2>10. QED
      BY <2>6, <2>7, <2>8, <2>9 DEF LifeInv
  <1>5. CASE FreeRegion(a)
    <2>1. Values'
      BY <1>5 DEF FreeRegion, Values
    <2>2. Flags'
      BY <1>5, Zenon DEF FreeRegion, Flags
    <2>3. QED
      BY <1>5, <2>1, <2>2, StayLife DEF FreeRegion
  <1>6. CASE FreeState(a)
    <2>1. /\ \A b \in Actors : pc'[b] = IF b = a THEN "gone" ELSE pc[b]
          /\ pc[a] = "free" /\ alive' = FALSE
          /\ UNCHANGED <<fd, mapped, ref_counter, started, region, regions_head, regions_tail>>
      BY <1>2, <1>6 DEF FreeState, Values
    <2>2. Flags'
      BY <2>1, Zenon DEF Flags
    <2>3. Values'
      BY <1>2, <1>6 DEF Values, FreeState, KernelPCs
    <2>4. (FileHolds' <=> FileHolds) /\ (AgentHolds' <=> AgentHolds)
      BY <1>2, <2>1 DEF FileHolds, AgentHolds, Actors
    <2>5. RefCount'
      BY <2>1, <2>2, <2>3, <2>4, TypeParts DEF RefCount
    <2>6. PlaceInv' /\ StartInv' /\ HeadInv'
      BY <1>2, <2>1 DEF PlaceInv, StartInv, HeadInv, AgentPCs, ReleasePCs, Actors
    <2>7. ReleaseInv' /\ FreeInv'
      BY <1>2, <2>1 DEF ReleaseInv, FreeInv, Actors
    <2>8. QED
      BY <2>5, <2>6, <2>7 DEF LifeInv
  <1>7. QED
    BY <1>3, <1>4, <1>5, <1>6 DEF Put

\* Every step preserves the invariant of the state's life.
LEMMA LifeStep == LifeInv /\ [Next]_vars => LifeInv'
  <1> SUFFICES ASSUME LifeInv, [Next]_vars PROVE LifeInv'
    OBVIOUS
  <1>1. CASE UNCHANGED vars
    <2>1. Flags' /\ Values'
      <3>1. Flags'
        BY <1>1, TypeParts, Zenon DEF LifeInv, RefCount, Flags, vars, file, state, chans
      <3>2. Values'
        BY <1>1, TypeParts DEF LifeInv, RefCount, Values, vars, file, state, chans
      <3>3. QED
        BY <3>1, <3>2
    <2>2. QED
      BY <1>1, <2>1, StayLife DEF vars, file, state, chans
  <1>2. CASE Next
    BY <1>2, AllocLife, StartLife, FileLife, ReleaseLife, AgentLife, PutLife
       DEF Next, UserStep, AgentStep, ReleaseStep
  <1>3. QED
    BY <1>1, <1>2

\* The invariant of the state's life holds in every reachable state.
LEMMA LifeHolds == Spec => []LifeInv
  BY LifeInit, LifeStep, PTL DEF Spec

\* The reference counter of ch_state counts exactly the open file and the agent,
\* for any number of threads that start, map, close and allocate at the same time.
THEOREM ReferencesCounted == Spec => []RefCount
  <1>1. LifeInv => RefCount
    BY DEF LifeInv
  <1>2. QED
    BY <1>1, LifeHolds, PTL

\* ch_state outlives every call in progress, the mapping, the agent and
\* device_release: nobody who may still reach it finds it freed.
THEOREM NeverUsedFreed == Spec => []NoUseAfterFree
  <1>1. LifeInv => NoUseAfterFree
    <2> SUFFICES ASSUME LifeInv PROVE NoUseAfterFree
      OBVIOUS
    <2>1. ASSUME ~alive
          PROVE  /\ \A t \in Threads : pc[t] = "user"
                 /\ pc["release"] = "gone" /\ pc["agent"] \in {"none", "gone"}
                 /\ ~fd /\ ~mapped
      BY <2>1 DEF LifeInv, FreeInv, ReleaseInv
    <2>2. QED
      BY <2>1 DEF NoUseAfterFree
  <1>2. QED
    BY <1>1, LifeHolds, PTL

\* START_AGENT creates an agent only where there was none, however many threads
\* call it at once: started decides between them.
THEOREM SingleAgent == Spec => OneAgent
  <1>1. LifeInv /\ [Next]_vars
          => [pc'["agent"] = "created" => pc["agent"] \in {"none", "created"}]_vars
    <2> SUFFICES ASSUME LifeInv, Next, pc'["agent"] = "created"
                 PROVE  pc["agent"] \in {"none", "created"}
      BY DEF vars
    <2> USE ThreadAssumption DEF Goto
    <2>1. Values /\ StartInv
      BY TypeParts DEF LifeInv, RefCount
    <2>2. ASSUME NEW t \in Threads, Alloc(t)
          PROVE  pc'["agent"] = pc["agent"]
      BY <2>1, <2>2 DEF Values, Actors, Alloc, AllocPages, AllocFails, AllocMap, LinkFirst,
                        LinkNext, LinkTail, Reply
    <2>3. ASSUME NEW t \in Threads, Start(t), pc["agent"] \notin {"none", "created"}
          PROVE  pc'["agent"] = pc["agent"]
      BY <2>1, <2>3 DEF Values, Actors, StartInv, Start, StartCheck, TryStart, Create,
                        CreateFails, GetRead, ReadRef, GetCas, Wake
    <2>4. ASSUME NEW t \in Threads,
                 Mmap(t) \/ Submit(t) \/ SwitchChannel(t) \/ Munmap(t) \/ Close(t)
          PROVE  pc'["agent"] = pc["agent"]
      BY <2>4 DEF Mmap, Submit, SwitchChannel, Munmap, Close
    <2>5. ASSUME NEW a \in {"agent", "release"}, Put(a)
          PROVE  pc'["agent"] = pc["agent"] \/ pc'["agent"] # "created"
      BY <2>1, <2>5 DEF Values, Actors, Put, PutRead, ReadRef, PutCas, FreeRegion, FreeState
    <2>6. ASSUME \/ Fput \/ ReleaseCheck \/ Terminate
                 \/ Serve \/ SwitchIdle \/ SwitchStore \/ LeaveLoop
          PROVE  pc'["agent"] = pc["agent"] \/ pc'["agent"] # "created"
      BY <2>1, <2>6 DEF Values, Actors, Fput, ReleaseCheck, Terminate, Serve, SwitchIdle,
                        SwitchStore, LeaveLoop
    <2>7. QED
      BY <2>2, <2>3, <2>4, <2>5, <2>6 DEF Next, UserStep, AgentStep, ReleaseStep
  <1>2. QED
    BY <1>1, LifeHolds, PTL DEF Spec, OneAgent

-----------------------------------------------------------------------------
(* The list of regions.                                                    *)

\* Of several threads only the allocating one is in ALLOC_MEMORY.
LEMMA Alone ==
    ASSUME SingleAllocator, LifeInv, NEW t \in Threads, pc[t] \in AllocPCs \/ t \in Allocators
    PROVE  \A s \in Threads : s # t => pc[s] \notin AllocPCs
  BY DEF SingleAllocator, LifeInv, HeadInv, AllocPCs, BuildPCs

\* A thread in the driver finds the list in place.
LEMMA InDriver ==
    ASSUME LifeInv, RegionInv, NEW t \in Threads, pc[t] # "user" \/ fd
    PROVE  /\ alive /\ ~Freeing /\ First = regions_head
           /\ ListInv /\ TailInv /\ AllocInv
  BY NotReleased DEF RegionInv, Freeing, First

\* A step that leaves the links of the listed regions alone leaves the list alone.
LEMMA SameList ==
    ASSUME ListInv, Linked \in SUBSET Regions, None \notin Regions,
           Linked' = Linked, First' = First, \A r \in Linked : next'[r] = next[r]
    PROVE  ListInv'
  <1>1. ASSUME NEW S \in SUBSET Regions, Closed(S)', First # None => First \in S
        PROVE  Linked \subseteq S
    <2>1. (S \cap Linked) \in SUBSET Regions
      OBVIOUS
    <2>2. Closed(S \cap Linked)
      BY <1>1 DEF Closed, ListInv
    <2>3. First # None => First \in S \cap Linked
      BY <1>1 DEF ListInv
    <2>4. QED
      BY <2>1, <2>2, <2>3 DEF ListInv, ReachesLinked
  <1>2. ReachesLinked(First)'
    BY <1>1 DEF ReachesLinked
  <1>3. QED
    BY <1>2 DEF ListInv

\* A step outside ALLOC_MEMORY and ch_state_free leaves the regions alone.
LEMMA RegionStay ==
    ASSUME LifeInv, RegionInv,
           UNCHANGED <<pages, next, regions_head, regions_tail, region, reported, alive>>,
           First' = First, Freeing => Freeing',
           \A t \in Threads : pc'[t] = pc[t] \/ (pc[t] \notin AllocPCs /\ pc'[t] \notin AllocPCs)
    PROVE  RegionInv'
  <1>1. Linked' = Linked
    BY DEF Linked, AllocPCs
  <1>2. Linked \in SUBSET Regions
    BY DEF Linked, LifeInv, RefCount, TypeOK
  <1>3. alive' => ListInv'
    BY <1>1, <1>2, SameList, ThreadAssumption DEF RegionInv
  <1>4. alive' /\ ~Freeing' => TailInv'
    BY <1>1 DEF RegionInv, TailInv, AllocPCs
  <1>5. AllocInv'
    BY DEF RegionInv, AllocInv, AllocPCs, BuildPCs
  <1>6. QED
    BY <1>3, <1>4, <1>5 DEF RegionInv

\* Appending a region after the last one.
LEMMA AppendList ==
    ASSUME ListInv, Linked \in SUBSET Regions, None \notin Regions, next \in [Regions -> Regions \cup {None}],
           NEW last \in Linked, next[last] = None,
           NEW r \in Regions, r \notin Linked, next[r] = None,
           Linked' = Linked \cup {r}, next' = [next EXCEPT ![last] = r],
           First # None, First' = First
    PROVE  ListInv'
  <1>1. \A q \in Linked : next'[q] = IF q = last THEN r ELSE next[q]
    OBVIOUS
  <1>2. next'[r] = None /\ r # None
    OBVIOUS
  <1>3. First \in Linked
    BY DEF ListInv
  <1>4. \A q \in Linked' : next'[q] # None => next'[q] \in Linked' /\ next'[q] # First'
    BY <1>1, <1>2, <1>3 DEF ListInv
  <1>5. \A p, q \in Linked' : (next'[p] = next'[q] /\ next'[p] # None) => p = q
    BY <1>1, <1>2 DEF ListInv
  <1>6. ASSUME NEW S \in SUBSET Regions, Closed(S)', First \in S
        PROVE  Linked \cup {r} \subseteq S
    <2>1. Closed(S \cap Linked)
      BY <1>1, <1>6 DEF Closed, ListInv
    <2>2. Linked \subseteq S
      BY <1>3, <1>6, <2>1 DEF ListInv, ReachesLinked
    <2>3. r \in S
      BY <1>1, <1>2, <1>6, <2>2 DEF Closed
    <2>4. QED
      BY <2>2, <2>3
  <1>7. ReachesLinked(First)'
    BY <1>6 DEF ReachesLinked
  <1>8. QED
    BY <1>3, <1>4, <1>5, <1>7 DEF ListInv

\* ALLOC_MEMORY of the only allocating thread preserves the list.
LEMMA AllocRegions ==
    ASSUME SingleAllocator, LifeInv, RegionInv, NEW t \in Threads, Alloc(t)
    PROVE  RegionInv'
  <1> USE ThreadAssumption DEF Goto, file, state, chans
  <1>1. Values /\ HeadInv
    BY TypeParts DEF LifeInv, RefCount
  <1>2. t \in Allocators /\ (pc[t] # "user" \/ fd)
    BY <1>1 DEF HeadInv, Alloc, AllocPages, AllocFails, AllocMap, LinkFirst, LinkNext,
                LinkTail, Reply
  <1>3. \A s \in Threads : s # t => pc[s] \notin AllocPCs
    BY <1>2, Alone
  <1>4. alive /\ ~Freeing /\ First = regions_head /\ ListInv /\ TailInv /\ AllocInv
    BY <1>2, InDriver
  <1>5. PICK to \in AllocPCs \cup {"user"} : pc' = [pc EXCEPT ![t] = to]
    BY DEF Alloc, AllocPages, AllocFails, AllocMap, LinkFirst, LinkNext, LinkTail, Reply,
           AllocPCs, BuildPCs
  <1>6. /\ \A s \in Threads : pc'[s] = IF s = t THEN to ELSE pc[s]
        /\ pc'["agent"] = pc["agent"] /\ pc'["release"] = pc["release"]
    BY <1>1, <1>5 DEF Values, Actors
  <1>7. alive' /\ ~Freeing' /\ First' = regions_head'
    BY <1>4, <1>6 DEF Freeing, First, Alloc, AllocPages, AllocFails, AllocMap, LinkFirst,
                      LinkNext, LinkTail, Reply
  <1>8. SUFFICES ListInv' /\ TailInv' /\ AllocInv'
    BY <1>7 DEF RegionInv
  <1>9. Linked = (IF pc[t] \in BuildPCs THEN pages \ {region[t]} ELSE pages)
    BY <1>3 DEF Linked, AllocPCs
  <1>10. Linked' = (IF to \in BuildPCs THEN pages' \ {region'[t]} ELSE pages')
    BY <1>3, <1>6 DEF Linked, AllocPCs
  <1>11. Linked \in SUBSET Regions
    BY <1>1, <1>9 DEF Values
  <1> USE <1>1, <1>3, <1>4, <1>6, <1>7, <1>9, <1>10
  <1>12. CASE AllocPages(t)
    <2>1. pc[t] = "user" /\ to = "alloc_map" /\ UNCHANGED <<next, regions_head, regions_tail, reported>>
      BY <1>5, <1>12 DEF AllocPages, Values, Actors
    <2>2. PICK r \in Regions \ pages : pages' = pages \cup {r} /\ region' = [region EXCEPT ![t] = r]
      BY <1>12 DEF AllocPages
    <2>3. Linked' = Linked
      BY <2>1, <2>2 DEF BuildPCs, Values
    <2>4. ListInv'
      BY <1>11, <2>1, <2>3, SameList
    <2>5. TailInv'
      BY <2>1, <2>3 DEF TailInv, AllocPCs
    <2>6. AllocInv'
      BY <2>1, <2>2 DEF AllocInv, AllocPCs, BuildPCs, Values
    <2>7. QED
      BY <2>4, <2>5, <2>6
  <1>13. CASE AllocFails(t)
    <2>1. /\ pc[t] = "alloc_map" /\ to = "user"
          /\ UNCHANGED <<next, regions_head, regions_tail, reported>>
          /\ pages' = pages \ {region[t]} /\ region' = [region EXCEPT ![t] = reported[t]]
      BY <1>5, <1>13 DEF AllocFails, Values, Actors
    <2>2. Linked' = Linked
      BY <2>1 DEF BuildPCs
    <2>3. ListInv'
      BY <1>11, <2>1, <2>2, SameList
    <2>4. TailInv'
      BY <2>1, <2>2 DEF TailInv, AllocPCs
    <2>5. AllocInv'
      BY <2>1 DEF AllocInv, AllocPCs, BuildPCs, Values
    <2>6. QED
      BY <2>3, <2>4, <2>5
  <1>14. CASE AllocMap(t)
    <2>1. /\ pc[t] = "alloc_map"
          /\ to = (IF regions_head = None THEN "link_first" ELSE "link_next")
          /\ UNCHANGED <<pages, region, regions_head, regions_tail, reported>>
          /\ next' = [next EXCEPT ![region[t]] = None]
      BY <1>5, <1>14 DEF AllocMap, Values, Actors
    <2>2. Linked' = Linked
      BY <2>1 DEF BuildPCs
    <2>3. region[t] \in pages /\ region[t] \in Regions
      BY <2>1 DEF AllocInv, AllocPCs, BuildPCs, Values
    <2>4. \A r \in Linked : next'[r] = next[r]
      BY <1>11, <2>1 DEF BuildPCs, Values
    <2>5. ListInv'
      BY <1>11, <2>1, <2>2, <2>4, SameList
    <2>6. TailInv'
      BY <2>1, <2>2, <2>4 DEF TailInv, AllocPCs
    <2>7. AllocInv'
      BY <2>1, <2>3 DEF AllocInv, AllocPCs, BuildPCs, Values
    <2>8. QED
      BY <2>5, <2>6, <2>7
  <1>15. CASE LinkFirst(t)
    <2>1. /\ pc[t] = "link_first" /\ to = "reply"
          /\ UNCHANGED <<pages, region, next, reported>>
          /\ regions_head' = region[t] /\ regions_tail' = region[t]
      BY <1>5, <1>15 DEF LinkFirst, Values, Actors
    <2>2. regions_head = None /\ next[region[t]] = None
          /\ region[t] \in pages /\ region[t] \in Regions
      BY <2>1 DEF AllocInv, AllocPCs, BuildPCs, Values
    <2>3. Linked = {}
      <3>1. {} \in SUBSET Regions /\ Closed({})
        BY DEF Closed
      <3>2. QED
        BY <2>2, <3>1 DEF ListInv, ReachesLinked
    <2>4. Linked' = {region[t]}
      BY <2>1, <2>2, <2>3 DEF BuildPCs
    <2>5. ListInv'
      BY <2>1, <2>2, <2>4 DEF ListInv, ReachesLinked
    <2>6. TailInv'
      BY <2>1, <2>2, <2>4 DEF TailInv, AllocPCs
    <2>7. AllocInv'
      BY <2>1, <2>2 DEF AllocInv, AllocPCs, BuildPCs
    <2>8. QED
      BY <2>5, <2>6, <2>7
  <1>16. CASE LinkNext(t)
    <2>1. /\ pc[t] = "link_next" /\ to = "link_tail"
          /\ UNCHANGED <<pages, region, regions_head, regions_tail, reported>>
          /\ next' = [next EXCEPT ![regions_tail] = region[t]]
      BY <1>5, <1>16 DEF LinkNext, Values, Actors
    <2>2. next[region[t]] = None /\ region[t] \in pages /\ region[t] \in Regions
      BY <2>1 DEF AllocInv, AllocPCs, BuildPCs, Values
    <2>3. regions_head # None /\ regions_tail \in Linked /\ next[regions_tail] = None
      BY <2>1 DEF HeadInv, TailInv, AllocPCs
    <2>4. region[t] \notin Linked /\ Linked' = Linked \cup {region[t]}
      BY <2>1, <2>2 DEF BuildPCs
    <2>5. ListInv'
      BY <1>11, <2>1, <2>2, <2>3, <2>4, AppendList DEF Values
    <2>6. next'[regions_tail] = region[t] /\ next'[region[t]] = None
      BY <1>11, <2>1, <2>2, <2>3, <2>4 DEF Values
    <2>7. TailInv'
      BY <2>1, <2>3, <2>4, <2>6 DEF TailInv, AllocPCs
    <2>8. AllocInv'
      BY <2>1, <2>2, <2>6 DEF AllocInv, AllocPCs, BuildPCs
    <2>9. QED
      BY <2>5, <2>7, <2>8
  <1>17. CASE LinkTail(t)
    <2>1. /\ pc[t] = "link_tail" /\ to = "reply"
          /\ UNCHANGED <<pages, region, next, regions_head, reported>>
          /\ regions_tail' = region[t]
      BY <1>5, <1>17 DEF LinkTail, Values, Actors
    <2>2. next[region[t]] = None /\ region[t] \in pages
      BY <2>1 DEF AllocInv, AllocPCs
    <2>3. Linked' = Linked
      BY <2>1 DEF BuildPCs
    <2>4. ListInv'
      BY <1>11, <2>1, <2>3, SameList
    <2>5. TailInv'
      BY <2>1, <2>2, <2>3 DEF TailInv, AllocPCs, BuildPCs
    <2>6. AllocInv'
      BY <2>1, <2>2 DEF AllocInv, AllocPCs, BuildPCs
    <2>7. QED
      BY <2>4, <2>5, <2>6
  <1>18. CASE Reply(t)
    <2>1. /\ pc[t] = "reply" /\ to = "user"
          /\ UNCHANGED <<pages, region, next, regions_head, regions_tail>>
          /\ reported' = [reported EXCEPT ![t] = regions_tail]
      BY <1>5, <1>18 DEF Reply, Values, Actors
    <2>2. Linked' = Linked
      BY <2>1 DEF BuildPCs
    <2>3. ListInv'
      BY <1>11, <2>1, <2>2, SameList
    <2>4. TailInv'
      BY <2>1, <2>2 DEF TailInv, AllocPCs
    <2>5. AllocInv'
      BY <2>1 DEF AllocInv, AllocPCs, BuildPCs, Values
    <2>6. QED
      BY <2>3, <2>4, <2>5
  <1>19. QED
    BY <1>12, <1>13, <1>14, <1>15, <1>16, <1>17, <1>18 DEF Alloc

\* Who walks the list is alone with it: the threads are gone, so every allocated
\* region is linked.
LEMMA InFree ==
    ASSUME LifeInv, RegionInv, NEW a \in {"agent", "release"}, pc[a] = "free"
    PROVE  /\ alive /\ Freeing /\ First = it /\ Linked = pages /\ ListInv /\ AllocInv
           /\ \A t \in Threads : pc[t] = "user"
           /\ \A b \in {"agent", "release"} : b # a => pc[b] \in {"none", "gone"}
           /\ ref_counter = 0
  <1>1. /\ alive /\ Freeing /\ pc["release"] # "none"
        /\ \A b \in {"agent", "release"} : b # a => pc[b] \in {"none", "gone"}
    BY DEF LifeInv, FreeInv, Freeing
  <1>2. \A t \in Threads : pc[t] = "user"
    BY <1>1 DEF LifeInv, ReleaseInv
  <1>3. Linked = pages
    BY <1>2 DEF Linked, BuildPCs
  <1>4. ~FileHolds /\ ~AgentHolds
    BY <1>1, <1>2 DEF FileHolds, AgentHolds
  <1>5. ref_counter = 0
    BY <1>4 DEF LifeInv, RefCount
  <1>6. QED
    BY <1>1, <1>2, <1>3, <1>5 DEF RegionInv, First

\* ch_state_put and ch_state_free preserve the list: each region met is allocated
\* and is freed once, and the walk ends when no region is left.
LEMMA PutRegions ==
    ASSUME LifeInv, RegionInv, NEW a \in {"agent", "release"}, Put(a)
    PROVE  RegionInv'
  <1> USE ThreadAssumption DEF Goto, file, state, chans
  <1>1. Values /\ FreeInv
    BY TypeParts DEF LifeInv, RefCount
  <1>2. a \in Actors /\ a \notin Threads
    BY DEF Actors
  <1>3. CASE PutRead(a)
    <2>1. /\ \A b \in Actors : pc'[b] = IF b = a THEN "put_cas" ELSE pc[b]
          /\ pc[a] = "put"
          /\ UNCHANGED <<pages, next, regions_head, regions_tail, region, reported, alive, it>>
      BY <1>1, <1>2, <1>3 DEF PutRead, ReadRef, Values
    <2>2. (Freeing' <=> Freeing) /\ First' = First
      BY <1>2, <2>1 DEF Freeing, First, Actors
    <2>3. \A t \in Threads : pc'[t] = pc[t]
      BY <1>2, <2>1 DEF Actors
    <2>4. QED
      BY <2>1, <2>2, <2>3, RegionStay
  <1>4. CASE PutCas(a)
    <2>1. PICK to \in {"put", "free", "gone"} :
            /\ pc' = [pc EXCEPT ![a] = to]
            /\ it' = IF to = "free" THEN regions_head ELSE it
      BY <1>1, <1>4 DEF PutCas, Values
    <2>2. /\ \A b \in Actors : pc'[b] = IF b = a THEN to ELSE pc[b]
          /\ pc[a] = "put_cas"
          /\ UNCHANGED <<pages, next, regions_head, regions_tail, region, reported, alive>>
      BY <1>1, <1>2, <1>4, <2>1 DEF PutCas, Values
    <2>3. ~Freeing
      BY <1>1, <2>2 DEF Freeing, FreeInv
    <2>4. First' = First
      BY <1>2, <2>1, <2>2, <2>3 DEF Freeing, First, Actors
    <2>5. \A t \in Threads : pc'[t] = pc[t]
      BY <1>2, <2>2 DEF Actors
    <2>6. QED
      BY <2>2, <2>3, <2>4, <2>5, RegionStay
  <1>5. CASE FreeRegion(a)
    <2>1. /\ alive /\ Freeing /\ First = it /\ Linked = pages /\ ListInv /\ AllocInv
          /\ \A t \in Threads : pc[t] = "user"
      BY <1>5, InFree DEF FreeRegion
    <2>2. /\ it \in pages /\ pages' = pages \ {it} /\ it' = next[it]
          /\ UNCHANGED <<pc, next, region, reported, alive, regions_head, regions_tail>>
      BY <1>5, <2>1 DEF FreeRegion, ListInv
    <2>3. Freeing' /\ First' = next[it] /\ Linked' = pages \ {it}
      BY <2>1, <2>2 DEF Freeing, First, Linked, BuildPCs
    <2>4. \A r \in Linked : next[r] # None => next[r] \in Linked /\ next[r] # it
      BY <2>1 DEF ListInv
    <2>5. ASSUME NEW S \in SUBSET Regions, Closed(S), next[it] # None => next[it] \in S
          PROVE  Linked \ {it} \subseteq S
      <3>1. (S \cup {it}) \in SUBSET Regions /\ Closed(S \cup {it})
        BY <1>1, <2>2, <2>5 DEF Closed, Values
      <3>2. QED
        BY <2>1, <3>1 DEF ListInv, ReachesLinked
    <2>6. ReachesLinked(First)'
      BY <2>1, <2>2, <2>3, <2>5 DEF ReachesLinked, Closed
    <2>7. ListInv'
      BY <2>1, <2>2, <2>3, <2>4, <2>6 DEF ListInv
    <2>8. AllocInv'
      BY <2>1, <2>2 DEF AllocInv, AllocPCs, BuildPCs
    <2>9. QED
      BY <2>1, <2>2, <2>3, <2>7, <2>8 DEF RegionInv
  <1>6. CASE FreeState(a)
    <2>1. /\ First = it /\ Linked = pages /\ ListInv /\ AllocInv
          /\ \A t \in Threads : pc[t] = "user"
      BY <1>6, InFree DEF FreeState
    <2>2. it = None /\ alive' = FALSE /\ UNCHANGED <<pages, region, reported>>
      BY <1>6 DEF FreeState
    <2>3. pages = {}
      <3>1. {} \in SUBSET Regions /\ Closed({})
        BY DEF Closed
      <3>2. QED
        BY <2>1, <2>2, <3>1 DEF ListInv, ReachesLinked
    <2>4. \A t \in Threads : pc'[t] = "user"
      BY <1>1, <1>2, <1>6, <2>1 DEF FreeState, Values, Actors
    <2>5. AllocInv'
      BY <2>1, <2>2, <2>4 DEF AllocInv, AllocPCs, BuildPCs
    <2>6. QED
      BY <2>2, <2>3, <2>5 DEF RegionInv
  <1>7. QED
    BY <1>3, <1>4, <1>5, <1>6 DEF Put

\* The other operations do not touch the regions.
LEMMA OtherRegions ==
    ASSUME LifeInv, RegionInv,
           \/ \E t \in Threads : \/ Start(t) \/ Mmap(t) \/ Submit(t) \/ SwitchChannel(t)
                                 \/ Munmap(t) \/ Close(t)
           \/ Fput \/ ReleaseCheck \/ Terminate
           \/ Serve \/ SwitchIdle \/ SwitchStore \/ LeaveLoop
           \/ UNCHANGED vars
    PROVE  RegionInv'
  <1> USE ThreadAssumption DEF Goto, file, state, chans
  <1>1. Values /\ FreeInv
    BY TypeParts DEF LifeInv, RefCount
  <1>2. ASSUME NEW t \in Threads, Start(t)
        PROVE  RegionInv'
    <2>1. /\ UNCHANGED <<pages, next, regions_head, regions_tail, region, reported, alive, it>>
          /\ pc[t] \notin AllocPCs /\ (pc[t] # "user" \/ fd)
      BY <1>2 DEF Start, StartCheck, TryStart, Create, CreateFails, GetRead, ReadRef, GetCas,
                  Wake, AllocPCs, BuildPCs
    <2>2. PICK to \in {"user", "try_start", "create", "oops", "get", "get_cas", "wake"},
               agent \in {pc["agent"], "created", "loop"} :
            pc' = [pc EXCEPT ![t] = to, !["agent"] = agent]
      <3>1. pc["agent"] = [pc EXCEPT ![t] = "x"]["agent"] /\ pc \in [Actors -> ThreadPCs \cup KernelPCs]
        BY <1>1 DEF Values, Actors
      <3>2. \A to \in {"user", "try_start", "create", "oops", "get", "get_cas", "wake"} :
              pc' = [pc EXCEPT ![t] = to] => pc' = [pc EXCEPT ![t] = to, !["agent"] = pc["agent"]]
        BY <3>1 DEF Actors
      <3>3. QED
        BY <1>2, <3>2 DEF Start, StartCheck, TryStart, Create, CreateFails, GetRead, ReadRef,
                          GetCas, Wake
    <2>3. /\ \A s \in Threads : pc'[s] = IF s = t THEN to ELSE pc[s]
          /\ pc'["agent"] = agent /\ pc'["release"] = pc["release"]
      BY <1>1, <2>2 DEF Values, Actors
    <2>4. ~Freeing /\ ~Freeing'
      BY <2>1, <2>3, NotReleased DEF Freeing
    <2>5. First' = First /\ to \notin AllocPCs
      BY <2>1, <2>4 DEF First, AllocPCs, BuildPCs
    <2>6. QED
      BY <2>1, <2>3, <2>4, <2>5, RegionStay
  <1>3. CASE \/ UNCHANGED vars \/ Serve
             \/ \E t \in Threads : \/ Mmap(t) \/ Submit(t) \/ SwitchChannel(t)
                                   \/ Munmap(t) \/ Close(t)
    <2>1. UNCHANGED <<pc, pages, next, regions_head, regions_tail, region, reported, alive, it>>
      BY <1>3 DEF vars, Serve, Mmap, Submit, SwitchChannel, Munmap, Close
    <2>2. First' = First /\ (Freeing' <=> Freeing)
      BY <2>1 DEF First, Freeing
    <2>3. QED
      BY <2>1, <2>2, RegionStay
  <1>4. CASE Fput \/ ReleaseCheck \/ Terminate \/ SwitchIdle \/ SwitchStore \/ LeaveLoop
    <2>1. UNCHANGED <<pages, next, regions_head, regions_tail, region, reported, alive, it>>
      BY <1>4 DEF Fput, ReleaseCheck, Terminate, SwitchIdle, SwitchStore, LeaveLoop
    <2>2. PICK a \in {"agent", "release"},
               to \in {"check", "terminate", "put", "loop", "switch"} :
            pc[a] # "free" /\ pc' = [pc EXCEPT ![a] = to]
      BY <1>4 DEF Fput, ReleaseCheck, Terminate, SwitchIdle, SwitchStore, LeaveLoop
    <2>3. (\A t \in Threads : pc'[t] = pc[t]) /\ (Freeing' <=> Freeing)
      BY <1>1, <2>2 DEF Values, Actors, Freeing
    <2>4. First' = First
      BY <2>1, <2>3 DEF First
    <2>5. QED
      BY <2>1, <2>3, <2>4, RegionStay
  <1>5. QED
    BY <1>2, <1>3, <1>4

\* The invariant of the regions, for a client with one allocating thread.
LEMMA RegionsHold ==
    ASSUME SingleAllocator
    PROVE  Spec => [](LifeInv /\ RegionInv)
  <1>1. Init => RegionInv
    <2> SUFFICES ASSUME Init PROVE RegionInv
      OBVIOUS
    <2> USE ThreadAssumption
    <2>1. /\ \A t \in Threads : pc[t] = "user" /\ reported[t] = region[t]
          /\ pc["agent"] = "none" /\ pc["release"] = "none"
          /\ pages = {} /\ regions_head = None /\ regions_tail = None /\ alive
      BY DEF Init, Actors
    <2>2. First = None /\ Linked = {}
      BY <2>1 DEF First, Freeing, Linked
    <2>3. ListInv /\ TailInv /\ AllocInv
      BY <2>1, <2>2 DEF ListInv, ReachesLinked, TailInv, AllocInv, AllocPCs, BuildPCs
    <2>4. QED
      BY <2>1, <2>3 DEF RegionInv
  <1>2. LifeInv /\ RegionInv /\ [Next]_vars => RegionInv'
    BY AllocRegions, PutRegions, OtherRegions DEF Next, UserStep, AgentStep, ReleaseStep
  <1>3. QED
    BY <1>1, <1>2, LifeInit, LifeStep, PTL DEF Spec

\* With one allocating thread, freeing the state frees every region exactly once:
\* one actor walks the list when nobody holds the state, meets allocated regions
\* only, and has met all of them when it reaches the end.
THEOREM RegionsFreed ==
    ASSUME SingleAllocator
    PROVE  Spec => []AllRegionsFreed
  <1>1. LifeInv /\ RegionInv => AllRegionsFreed
    <2> SUFFICES ASSUME LifeInv, RegionInv PROVE AllRegionsFreed
      OBVIOUS
    <2>1. ~alive => pages = {}
      BY DEF RegionInv
    <2>2. ASSUME NEW a \in {"agent", "release"}, pc[a] = "free"
          PROVE  /\ \A b \in {"agent", "release"} : b # a => pc[b] \in {"none", "gone"}
                 /\ ref_counter = 0 /\ (it # None => it \in pages)
      BY <2>2, InFree DEF ListInv
    <2>3. QED
      BY <2>1, <2>2 DEF AllRegionsFreed
  <1>2. QED
    BY <1>1, RegionsHold, PTL

\* With one allocating thread, ALLOC_MEMORY answers with the region that this call
\* allocated, although the answer is taken from the tail of the shared list.
THEOREM OwnReply ==
    ASSUME SingleAllocator
    PROVE  Spec => []ReplyIsOwn
  <1>1. LifeInv /\ RegionInv => ReplyIsOwn
    BY DEF RegionInv, AllocInv, ReplyIsOwn, AllocPCs, BuildPCs
  <1>2. QED
    BY <1>1, RegionsHold, PTL
=============================================================================
