------------------------------- MODULE SdfPool -------------------------------
(***************************************************************************)
(* Sdf_Pool, the allocator of path nodes.  Elements are named by 32 bits,  *)
(* a region and an index in it.  A thread allocates from its own free list *)
(* and its own span without synchronization, then from the free lists that *)
(* threads share, and at last reserves a new span with a compare and swap  *)
(* of the pool's state.  Whoever takes the last span of a region keeps the *)
(* state locked until there is a new region.                               *)
(*                                                                         *)
(* Free lists are sets, since their order matters to nobody.  What a       *)
(* thread leaves behind when it ends is left out.                          *)
(***************************************************************************)
EXTENDS Naturals, FiniteSets

CONSTANTS
  Threads,
  NumRegions,    \* 1 << RegionBits
  MaxIndex,      \* ElemsPerRegion - 1
  ElemsPerSpan,
  MaxRegions,    \* how many regions a behavior fills, a bound
  MaxUsed        \* how many elements are in use at once, a bound

(* Spans do not end exactly at the end of a region: 16384 does not divide  *)
(* 2^24 - 2, and then no span is empty.                                    *)
ASSUME PoolAssumption ==
  /\ IsFiniteSet(Threads) /\ Threads # {}
  /\ NumRegions \in Nat /\ NumRegions > 1
  /\ MaxIndex \in Nat /\ ElemsPerSpan \in Nat
  /\ ElemsPerSpan > 0 /\ MaxIndex > 1
  /\ \A k \in 0..MaxIndex : 1 + k * ElemsPerSpan # MaxIndex
  /\ MaxRegions \in 1..NumRegions
  /\ MaxUsed \in Nat

VARIABLES
  regionState,   \* _regionState
  regionStarts,  \* the regions that have storage in _regionStarts
  shared,        \* _sharedFreeLists
  free, span,    \* each thread's free list and span
  pc, seen,      \* where each thread is, and its copy of the state
  used           \* the elements that clients have

vars == <<regionState, regionStarts, shared, free, span, pc, seen, used>>

Regions == 0 .. NumRegions - 1
Handles == Regions \X (0..MaxIndex)
States  == [region : Regions, index : 0..MaxIndex]
Spans   == [region : Regions, begin : 0..MaxIndex, end : 0..MaxIndex]

InitState   == [region |-> 0, index |-> 0]
LockedState == [region |-> NumRegions - 1, index |-> MaxIndex]   \* all ones

(* _RegionState(region, 1): the low bits have no room for NumRegions, and  *)
(* its one bit coincides with that of the index.                           *)
FirstState(region) == [region |-> region % NumRegions, index |-> 1]

Labels == {"idle", "load", "init", "firstRegion", "firstUnlock",
           "reserve", "nextRegion", "nextUnlock"}

NoSpan == [region |-> 0, begin |-> 0, end |-> 0]

TypeOK ==
  /\ regionState \in States
  /\ regionStarts \subseteq 1..NumRegions
  /\ shared \in SUBSET SUBSET Handles
  /\ free \in [Threads -> SUBSET Handles]
  /\ span \in [Threads -> Spans]
  /\ pc \in [Threads -> Labels]
  /\ seen \in [Threads -> States]
  /\ used \subseteq Handles

Init ==
  /\ regionState = InitState
  /\ regionStarts = {}
  /\ shared = {}
  /\ free = [t \in Threads |-> {}]
  /\ span = [t \in Threads |-> NoSpan]
  /\ pc = [t \in Threads |-> "idle"]
  /\ seen = [t \in Threads |-> InitState]
  /\ used = {}

-----------------------------------------------------------------------------
(* Allocate and Free.                                                      *)

Allocating == {t \in Threads : pc[t] # "idle"}

(* Clients keep to the bound.                                              *)
MayAllocate(t) ==
  /\ pc[t] = "idle"
  /\ Cardinality(used) + Cardinality(Allocating) < MaxUsed

IsEmpty(s) == s.begin = s.end

PopFree(t) ==
  /\ MayAllocate(t)
  /\ \E h \in free[t] :
       /\ free' = [free EXCEPT ![t] = @ \ {h}]
       /\ used' = used \cup {h}
  /\ UNCHANGED <<regionState, regionStarts, shared, span, pc, seen>>

AllocFromSpan(t) ==
  /\ MayAllocate(t)
  /\ free[t] = {}
  /\ ~IsEmpty(span[t])
  /\ used' = used \cup {<<span[t].region, span[t].begin>>}
  /\ span' = [span EXCEPT ![t].begin = @ + 1]
  /\ UNCHANGED <<regionState, regionStarts, shared, free, pc, seen>>

(* Mutant: the list is used, but stays for others to take.                 *)
TakeCopyOfShared(t) ==
  /\ MayAllocate(t)
  /\ free[t] = {} /\ IsEmpty(span[t])
  /\ \E list \in shared : \E h \in list :
       /\ free' = [free EXCEPT ![t] = list \ {h}]
       /\ used' = used \cup {h}
  /\ UNCHANGED <<regionState, regionStarts, shared, span, pc, seen>>

TakeSharedFreeList(t) ==
  /\ MayAllocate(t)
  /\ free[t] = {} /\ IsEmpty(span[t])
  /\ \E list \in shared : \E h \in list :
       /\ shared' = shared \ {list}
       /\ free' = [free EXCEPT ![t] = list \ {h}]
       /\ used' = used \cup {h}
  /\ UNCHANGED <<regionState, regionStarts, span, pc, seen>>

(* Mutant: shared free lists are not looked for.                           *)
StartReserveAtOnce(t) ==
  /\ MayAllocate(t)
  /\ free[t] = {} /\ IsEmpty(span[t])
  /\ pc' = [pc EXCEPT ![t] = "load"]
  /\ UNCHANGED <<regionState, regionStarts, shared, free, span, seen, used>>

StartReserve(t) ==
  /\ MayAllocate(t)
  /\ free[t] = {} /\ IsEmpty(span[t])
  /\ shared = {}
  /\ pc' = [pc EXCEPT ![t] = "load"]
  /\ UNCHANGED <<regionState, regionStarts, shared, free, span, seen, used>>

(* Mutant: the list is emptied and not shared.                             *)
FreeDroppingList(t) ==
  /\ pc[t] = "idle"
  /\ \E h \in used :
       LET list == free[t] \cup {h}
       IN  /\ used' = used \ {h}
           /\ free' = [free EXCEPT ![t] =
                         IF Cardinality(list) < ElemsPerSpan THEN list ELSE {}]
  /\ UNCHANGED <<regionState, regionStarts, shared, span, pc, seen>>

(* Free: a list that has grown to a span's size is shared.                 *)
Free(t) ==
  /\ pc[t] = "idle"
  /\ \E h \in used :
       LET list == free[t] \cup {h}
       IN  /\ used' = used \ {h}
           /\ IF Cardinality(list) < ElemsPerSpan
                THEN free' = [free EXCEPT ![t] = list] /\ UNCHANGED shared
                ELSE free' = [free EXCEPT ![t] = {}] /\ shared' = shared \cup {list}
  /\ UNCHANGED <<regionState, regionStarts, span, pc, seen>>

-----------------------------------------------------------------------------
(* _ReserveSpan.                                                           *)

Goto(t, label) == pc' = [pc EXCEPT ![t] = label]

Load(t) ==
  /\ pc[t] = "load"
  /\ seen' = [seen EXCEPT ![t] = regionState]
  /\ Goto(t, IF regionState = InitState THEN "init" ELSE "reserve")
  /\ UNCHANGED <<regionState, regionStarts, shared, free, span, used>>

(* The first thread locks the state to create the first region.            *)
LockToInit(t) ==
  /\ pc[t] = "init"
  /\ IF regionState = InitState
       THEN /\ regionState' = LockedState
            /\ Goto(t, "firstRegion")
            /\ UNCHANGED seen
       ELSE /\ seen' = [seen EXCEPT ![t] = regionState]
            /\ Goto(t, "reserve")
            /\ UNCHANGED regionState
  /\ UNCHANGED <<regionStarts, shared, free, span, used>>

CreateFirstRegion(t) ==
  /\ pc[t] = "firstRegion"
  /\ regionStarts' = regionStarts \cup {1}
  /\ Goto(t, "firstUnlock")
  /\ UNCHANGED <<regionState, shared, free, span, seen, used>>

FirstUnlock(t) ==
  /\ pc[t] = "firstUnlock"
  /\ regionState' = FirstState(1)
  /\ seen' = [seen EXCEPT ![t] = FirstState(1)]
  /\ Goto(t, "reserve")
  /\ UNCHANGED <<regionStarts, shared, free, span, used>>

(* Spinning until the state is not locked.                                 *)
Unlocked(t) ==
  /\ pc[t] = "reserve"
  /\ seen[t] = LockedState
  /\ regionState # LockedState
  /\ seen' = [seen EXCEPT ![t] = regionState]
  /\ UNCHANGED <<regionState, regionStarts, shared, free, span, pc, used>>

(* _RegionState::Reserve                                                   *)
Reserve(s) ==
  IF MaxIndex - s.index + 1 <= ElemsPerSpan THEN LockedState
    ELSE [region |-> s.region, index |-> s.index + ElemsPerSpan]

(* The thread has the space between what it saw and the new state, and     *)
(* allocates the first element of it.  Its copy of the state is forgotten. *)
TakeSpan(t, newState) ==
  LET s == seen[t]
      end == IF newState.region = s.region THEN newState.index ELSE MaxIndex
  IN  /\ span' = [span EXCEPT ![t] =
                    [region |-> s.region, begin |-> s.index + 1, end |-> end]]
      /\ used' = used \cup {<<s.region, s.index>>}
      /\ seen' = [seen EXCEPT ![t] = InitState]
      /\ Goto(t, "idle")

(* compare_exchange_weak: the state is as it was seen, ...                 *)
ReserveSpan(t) ==
  /\ pc[t] = "reserve"
  /\ seen[t] # LockedState
  /\ regionState = seen[t]
  /\ regionState' = Reserve(seen[t])
  /\ IF Reserve(seen[t]) # LockedState THEN TakeSpan(t, Reserve(seen[t]))
       ELSE /\ seen[t].region < MaxRegions
            /\ Goto(t, "nextRegion")
            /\ UNCHANGED <<span, seen, used>>
  /\ UNCHANGED <<regionStarts, shared, free>>

(* Mutant: the failed exchange does not update what was seen.              *)
SeeNothing(t) ==
  /\ pc[t] = "reserve"
  /\ seen[t] # LockedState
  /\ regionState # seen[t]
  /\ UNCHANGED vars

(* ... or it is not.                                                       *)
SeeOtherState(t) ==
  /\ pc[t] = "reserve"
  /\ seen[t] # LockedState
  /\ regionState # seen[t]
  /\ seen' = [seen EXCEPT ![t] = regionState]
  /\ UNCHANGED <<regionState, regionStarts, shared, free, span, pc, used>>

(* Mutant: the state is unlocked before there is storage.                  *)
NextUnlockFirst(t) ==
  /\ pc[t] = "nextRegion"
  /\ regionState' = FirstState(seen[t].region + 1)
  /\ TakeSpan(t, regionState')
  /\ UNCHANGED <<regionStarts, shared, free>>

(* Out of regions if newRegion > NumRegions, which never holds since what  *)
(* was seen is less than NumRegions.                                       *)
CreateNextRegion(t) ==
  /\ pc[t] = "nextRegion"
  /\ seen[t].region + 1 <= NumRegions
  /\ regionStarts' = regionStarts \cup {seen[t].region + 1}
  /\ Goto(t, "nextUnlock")
  /\ UNCHANGED <<regionState, shared, free, span, seen, used>>

NextUnlock(t) ==
  /\ pc[t] = "nextUnlock"
  /\ regionState' = FirstState(seen[t].region + 1)
  /\ TakeSpan(t, FirstState(seen[t].region + 1))
  /\ UNCHANGED <<regionStarts, shared, free>>

-----------------------------------------------------------------------------
Reserving(t) ==
  \/ Load(t) \/ LockToInit(t) \/ CreateFirstRegion(t) \/ FirstUnlock(t)
  \/ Unlocked(t) \/ ReserveSpan(t) \/ SeeOtherState(t)
  \/ CreateNextRegion(t) \/ NextUnlock(t)

Next == \E t \in Threads :
  \/ PopFree(t) \/ AllocFromSpan(t) \/ TakeSharedFreeList(t) \/ StartReserve(t)
  \/ Free(t)
  \/ Reserving(t)

Spec == Init /\ [][Next]_vars

(* Threads that reserve a span are scheduled.                              *)
FairSpec == Spec /\ \A t \in Threads : WF_vars(Reserving(t))

-----------------------------------------------------------------------------
(* What a thread has that is not free: its span, and the rest of a region  *)
(* it has taken and not yet made its span.                                 *)
Elements(region, begin, end) ==
  {h \in Handles : h[1] = region /\ begin <= h[2] /\ h[2] < end}

Extending(t) == pc[t] \in {"nextRegion", "nextUnlock"}

Rest(t) ==
  IF Extending(t) THEN Elements(seen[t].region, seen[t].index, MaxIndex)
    ELSE Elements(span[t].region, span[t].begin, span[t].end)

Local(t) == free[t] \cup Rest(t)

(* No element is in two places: in use, with a thread or in a shared list. *)
(* So none is allocated twice, although threads allocate without looking   *)
(* at each other, and any thread frees what any other has allocated.       *)
OneOwner ==
  /\ \A t \in Threads : free[t] \cap Rest(t) = {} /\ used \cap Local(t) = {}
  /\ \A t, u \in Threads : t # u => Local(t) \cap Local(u) = {}
  /\ \A list \in shared :
       /\ list \cap used = {}
       /\ \A t \in Threads : list \cap Local(t) = {}
       /\ \A other \in shared : list # other => list \cap other = {}

Owned == used \cup (UNION shared) \cup (UNION {Local(t) : t \in Threads})

(* What has been reserved so far.                                          *)
Behind(s, h) == h[1] < s.region \/ (h[1] = s.region /\ h[2] < s.index)

Creating(t) == pc[t] \in {"firstRegion", "firstUnlock", "nextRegion", "nextUnlock"}

IsReserved(h) ==
  IF regionState = LockedState
    THEN \E t \in Threads : Creating(t) /\ h[1] <= seen[t].region
    ELSE Behind(regionState, h)

Reserved == {h \in Handles : h[1] > 0 /\ h[2] > 0 /\ h[2] < MaxIndex /\ IsReserved(h)}

(* No element gets lost, neither between threads that reserve spans nor at *)
(* the end of a region.                                                    *)
NothingLost == Owned = Reserved

(* There is storage for every element before anyone gets it.               *)
HaveStorage == \A h \in Owned : h[1] \in regionStarts

(* What is freed is allocated again, by whichever thread: the pool takes   *)
(* no more space than is in use, what other threads may keep for           *)
(* themselves and a span.                                                  *)
MostReserved ==
  MaxUsed - 1 + (Cardinality(Threads) - 1) * (2 * ElemsPerSpan - 2) + ElemsPerSpan

GrowthBounded == Cardinality(Reserved) <= MostReserved

(* Why: a thread reserves a span when it has nothing left and nobody       *)
(* shares anything; others may share something before it does, but that    *)
(* was counted, as are the spans of all that are about to reserve one.     *)
Pending == {t \in Threads : pc[t] # "idle" /\ ~Extending(t)}

LocalIsSmall ==
  /\ \A list \in shared : Cardinality(list) <= ElemsPerSpan
  /\ \A t \in Threads :
       /\ Cardinality(free[t]) < ElemsPerSpan
       /\ span[t].end < span[t].begin + ElemsPerSpan
       /\ Extending(t) => MaxIndex < seen[t].index + ElemsPerSpan

SpansAreCounted ==
  Cardinality(Reserved) + ElemsPerSpan * Cardinality(Pending) <= MostReserved

Growth ==
  /\ LocalIsSmall
  /\ Cardinality(used) + Cardinality(Allocating) <= MaxUsed
  /\ SpansAreCounted

(* Allocations end: the state does not stay locked, and a thread that      *)
(* others overtake gets a span in the end.                                 *)
AllocationEnds == \A t \in Threads : pc[t] # "idle" ~> pc[t] = "idle"

(* "Allocate the next region, or die if out of regions": a region that     *)
(* spans are reserved from is one of the pool's, with storage.             *)
RegionsExist ==
  regionState \notin {InitState, LockedState} => regionState.region \in regionStarts
=============================================================================
