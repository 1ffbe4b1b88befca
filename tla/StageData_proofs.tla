--------------------------- MODULE StageData_proofs ---------------------------
(***************************************************************************)
(* Proofs about the pool of path nodes, list ops and population masks.     *)
(*                                                                         *)
(* SdfPool: elements have one owner, none is lost, each has storage, and   *)
(* the pool grows no more than is asked of it, for any number of threads   *)
(* and any sizes, as long as the pool has a region left to extend to.      *)
(*                                                                         *)
(* SdfListOp: composing list ops composes what they do, for any items.     *)
(*                                                                         *)
(* UsdStagePopulationMask: masks are sorted vectors of paths apart from    *)
(* each other, uniting and intersecting them does so to what they include, *)
(* and queries answer for what they include, for any paths.                *)
(***************************************************************************)
EXTENDS StageData, FiniteSetTheorems, FunctionTheorems, SequenceTheorems,
        WellFoundedInduction, TLAPS

(* A state that spans are reserved from.  Spans start at multiples of      *)
(* their size, so the last index of a region is never reached.             *)
Aligned(index) == \E k \in 0..MaxIndex : index = 1 + k * ElemsPerSpan

Open(s) ==
  /\ s.region \in 1..MaxRegions
  /\ s.index \in 1 .. MaxIndex - 1
  /\ Aligned(s.index)

(* The state is locked exactly while one thread creates a region.          *)
OneCreator ==
  /\ regionState = LockedState <=> \E t \in Threads : Creating(t)
  /\ \A t, u \in Threads : Creating(t) /\ Creating(u) => t = u

StateIsOpen == regionState \in {InitState, LockedState} \/ Open(regionState)

(* What threads have while they reserve a span.                            *)
Allocators ==
  \A t \in Threads :
    /\ span[t].begin <= span[t].end
    /\ pc[t] # "idle" => free[t] = {} /\ IsEmpty(span[t])
    /\ pc[t] = "reserve" => regionState # InitState
    /\ pc[t] \in {"init", "firstRegion", "firstUnlock"} => seen[t] = InitState
    /\ Extending(t) => Open(seen[t]) /\ seen[t].region < MaxRegions

(* The last region that may have elements in use.                          *)
Storage ==
  /\ Open(regionState) => 1..regionState.region \subseteq regionStarts
  /\ \A t \in Threads :
       /\ Extending(t) => 1..seen[t].region \subseteq regionStarts
       /\ pc[t] = "firstUnlock" => 1 \in regionStarts
       /\ pc[t] = "nextUnlock" => seen[t].region + 1 \in regionStarts

Control == OneCreator /\ StateIsOpen /\ Allocators /\ Storage

IInv ==
  /\ TypeOK
  /\ Control
  /\ OneOwner
  /\ NothingLost

-----------------------------------------------------------------------------
(* The arithmetic of states.                                               *)

LEMMA FirstStateIs ==
  ASSUME MaxRegions < NumRegions, NEW r \in 1..MaxRegions
  PROVE  /\ FirstState(r) = [region |-> r, index |-> 1]
         /\ Open(FirstState(r))
<1>1. r % NumRegions = r
  BY PoolAssumption
<1>2. 1 = 1 + 0 * ElemsPerSpan
  BY PoolAssumption
<1> QED  BY <1>1, <1>2, PoolAssumption DEF FirstState, Open, Aligned

(* A new state is the locked one, or the next one in the region.           *)
LEMMA ReserveIs ==
  ASSUME NEW s \in States, Open(s), MaxRegions < NumRegions
  PROVE  \/ /\ Reserve(s) = LockedState
            /\ MaxIndex < s.index + ElemsPerSpan
         \/ /\ Reserve(s) = [region |-> s.region, index |-> s.index + ElemsPerSpan]
            /\ Reserve(s) \in States
            /\ Reserve(s) # LockedState
            /\ Open(Reserve(s))
<1>1. CASE MaxIndex - s.index + 1 <= ElemsPerSpan
  BY <1>1, PoolAssumption DEF Reserve, States, Regions
<1>2. CASE ~(MaxIndex - s.index + 1 <= ElemsPerSpan)
  <2> DEFINE next == s.index + ElemsPerSpan
  <2>1. next \in 2..MaxIndex
    BY <1>2, PoolAssumption DEF Open
  <2>2. PICK k \in 0..MaxIndex : s.index = 1 + k * ElemsPerSpan
    BY DEF Open, Aligned
  <2>3. next = 1 + (k + 1) * ElemsPerSpan
    BY <2>2, PoolAssumption
  <2>4. k + 1 <= (k + 1) * ElemsPerSpan
    BY <2>2, PoolAssumption
  <2>5. k + 1 \in 0..MaxIndex
    BY <2>1, <2>2, <2>3, <2>4, PoolAssumption
  <2>6. next # MaxIndex
    BY <2>3, <2>5, PoolAssumption
  <2>7. Reserve(s) = [region |-> s.region, index |-> next]
    BY <1>2 DEF Reserve
  <2>8. Open(Reserve(s))
    BY <2>1, <2>3, <2>5, <2>6, <2>7, PoolAssumption DEF Open, Aligned
  <2> QED  BY <2>1, <2>6, <2>7, <2>8, PoolAssumption DEF States, LockedState, Open
<1> QED  BY <1>1, <1>2

(* The locked state, the initial one and those in between differ.          *)
LEMMA StatesDiffer ==
  /\ LockedState # InitState
  /\ LockedState \in States /\ InitState \in States
  /\ ~Open(LockedState) /\ ~Open(InitState)
BY PoolAssumption DEF LockedState, InitState, States, Regions, Open
-----------------------------------------------------------------------------
(* Types are kept.                                                         *)

LEMMA TypeStep ==
  ASSUME MaxRegions < NumRegions, IInv, [Next]_vars
  PROVE  TypeOK'
<1> USE DEF TypeOK
<1>1. CASE UNCHANGED vars
  BY <1>1 DEF vars, IInv
<1>2. ASSUME NEW t \in Threads,
             PopFree(t) \/ AllocFromSpan(t) \/ TakeSharedFreeList(t)
               \/ StartReserve(t) \/ Free(t)
      PROVE  TypeOK'
  <2>1. CASE PopFree(t)
    BY <2>1 DEF PopFree, IInv
  <2>2. CASE AllocFromSpan(t)
    <3>1. span[t].begin < span[t].end
      <4>1. span[t].begin # span[t].end /\ span[t].begin <= span[t].end
        BY <2>2 DEF AllocFromSpan, IsEmpty, IInv, Control, Allocators
      <4>2. span[t].begin \in Nat /\ span[t].end \in Nat
        BY PoolAssumption DEF IInv, Spans
      <4> QED  BY <4>1, <4>2
    <3>2. span[t].begin + 1 \in 0..MaxIndex /\ <<span[t].region, span[t].begin>> \in Handles
      BY <3>1, PoolAssumption DEF IInv, Handles, Spans
    <3>3. [span[t] EXCEPT !.begin = @ + 1] \in Spans
      BY <3>2 DEF IInv, Spans
    <3> QED  BY <2>2, <3>2, <3>3 DEF AllocFromSpan, IInv
  <2>3. CASE TakeSharedFreeList(t)
    BY <2>3 DEF TakeSharedFreeList, IInv
  <2>4. CASE StartReserve(t)
    BY <2>4 DEF StartReserve, IInv, Labels
  <2>5. CASE Free(t)
    BY <2>5 DEF Free, IInv
  <2> QED  BY <1>2, <2>1, <2>2, <2>3, <2>4, <2>5
<1>3. ASSUME NEW t \in Threads, Reserving(t)
      PROVE  TypeOK'
  <2>1. CASE Load(t)
    BY <2>1 DEF Load, Goto, IInv, Labels
  <2>2. CASE LockToInit(t)
    BY <2>2, StatesDiffer DEF LockToInit, Goto, IInv, Labels
  <2>3. CASE CreateFirstRegion(t)
    BY <2>3, PoolAssumption DEF CreateFirstRegion, Goto, IInv, Labels
  <2>4. CASE FirstUnlock(t)
    <3>1. FirstState(1) \in States
      BY FirstStateIs, PoolAssumption DEF States, Regions
    <3> QED  BY <2>4, <3>1 DEF FirstUnlock, Goto, IInv, Labels
  <2>5. CASE Unlocked(t)
    BY <2>5 DEF Unlocked, IInv
  <2>6. CASE ReserveSpan(t)
    <3>1. seen[t] \in States /\ Open(seen[t])
      BY <2>6 DEF ReserveSpan, IInv, Control, StateIsOpen, Allocators
    <3>2. Reserve(seen[t]) \in States
      BY <3>1, ReserveIs, StatesDiffer
    <3>3. CASE Reserve(seen[t]) # LockedState
      <4>1. Reserve(seen[t]) = [region |-> seen[t].region,
                                index |-> seen[t].index + ElemsPerSpan]
        BY <3>1, <3>3, ReserveIs
      <4>2. [region |-> seen[t].region, begin |-> seen[t].index + 1,
             end |-> Reserve(seen[t]).index] \in Spans
        BY <3>1, <3>2, PoolAssumption DEF States, Open, Spans
      <4>3. <<seen[t].region, seen[t].index>> \in Handles
        BY <3>1 DEF States, Handles
      <4>4. TakeSpan(t, Reserve(seen[t])) /\ regionState' = Reserve(seen[t])
        BY <2>6, <3>3 DEF ReserveSpan
      <4>5. Reserve(seen[t]).region = seen[t].region
        BY <4>1
      <4>6. span' \in [Threads -> Spans] /\ used' \subseteq Handles
        BY <4>2, <4>3, <4>4, <4>5 DEF TakeSpan, IInv
      <4> QED
        BY <2>6, <3>2, <4>4, <4>6, StatesDiffer
        DEF ReserveSpan, TakeSpan, Goto, IInv, Labels
    <3>4. CASE Reserve(seen[t]) = LockedState
      BY <2>6, <3>2, <3>4 DEF ReserveSpan, Goto, IInv, Labels
    <3> QED  BY <3>3, <3>4
  <2>7. CASE SeeOtherState(t)
    BY <2>7 DEF SeeOtherState, IInv
  <2>8. CASE CreateNextRegion(t)
    <3>1. seen[t].region + 1 \in 1..NumRegions
      BY <2>8, PoolAssumption DEF CreateNextRegion, IInv, Control, Allocators, Extending, Open
    <3> QED  BY <2>8, <3>1 DEF CreateNextRegion, Goto, IInv, Labels
  <2>9. CASE NextUnlock(t)
    <3>1. Open(seen[t]) /\ seen[t].region + 1 \in 1..MaxRegions
      BY <2>9, PoolAssumption DEF NextUnlock, IInv, Control, Allocators, Extending, Open
    <3>2. FirstState(seen[t].region + 1) = [region |-> seen[t].region + 1, index |-> 1]
      BY <3>1, FirstStateIs
    <3>3. FirstState(seen[t].region + 1) \in States
      BY <3>1, <3>2, PoolAssumption DEF States, Regions
    <3>4. <<seen[t].region, seen[t].index>> \in Handles
      BY DEF IInv, States, Handles
    <3>5. [region |-> seen[t].region, begin |-> seen[t].index + 1, end |-> MaxIndex] \in Spans
      BY <3>1, PoolAssumption DEF IInv, States, Open, Spans
    <3>6. FirstState(seen[t].region + 1).region # seen[t].region
      BY <3>1, <3>2, PoolAssumption
    <3> QED
      BY <2>9, <3>3, <3>4, <3>5, <3>6, StatesDiffer
      DEF NextUnlock, TakeSpan, Goto, IInv, Labels
  <2> QED  BY <1>3, <2>1, <2>2, <2>3, <2>4, <2>5, <2>6, <2>7, <2>8, <2>9 DEF Reserving
<1> QED  BY <1>1, <1>2, <1>3 DEF Next

-----------------------------------------------------------------------------
(* So is the discipline of the threads that reserve spans.                 *)

(* An allocation without synchronization.                                  *)
LEMMA LocalKeepsControl ==
  ASSUME MaxRegions < NumRegions, IInv, NEW t \in Threads,
         PopFree(t) \/ AllocFromSpan(t) \/ TakeSharedFreeList(t) \/ Free(t)
  PROVE  Control'
<1>1. /\ pc[t] = "idle"
      /\ UNCHANGED <<regionState, regionStarts, pc, seen>>
      /\ \A u \in Threads \ {t} : free'[u] = free[u] /\ span'[u] = span[u]
  BY DEF PopFree, AllocFromSpan, TakeSharedFreeList, Free, MayAllocate, IInv, TypeOK
<1>2. span'[t].begin <= span'[t].end
  <2>1. CASE AllocFromSpan(t)
    <3>0. span[t] \in Spans /\ span[t].begin \in Nat /\ span[t].end \in Nat
      BY PoolAssumption DEF IInv, TypeOK, Spans
    <3>1. span[t].begin < span[t].end
      <4>1. span[t].begin # span[t].end /\ span[t].begin <= span[t].end
        BY <2>1 DEF AllocFromSpan, IsEmpty, IInv, Control, Allocators
      <4> QED  BY <3>0, <4>1
    <3>2. span'[t] = [span[t] EXCEPT !.begin = @ + 1]
      BY <2>1 DEF AllocFromSpan, IInv, TypeOK
    <3> QED  BY <3>0, <3>1, <3>2, PoolAssumption DEF Spans
  <2>2. CASE PopFree(t) \/ TakeSharedFreeList(t) \/ Free(t)
    BY <2>2 DEF PopFree, TakeSharedFreeList, Free, IInv, Control, Allocators
  <2> QED  BY <2>1, <2>2
<1>3. OneCreator' /\ StateIsOpen' /\ Storage'
  BY <1>1 DEF IInv, Control, OneCreator, StateIsOpen, Storage, Creating, Extending, Open
<1>4. Allocators'
  <2> SUFFICES ASSUME NEW u \in Threads
               PROVE  /\ span'[u].begin <= span'[u].end
                      /\ pc[u] # "idle" => free'[u] = {} /\ IsEmpty(span'[u])
                      /\ pc[u] = "reserve" => regionState # InitState
                      /\ pc[u] \in {"init", "firstRegion", "firstUnlock"} => seen[u] = InitState
                      /\ Extending(u) => Open(seen[u]) /\ seen[u].region < MaxRegions
    BY <1>1 DEF Allocators, Extending, IsEmpty, Open
  <2> QED  BY <1>1, <1>2 DEF IInv, Control, Allocators, Extending
<1> QED  BY <1>3, <1>4 DEF Control

LEMMA ControlStep ==
  ASSUME MaxRegions < NumRegions, IInv, TypeOK', [Next]_vars
  PROVE  Control'
<1> USE DEF IInv, Control
<1>1. CASE UNCHANGED vars
  BY <1>1
  DEF vars, OneCreator, StateIsOpen, Allocators, Storage, Creating, Extending, Open, IsEmpty
<1>2. ASSUME NEW t \in Threads, StartReserve(t)
      PROVE  Control'
  BY <1>2
  DEF StartReserve, MayAllocate, OneCreator, StateIsOpen, Allocators, Storage,
      Creating, Extending, Open, IsEmpty, TypeOK
<1>3. ASSUME NEW t \in Threads, Load(t)
      PROVE  Control'
  BY <1>3
  DEF Load, Goto, OneCreator, StateIsOpen, Allocators, Storage,
      Creating, Extending, Open, IsEmpty, TypeOK
<1>4. ASSUME NEW t \in Threads, LockToInit(t)
      PROVE  Control'
  BY <1>4, StatesDiffer
  DEF LockToInit, Goto, OneCreator, StateIsOpen, Allocators, Storage,
      Creating, Extending, Open, IsEmpty, TypeOK
<1>5. ASSUME NEW t \in Threads, CreateFirstRegion(t)
      PROVE  Control'
  BY <1>5
  DEF CreateFirstRegion, Goto, OneCreator, StateIsOpen, Allocators, Storage,
      Creating, Extending, Open, IsEmpty, TypeOK
<1>6. ASSUME NEW t \in Threads, FirstUnlock(t)
      PROVE  Control'
  <2>1. regionState' = [region |-> 1, index |-> 1] /\ Open(regionState)'
    BY <1>6, FirstStateIs, PoolAssumption DEF FirstUnlock, Open
  <2>2. regionState' \notin {InitState, LockedState}
    BY <2>1, StatesDiffer DEF Open
  <2>3. 1..1 \subseteq regionStarts
    BY <1>6 DEF FirstUnlock, Storage
  <2>4. /\ pc'[t] = "reserve"
        /\ \A u \in Threads \ {t} :
             ~Creating(u) /\ seen'[u] = seen[u] /\ pc'[u] = pc[u]
    BY <1>6 DEF FirstUnlock, Goto, Creating, OneCreator, TypeOK
  <2>5. OneCreator' /\ StateIsOpen' /\ Allocators'
    BY <1>6, <2>1, <2>2, <2>4
    DEF FirstUnlock, OneCreator, StateIsOpen, Allocators, Creating, Extending, Open, IsEmpty
  <2>6. Storage'
    BY <1>6, <2>1, <2>3, <2>4 DEF FirstUnlock, Storage, Creating, Extending, Open
  <2> QED  BY <2>5, <2>6
<1>7. ASSUME NEW t \in Threads, Unlocked(t) \/ SeeOtherState(t)
      PROVE  Control'
  BY <1>7
  DEF Unlocked, SeeOtherState, OneCreator, StateIsOpen, Allocators, Storage,
      Creating, Extending, Open, IsEmpty, TypeOK
<1>8. ASSUME NEW t \in Threads, ReserveSpan(t)
      PROVE  Control'
  <2>1. regionState = seen[t] /\ seen[t] \in States /\ Open(seen[t])
    BY <1>8 DEF ReserveSpan, StateIsOpen, Allocators, TypeOK
  <2>2. \A u \in Threads : ~Creating(u)
    BY <1>8, <2>1 DEF ReserveSpan, OneCreator
  <2>3. CASE Reserve(seen[t]) = LockedState
    <3>1. /\ regionState' = LockedState
          /\ seen[t].region < MaxRegions
          /\ pc' = [pc EXCEPT ![t] = "nextRegion"]
          /\ UNCHANGED <<regionStarts, free, span, seen>>
      BY <1>8, <2>3 DEF ReserveSpan, Goto
    <3>2. /\ Creating(t)' /\ \A u \in Threads \ {t} : ~Creating(u)'
          /\ \A u \in Threads \ {t} : pc'[u] = pc[u]
      BY <2>2, <3>1 DEF Creating, TypeOK
    <3>3. OneCreator' /\ StateIsOpen'
      BY <3>1, <3>2 DEF OneCreator, StateIsOpen
    <3>4. Allocators'
      BY <1>8, <2>1, <3>1, <3>2, StatesDiffer
      DEF ReserveSpan, Allocators, Creating, Extending, IsEmpty, Open, TypeOK
    <3>5. Storage'
      BY <2>1, <3>1, <3>2, StatesDiffer DEF Storage, Creating, Extending, Open, TypeOK
    <3> QED  BY <3>3, <3>4, <3>5
  <2>4. CASE Reserve(seen[t]) # LockedState
    <3>1. /\ Reserve(seen[t]) = [region |-> seen[t].region,
                                 index |-> seen[t].index + ElemsPerSpan]
          /\ Reserve(seen[t]) \in States /\ Open(Reserve(seen[t]))
      BY <2>1, <2>4, ReserveIs
    <3>2. /\ regionState' = Reserve(seen[t])
          /\ span' = [span EXCEPT ![t] = [region |-> seen[t].region,
                                          begin |-> seen[t].index + 1,
                                          end |-> seen[t].index + ElemsPerSpan]]
          /\ seen' = [seen EXCEPT ![t] = InitState]
          /\ pc' = [pc EXCEPT ![t] = "idle"]
          /\ UNCHANGED <<regionStarts, free>>
      BY <1>8, <2>4, <3>1 DEF ReserveSpan, TakeSpan, Goto
    <3>3. \A u \in Threads \ {t} :
            pc'[u] = pc[u] /\ seen'[u] = seen[u] /\ span'[u] = span[u]
      BY <3>2 DEF TypeOK
    <3>4. \A u \in Threads : ~Creating(u)'
      BY <2>2, <3>2, <3>3 DEF Creating, TypeOK
    <3>5. OneCreator' /\ StateIsOpen' /\ regionState' # InitState
      BY <3>1, <3>2, <3>4, StatesDiffer, <2>4 DEF OneCreator, StateIsOpen, Open
    <3>6. pc'[t] = "idle" /\ span'[t].begin <= span'[t].end
      BY <2>1, <3>2, PoolAssumption DEF TypeOK, States
    <3>7. Allocators'
      BY <3>2, <3>3, <3>4, <3>5, <3>6 DEF Allocators, Creating, Extending, IsEmpty, Open
    <3>8. Storage'
      BY <2>1, <3>1, <3>2, <3>3, <3>4, <3>6 DEF Storage, Creating, Extending, Open
    <3> QED  BY <3>5, <3>7, <3>8
  <2> QED  BY <2>3, <2>4
<1>9. ASSUME NEW t \in Threads, CreateNextRegion(t)
      PROVE  Control'
  BY <1>9
  DEF CreateNextRegion, Goto, OneCreator, StateIsOpen, Allocators, Storage,
      Creating, Extending, Open, IsEmpty, TypeOK
<1>10. ASSUME NEW t \in Threads, NextUnlock(t)
       PROVE  Control'
  <2> DEFINE next == seen[t].region + 1
  <2>1. Open(seen[t]) /\ seen[t] \in States /\ next \in 1..MaxRegions
    BY <1>10, PoolAssumption DEF NextUnlock, Allocators, Extending, Open, TypeOK
  <2>2. FirstState(next) = [region |-> next, index |-> 1] /\ Open(FirstState(next))
    BY <2>1, FirstStateIs
  <2>3. FirstState(next).region # seen[t].region
    BY <2>1, <2>2, PoolAssumption DEF States, Regions
  <2>4. /\ regionState' = FirstState(next)
        /\ span' = [span EXCEPT ![t] = [region |-> seen[t].region,
                                        begin |-> seen[t].index + 1,
                                        end |-> MaxIndex]]
        /\ seen' = [seen EXCEPT ![t] = InitState]
        /\ pc' = [pc EXCEPT ![t] = "idle"]
        /\ UNCHANGED <<regionStarts, free>>
    BY <1>10, <2>3 DEF NextUnlock, TakeSpan, Goto
  <2>5. \A u \in Threads \ {t} :
          ~Creating(u) /\ pc'[u] = pc[u] /\ seen'[u] = seen[u] /\ span'[u] = span[u]
    BY <1>10, <2>4 DEF NextUnlock, OneCreator, Creating, TypeOK
  <2>6. pc'[t] = "idle" /\ span'[t].begin <= span'[t].end
    BY <2>1, <2>4, PoolAssumption DEF TypeOK, States, Open
  <2>7. OneCreator' /\ StateIsOpen'
    BY <2>2, <2>4, <2>5, <2>6, StatesDiffer DEF OneCreator, StateIsOpen, Creating, Open
  <2>8. Allocators'
    BY <2>2, <2>4, <2>5, <2>6, StatesDiffer
    DEF Allocators, Creating, Extending, IsEmpty, Open
  <2>9. 1..next \subseteq regionStarts
    BY <1>10, <2>1, PoolAssumption DEF NextUnlock, Storage, Extending, States, Regions
  <2>10. Storage'
    BY <2>2, <2>4, <2>5, <2>6, <2>9 DEF Storage, Creating, Extending, Open
  <2> QED  BY <2>7, <2>8, <2>10
<1> QED
  BY <1>1, <1>2, <1>3, <1>4, <1>5, <1>6, <1>7, <1>8, <1>9, <1>10, LocalKeepsControl
  DEF Next, Reserving

-----------------------------------------------------------------------------
(* Elements keep to one owner, and none is lost.                           *)

(* A thread hands out an element of its own.                               *)
LEMMA TakeLocal ==
  ASSUME OneOwner, NEW t \in Threads, NEW h,
         used' = used \cup {h}, shared' = shared,
         \A u \in Threads \ {t} : free'[u] = free[u] /\ Rest(u)' = Rest(u),
         \/ h \in free[t] /\ free'[t] = free[t] \ {h} /\ Rest(t)' = Rest(t)
         \/ h \in Rest(t) /\ free'[t] = free[t] /\ Rest(t)' = Rest(t) \ {h}
  PROVE  OneOwner' /\ Owned' = Owned
<1>1. /\ free'[t] \cap Rest(t)' = {}
      /\ Local(t)' = Local(t) \ {h}
      /\ \A u \in Threads \ {t} : Local(u)' = Local(u)
  <2>1. free[t] \cap Rest(t) = {} /\ Local(t) = free[t] \cup Rest(t)
    BY DEF OneOwner, Local
  <2>2. Local(t)' = free'[t] \cup Rest(t)'
    BY DEF Local
  <2>3. \A u \in Threads \ {t} : Local(u)' = Local(u)
    BY DEF Local
  <2>4. CASE h \in free[t] /\ free'[t] = free[t] \ {h} /\ Rest(t)' = Rest(t)
    BY <2>1, <2>2, <2>3, <2>4
  <2>5. CASE h \in Rest(t) /\ free'[t] = free[t] /\ Rest(t)' = Rest(t) \ {h}
    BY <2>1, <2>2, <2>3, <2>5
  <2> QED  BY <2>4, <2>5
<1>2. h \in Local(t)
  BY DEF Local
<1>3. OneOwner'
  <2>1. \A u \in Threads : free'[u] \cap Rest(u)' = {} /\ used' \cap Local(u)' = {}
    BY <1>1, <1>2 DEF OneOwner
  <2>2. \A u, v \in Threads : u # v => Local(u)' \cap Local(v)' = {}
    BY <1>1 DEF OneOwner
  <2>3. \A list \in shared' :
          /\ list \cap used' = {}
          /\ \A u \in Threads : list \cap Local(u)' = {}
          /\ \A other \in shared' : list # other => list \cap other = {}
    BY <1>1, <1>2 DEF OneOwner
  <2> QED  BY <2>1, <2>2, <2>3 DEF OneOwner
<1>4. Owned' = Owned
  BY <1>1, <1>2 DEF Owned
<1> QED  BY <1>3, <1>4

(* Elements stay where they are.                                           *)
LEMMA StayWhereTheyAre ==
  ASSUME OneOwner, UNCHANGED <<used, shared, free>>,
         \A t \in Threads : Rest(t)' = Rest(t)
  PROVE  OneOwner' /\ Owned' = Owned
BY DEF OneOwner, Owned, Local

(* A thread gets elements that nobody had.                                 *)
LEMMA TakeNew ==
  ASSUME OneOwner, NEW t \in Threads, NEW N, N \cap Owned = {}, Local(t) = {},
         UNCHANGED <<shared, free>>,
         \A u \in Threads \ {t} : Rest(u)' = Rest(u),
         used \subseteq used', used' = used \cup (N \ Rest(t)'), Rest(t)' \subseteq N
  PROVE  OneOwner' /\ Owned' = Owned \cup N
<1>1. /\ free'[t] = {} /\ Local(t)' = Rest(t)'
      /\ \A u \in Threads \ {t} : Local(u)' = Local(u)
  BY DEF Local
<1>2. /\ N \cap used = {}
      /\ \A u \in Threads : N \cap Local(u) = {}
      /\ \A list \in shared : N \cap list = {}
  BY DEF Owned
<1>3. OneOwner'
  <2>1. \A u \in Threads : free'[u] \cap Rest(u)' = {} /\ used' \cap Local(u)' = {}
    BY <1>1, <1>2 DEF OneOwner
  <2>2. \A u, v \in Threads : u # v => Local(u)' \cap Local(v)' = {}
    BY <1>1, <1>2 DEF OneOwner
  <2>3. \A list \in shared' :
          /\ list \cap used' = {}
          /\ \A u \in Threads : list \cap Local(u)' = {}
          /\ \A other \in shared' : list # other => list \cap other = {}
    BY <1>1, <1>2 DEF OneOwner
  <2> QED  BY <2>1, <2>2, <2>3 DEF OneOwner
<1>4. Owned' = Owned \cup N
  BY <1>1 DEF Owned
<1> QED  BY <1>3, <1>4

(* The elements reserved, as a thread that keeps the state locked or no    *)
(* thread determines them.                                                 *)
LEMMA ReservedIs ==
  ASSUME Control, NEW h
  PROVE  /\ \A t \in Threads : Creating(t) =>
              (IsReserved(h) <=> h[1] <= seen[t].region)
         /\ (\A t \in Threads : ~Creating(t)) =>
              (IsReserved(h) <=> Behind(regionState, h))
BY DEF Control, OneCreator, IsReserved

(* What is not with a shared list or in a thread's hands alone.            *)
LEMMA LocalOwnership ==
  ASSUME IInv, NEW t \in Threads,
         PopFree(t) \/ AllocFromSpan(t) \/ TakeSharedFreeList(t) \/ Free(t)
  PROVE  OneOwner' /\ NothingLost' /\ Reserved' = Reserved
<1> USE DEF IInv
<1>1. /\ pc[t] = "idle"
      /\ UNCHANGED <<regionState, pc, seen>>
  BY DEF PopFree, AllocFromSpan, TakeSharedFreeList, Free, MayAllocate
<1>2. Reserved' = Reserved
  BY <1>1 DEF Reserved, IsReserved, Creating, Behind
<1>3. CASE PopFree(t)
  <2>1. PICK h \in free[t] : free' = [free EXCEPT ![t] = @ \ {h}] /\ used' = used \cup {h}
    BY <1>3 DEF PopFree
  <2>2. \A u \in Threads : Rest(u)' = Rest(u)
    BY <1>3 DEF PopFree, Rest, Extending, Elements
  <2>3. OneOwner' /\ Owned' = Owned
    BY <1>3, <2>1, <2>2, TakeLocal DEF PopFree, TypeOK
  <2> QED  BY <1>2, <2>3 DEF NothingLost
<1>4. CASE AllocFromSpan(t)
  <2> DEFINE h == <<span[t].region, span[t].begin>>
  <2>1. /\ span[t] \in Spans /\ span[t].begin < span[t].end
        /\ ~Extending(t)
    BY <1>1, <1>4, PoolAssumption, SMTT(30)
    DEF AllocFromSpan, IsEmpty, Control, Allocators, TypeOK, Spans, Extending
  <2>2. span' = [span EXCEPT ![t] = [span[t] EXCEPT !.begin = @ + 1]]
    BY <1>4 DEF AllocFromSpan, TypeOK
  <2>3. h \in Rest(t) /\ Rest(t)' = Rest(t) \ {h}
    <3>1. /\ Rest(t) = Elements(span[t].region, span[t].begin, span[t].end)
          /\ Rest(t)' = Elements(span[t].region, span[t].begin + 1, span[t].end)
      BY <1>1, <2>1, <2>2 DEF Rest, Extending, TypeOK, Elements, Spans
    <3>2. h \in Handles
      BY <2>1, PoolAssumption DEF Spans, Handles
    <3>3. h \in Rest(t)
      BY <2>1, <3>1, <3>2, PoolAssumption DEF Elements, Spans
    <3>4. ASSUME NEW x \in Handles
          PROVE  x \in Rest(t)' <=> x \in Rest(t) \ {h}
      <4>1. x = <<x[1], x[2]>> /\ x[2] \in 0..MaxIndex
        BY DEF Handles
      <4> QED  BY <2>1, <3>1, <4>1, PoolAssumption DEF Elements, Spans
    <3>5. Rest(t) \subseteq Handles /\ Rest(t)' \subseteq Handles
      BY <3>1 DEF Elements
    <3> QED  BY <3>3, <3>4, <3>5
  <2>4. \A u \in Threads \ {t} : Rest(u)' = Rest(u)
    BY <1>1, <2>2 DEF Rest, Elements, Extending, TypeOK
  <2>5. OneOwner' /\ Owned' = Owned
    BY <1>4, <2>3, <2>4, TakeLocal DEF AllocFromSpan
  <2> QED  BY <1>2, <2>5 DEF NothingLost
<1>5. CASE TakeSharedFreeList(t)
  <2>1. PICK list \in shared : \E h \in list :
          /\ shared' = shared \ {list}
          /\ free' = [free EXCEPT ![t] = list \ {h}]
          /\ used' = used \cup {h}
    BY <1>5 DEF TakeSharedFreeList
  <2>2. PICK h \in list :
          /\ shared' = shared \ {list}
          /\ free' = [free EXCEPT ![t] = list \ {h}]
          /\ used' = used \cup {h}
    BY <2>1
  <2>3. \A u \in Threads : Rest(u)' = Rest(u)
    BY <1>5 DEF TakeSharedFreeList, Rest, Extending, Elements
  <2>4. Local(t)' = Local(t) \cup (list \ {h}) /\ free'[t] = list \ {h}
    BY <1>5, <2>2, <2>3 DEF TakeSharedFreeList, Local, TypeOK
  <2>5. \A u \in Threads \ {t} : free'[u] = free[u] /\ Local(u)' = Local(u)
    BY <2>2, <2>3 DEF Local, TypeOK
  <2>6. \A u \in Threads : list \cap Local(u) = {}
    BY DEF OneOwner
  <2>7. OneOwner'
    <3>1. \A u \in Threads : free'[u] \cap Rest(u)' = {} /\ used' \cap Local(u)' = {}
      BY <2>2, <2>3, <2>4, <2>5, <2>6 DEF OneOwner, Local
    <3>2. \A u, v \in Threads : u # v => Local(u)' \cap Local(v)' = {}
      BY <2>4, <2>5, <2>6 DEF OneOwner
    <3>3. \A other \in shared' :
            /\ other \cap used' = {}
            /\ \A u \in Threads : other \cap Local(u)' = {}
            /\ \A third \in shared' : other # third => other \cap third = {}
      BY <2>2, <2>4, <2>5 DEF OneOwner
    <3> QED  BY <3>1, <3>2, <3>3 DEF OneOwner
  <2>8. Owned' = Owned
    BY <2>2, <2>4, <2>5 DEF Owned
  <2> QED  BY <1>2, <2>7, <2>8 DEF NothingLost
<1>6. CASE Free(t)
  <2>1. PICK h \in used :
          /\ used' = used \ {h}
          /\ \/ free' = [free EXCEPT ![t] = @ \cup {h}] /\ shared' = shared
             \/ /\ free' = [free EXCEPT ![t] = {}]
                /\ shared' = shared \cup {free[t] \cup {h}}
    BY <1>6 DEF Free
  <2>2. \A u \in Threads : Rest(u)' = Rest(u)
    BY <1>6 DEF Free, Rest, Extending, Elements
  <2>3. \A u \in Threads \ {t} : free'[u] = free[u] /\ Local(u)' = Local(u)
    BY <2>1, <2>2 DEF Local, TypeOK
  <2>4. \A u \in Threads : h \notin Local(u) /\ (u # t => free[t] \cap Local(u) = {})
    BY DEF OneOwner, Local
  <2>5. h \notin UNION shared /\ (UNION shared) \cap Local(t) = {} /\ used \cap Local(t) = {}
    BY DEF OneOwner
  <2>6. CASE free' = [free EXCEPT ![t] = @ \cup {h}] /\ shared' = shared
    <3>1. free'[t] = free[t] \cup {h} /\ Local(t)' = Local(t) \cup {h}
      BY <2>2, <2>6 DEF Local, TypeOK
    <3>2. \A u \in Threads : free'[u] \cap Rest(u)' = {} /\ used' \cap Local(u)' = {}
      BY <2>1, <2>2, <2>3, <2>4, <3>1 DEF OneOwner, Local
    <3>3. \A u, v \in Threads : u # v => Local(u)' \cap Local(v)' = {}
      BY <2>3, <2>4, <3>1 DEF OneOwner
    <3>4. \A list \in shared' :
            /\ list \cap used' = {}
            /\ \A u \in Threads : list \cap Local(u)' = {}
            /\ \A other \in shared' : list # other => list \cap other = {}
      BY <2>1, <2>3, <2>5, <2>6, <3>1 DEF OneOwner
    <3>5. Owned' = Owned
      BY <2>1, <2>3, <2>6, <3>1 DEF Owned
    <3> QED  BY <1>2, <3>2, <3>3, <3>4, <3>5 DEF OneOwner, NothingLost
  <2>7. CASE free' = [free EXCEPT ![t] = {}] /\ shared' = shared \cup {free[t] \cup {h}}
    <3>1. free'[t] = {} /\ Local(t)' = Rest(t) /\ Local(t) = free[t] \cup Rest(t)
      BY <2>2, <2>7 DEF Local, TypeOK
    <3>2. \A u \in Threads : free'[u] \cap Rest(u)' = {} /\ used' \cap Local(u)' = {}
      BY <2>1, <2>2, <2>3, <3>1 DEF OneOwner
    <3>3. \A u, v \in Threads : u # v => Local(u)' \cap Local(v)' = {}
      BY <2>3, <3>1 DEF OneOwner
    <3>4. \A list \in shared' :
            /\ list \cap used' = {}
            /\ \A u \in Threads : list \cap Local(u)' = {}
            /\ \A other \in shared' : list # other => list \cap other = {}
      <4> DEFINE new == free[t] \cup {h}
      <4>1. new \cap used' = {} /\ \A u \in Threads : new \cap Local(u)' = {}
        BY <2>1, <2>3, <2>4, <2>5, <3>1 DEF OneOwner
      <4>2. \A list \in shared : list \cap new = {}
        BY <2>5, <3>1
      <4>3. \A list \in shared :
              list \cap used' = {} /\ \A u \in Threads : list \cap Local(u)' = {}
        BY <2>1, <2>3, <3>1 DEF OneOwner
      <4> QED  BY <2>7, <4>1, <4>2, <4>3 DEF OneOwner
    <3>5. Owned' = Owned
      <4> SUFFICES ASSUME NEW x PROVE x \in Owned' <=> x \in Owned
        OBVIOUS
      <4>1. x \in Owned <=> \/ x \in used \/ \E list \in shared : x \in list
                            \/ \E u \in Threads : x \in Local(u)
        BY DEF Owned
      <4>2. x \in Owned' <=> \/ x \in used' \/ \E list \in shared' : x \in list
                             \/ \E u \in Threads : x \in Local(u)'
        BY DEF Owned
      <4>3. (\E u \in Threads : x \in Local(u)) <=>
              x \in free[t] \/ \E u \in Threads : x \in Local(u)'
        BY <2>3, <3>1
      <4>4. (\E list \in shared' : x \in list) <=>
              x \in free[t] \/ x = h \/ \E list \in shared : x \in list
        BY <2>7
      <4> QED  BY <2>1, <4>1, <4>2, <4>3, <4>4
    <3> QED  BY <1>2, <3>2, <3>3, <3>4, <3>5 DEF OneOwner, NothingLost
  <2> QED  BY <2>1, <2>6, <2>7
<1> QED  BY <1>2, <1>3, <1>4, <1>5, <1>6

(* Elements stay where they are while a thread prepares to reserve them.   *)
LEMMA PreparingOwnership ==
  ASSUME MaxRegions < NumRegions, IInv, TypeOK', Control', NEW t \in Threads,
         \/ StartReserve(t) \/ Load(t) \/ LockToInit(t) \/ CreateFirstRegion(t)
         \/ FirstUnlock(t) \/ Unlocked(t) \/ SeeOtherState(t) \/ CreateNextRegion(t)
  PROVE  OneOwner' /\ NothingLost' /\ Reserved' = Reserved
<1> USE DEF IInv
<1>1. /\ UNCHANGED <<used, shared, free, span>>
      /\ \A u \in Threads \ {t} : pc'[u] = pc[u] /\ seen'[u] = seen[u]
  BY DEF StartReserve, Load, LockToInit, CreateFirstRegion, FirstUnlock, Unlocked,
         SeeOtherState, CreateNextRegion, Goto, TypeOK
<1>2. \/ ~Extending(t) /\ ~Extending(t)'
      \/ Extending(t) /\ Extending(t)' /\ seen' = seen
  BY DEF StartReserve, Load, LockToInit, CreateFirstRegion, FirstUnlock, Unlocked,
         SeeOtherState, CreateNextRegion, Goto, TypeOK, MayAllocate, Extending
<1>3. \A u \in Threads : Rest(u)' = Rest(u)
  BY <1>1, <1>2 DEF Rest, Extending, Elements
<1>4. ASSUME NEW h \in Handles, h[1] > 0, h[2] > 0
      PROVE  IsReserved(h)' <=> IsReserved(h)
  <2>1. /\ h[1] \in Nat /\ h[2] \in Nat
        /\ \A u \in Threads : Creating(u) => (IsReserved(h) <=> h[1] <= seen[u].region)
        /\ (\A u \in Threads : ~Creating(u)) =>
             (IsReserved(h) <=> Behind(regionState, h))
    BY <1>4, ReservedIs, PoolAssumption DEF Handles, Regions
  <2>2. /\ \A u \in Threads : Creating(u)' => (IsReserved(h)' <=> h[1] <= seen'[u].region)
        /\ (\A u \in Threads : ~Creating(u)') =>
             (IsReserved(h)' <=> Behind(regionState, h)')
    BY DEF Control, OneCreator, IsReserved
  <2>3. CASE StartReserve(t) \/ Load(t) \/ Unlocked(t) \/ SeeOtherState(t)
    <3>1. \A u \in Threads : (Creating(u)' <=> Creating(u)) /\ (Creating(u) => u # t)
      BY <1>1, <2>3
      DEF StartReserve, Load, Unlocked, SeeOtherState, Goto, MayAllocate, Creating, TypeOK
    <3>2. UNCHANGED regionState
      BY <2>3 DEF StartReserve, Load, Unlocked, SeeOtherState
    <3> QED  BY <1>1, <2>1, <2>2, <3>1, <3>2 DEF Behind
  <2>4. CASE CreateFirstRegion(t) \/ CreateNextRegion(t)
    <3>1. Creating(t) /\ Creating(t)' /\ seen' = seen
      BY <2>4 DEF CreateFirstRegion, CreateNextRegion, Goto, Creating, TypeOK
    <3> QED  BY <2>1, <2>2, <3>1
  <2>5. CASE LockToInit(t) /\ regionState = InitState
    <3>1. Creating(t)' /\ seen'[t] = InitState
      BY <2>5 DEF LockToInit, Goto, Creating, TypeOK, Control, Allocators
    <3>2. \A u \in Threads : ~Creating(u)
      BY <2>5, StatesDiffer DEF Control, OneCreator
    <3> QED  BY <1>4, <2>1, <2>2, <2>5, <3>1, <3>2 DEF InitState, Behind
  <2>6. CASE LockToInit(t) /\ regionState # InitState
    <3>1. \A u \in Threads : (Creating(u)' <=> Creating(u)) /\ (Creating(u) => u # t)
      BY <1>1, <2>6 DEF LockToInit, Goto, Creating, TypeOK
    <3>2. UNCHANGED regionState
      BY <2>6 DEF LockToInit
    <3> QED  BY <1>1, <2>1, <2>2, <3>1, <3>2 DEF Behind
  <2>7. CASE FirstUnlock(t)
    <3>1. Creating(t) /\ seen[t] = InitState
      BY <2>7 DEF FirstUnlock, Creating, Control, Allocators
    <3>2. \A u \in Threads : ~Creating(u)'
      BY <1>1, <2>7, <3>1 DEF FirstUnlock, Goto, Creating, TypeOK, Control, OneCreator
    <3>3. regionState' = [region |-> 1, index |-> 1]
      BY <2>7, FirstStateIs, PoolAssumption DEF FirstUnlock
    <3> QED  BY <1>4, <2>1, <2>2, <3>1, <3>2, <3>3 DEF InitState, Behind
  <2> QED  BY <2>3, <2>4, <2>5, <2>6, <2>7
<1>5. Reserved' = Reserved
  BY <1>4 DEF Reserved
<1>6. OneOwner' /\ Owned' = Owned
  BY <1>1, <1>3, StayWhereTheyAre
<1> QED  BY <1>5, <1>6 DEF NothingLost

(* Reserving a span, or the rest of a region: what nobody had so far.      *)
LEMMA ReserveOwnership ==
  ASSUME MaxRegions < NumRegions, IInv, TypeOK', Control', NEW t \in Threads,
         ReserveSpan(t)
  PROVE  /\ OneOwner' /\ NothingLost'
         /\ Reserved' = Reserved \cup
              Elements(seen[t].region, seen[t].index,
                       IF Reserve(seen[t]) = LockedState THEN MaxIndex
                         ELSE seen[t].index + ElemsPerSpan)
<1> USE DEF IInv
<1> DEFINE s == seen[t]
           end == IF Reserve(s) = LockedState THEN MaxIndex ELSE s.index + ElemsPerSpan
           N == Elements(s.region, s.index, end)
<1>1. /\ regionState = s /\ s \in States /\ Open(s)
      /\ s.region \in Nat /\ s.region > 0 /\ s.index \in Nat /\ s.index > 0
      /\ s.region \in Regions
  BY PoolAssumption DEF ReserveSpan, Control, StateIsOpen, Allocators, TypeOK, States, Open
<1>2. end \in Nat /\ s.index < end /\ end <= MaxIndex
  BY <1>1, ReserveIs, PoolAssumption DEF Open, States
<1>3. \A u \in Threads : ~Creating(u)
  BY <1>1, StatesDiffer DEF ReserveSpan, Control, OneCreator
<1>4. /\ UNCHANGED <<shared, free>>
      /\ \A u \in Threads \ {t} :
           pc'[u] = pc[u] /\ seen'[u] = seen[u] /\ span'[u] = span[u]
  BY DEF ReserveSpan, TakeSpan, Goto, TypeOK
<1>5. \A u \in Threads \ {t} : Rest(u)' = Rest(u)
  BY <1>4 DEF Rest, Extending, Elements
<1>6. Local(t) = {}
  <2>1. free[t] = {} /\ span[t].begin = span[t].end /\ ~Extending(t) /\ span[t] \in Spans
    BY DEF ReserveSpan, Control, Allocators, IsEmpty, Extending, TypeOK
  <2>2. Elements(span[t].region, span[t].begin, span[t].end) = {}
    BY <2>1, PoolAssumption DEF Elements, Spans, Handles
  <2> QED  BY <2>1, <2>2 DEF Local, Rest
<1>7. \A h \in Handles : h[1] \in Nat /\ h[2] \in 0..MaxIndex /\ h = <<h[1], h[2]>>
  BY PoolAssumption DEF Handles, Regions
<1>8. N \cap Owned = {}
  <2>1. ASSUME NEW h \in N, h \in Reserved PROVE FALSE
    <3>1. Behind(s, h)
      BY <1>1, <1>3, <2>1, ReservedIs DEF Reserved
    <3> QED  BY <1>1, <1>7, <2>1, <3>1 DEF Elements, Behind
  <2> QED  BY <2>1 DEF NothingLost
<1>9. Reserved' = Reserved \cup N
  <2>1. ASSUME NEW h \in Handles
        PROVE  h \in Reserved' <=> h \in Reserved \/ h \in N
    <3>1. h \in Reserved <=> h[1] > 0 /\ h[2] > 0 /\ h[2] < MaxIndex /\ Behind(s, h)
      BY <1>1, <1>3, ReservedIs DEF Reserved
    <3>2. h \in N <=> h[1] = s.region /\ s.index <= h[2] /\ h[2] < end
      BY DEF Elements
    <3>3. CASE Reserve(s) = LockedState
      <4>1. Creating(t)' /\ seen'[t] = s
        BY <3>3 DEF ReserveSpan, Goto, Creating, TypeOK
      <4>2. IsReserved(h)' <=> h[1] <= s.region
        BY <4>1 DEF Control, OneCreator, IsReserved
      <4>3. h \in Reserved' <=> h[1] > 0 /\ h[2] > 0 /\ h[2] < MaxIndex /\ h[1] <= s.region
        BY <4>2 DEF Reserved
      <4> QED  BY <1>1, <1>7, <3>1, <3>2, <3>3, <4>3, PoolAssumption DEF Behind
    <3>4. CASE Reserve(s) # LockedState
      <4>1. Reserve(s) = [region |-> s.region, index |-> end]
        BY <1>1, <3>4, ReserveIs
      <4>2. regionState' = Reserve(s) /\ regionState' # LockedState
        BY <3>4 DEF ReserveSpan
      <4>3. h \in Reserved' <=>
              h[1] > 0 /\ h[2] > 0 /\ h[2] < MaxIndex /\ Behind(regionState', h)
        BY <4>2 DEF Reserved, IsReserved, Behind
      <4>4. Behind(regionState', h) <=> h[1] < s.region \/ (h[1] = s.region /\ h[2] < end)
        BY <4>1, <4>2 DEF Behind
      <4>5. Behind(s, h) <=> h[1] < s.region \/ (h[1] = s.region /\ h[2] < s.index)
        BY DEF Behind
      <4> QED
        BY <1>1, <1>2, <1>7, <3>1, <3>2, <4>3, <4>4, <4>5, PoolAssumption
    <3> QED  BY <3>3, <3>4
  <2> QED  BY <2>1 DEF Reserved, Elements
<1>10. /\ Rest(t)' \subseteq N
       /\ used' = used \cup (N \ Rest(t)')
  <2>1. CASE Reserve(s) = LockedState
    <3>1. Extending(t)' /\ seen'[t] = s /\ used' = used
      BY <2>1 DEF ReserveSpan, Goto, Extending, TypeOK
    <3>2. Rest(t)' = N
      BY <2>1, <3>1 DEF Rest, Elements
    <3> QED  BY <3>1, <3>2
  <2>2. CASE Reserve(s) # LockedState
    <3>1. Reserve(s) = [region |-> s.region, index |-> end]
      BY <1>1, <2>2, ReserveIs
    <3>2. TakeSpan(t, Reserve(s))
      BY <2>2 DEF ReserveSpan
    <3>3. /\ span'[t] = [region |-> s.region, begin |-> s.index + 1, end |-> end]
          /\ used' = used \cup {<<s.region, s.index>>}
          /\ ~Extending(t)'
      BY <3>1, <3>2 DEF TakeSpan, Goto, Extending, TypeOK
    <3>4. Rest(t)' = Elements(s.region, s.index + 1, end)
      BY <3>3 DEF Rest, Elements
    <3>5. ASSUME NEW h \in Handles
          PROVE  /\ h \in Rest(t)' => h \in N
                 /\ h \in N \ Rest(t)' <=> h = <<s.region, s.index>>
      BY <1>1, <1>2, <1>7, <3>4 DEF Elements
    <3>6. <<s.region, s.index>> \in Handles /\ Rest(t)' \subseteq Handles /\ N \subseteq Handles
      BY <1>1, <3>4, PoolAssumption DEF Handles, Elements, States
    <3>7. N \ Rest(t)' = {<<s.region, s.index>>} /\ Rest(t)' \subseteq N
      BY <3>5, <3>6
    <3> QED  BY <3>3, <3>7
  <2> QED  BY <2>1, <2>2
<1>11. OneOwner' /\ Owned' = Owned \cup N
  <2> HIDE DEF N
  <2> QED  BY <1>4, <1>5, <1>6, <1>8, <1>10, TakeNew
<1> QED  BY <1>9, <1>11 DEF NothingLost

(* The thread that had the rest of a region takes it for its span.         *)
LEMMA UnlockOwnership ==
  ASSUME MaxRegions < NumRegions, IInv, TypeOK', Control', NEW t \in Threads,
         NextUnlock(t)
  PROVE  OneOwner' /\ NothingLost' /\ Reserved' = Reserved
<1> USE DEF IInv
<1> DEFINE s == seen[t]
           next == s.region + 1
           first == <<s.region, s.index>>
<1>1. /\ Creating(t) /\ Extending(t) /\ s \in States /\ Open(s)
      /\ s.region \in Nat /\ s.region > 0 /\ s.index \in Nat /\ s.index > 0
      /\ s.index < MaxIndex /\ next \in 1..MaxRegions /\ s.region \in Regions
  BY PoolAssumption DEF NextUnlock, Creating, Extending, Control, Allocators, TypeOK, States, Open
<1>2. FirstState(next) = [region |-> next, index |-> 1] /\ FirstState(next).region # s.region
  BY <1>1, FirstStateIs, PoolAssumption
<1>3. /\ regionState' = [region |-> next, index |-> 1]
      /\ span' = [span EXCEPT ![t] =
                    [region |-> s.region, begin |-> s.index + 1, end |-> MaxIndex]]
      /\ used' = used \cup {first}
      /\ pc' = [pc EXCEPT ![t] = "idle"]
      /\ seen' = [seen EXCEPT ![t] = InitState]
      /\ UNCHANGED <<shared, free>>
  <2>1. regionState' = FirstState(next) /\ TakeSpan(t, FirstState(next))
    BY DEF NextUnlock
  <2>2. UNCHANGED <<shared, free>>
    BY DEF NextUnlock
  <2> QED  BY <1>2, <2>1, <2>2 DEF TakeSpan, Goto
<1>4. \A u \in Threads \ {t} :
        /\ pc'[u] = pc[u] /\ seen'[u] = seen[u] /\ span'[u] = span[u]
        /\ ~Creating(u) /\ ~Creating(u)'
  BY <1>1, <1>3 DEF TypeOK, Control, OneCreator, Creating
<1>5. \A u \in Threads \ {t} : Rest(u)' = Rest(u)
  BY <1>4 DEF Rest, Extending, Elements
<1>6. \A h \in Handles : h[1] \in Nat /\ h[2] \in 0..MaxIndex /\ h = <<h[1], h[2]>>
  BY PoolAssumption DEF Handles, Regions
<1>7. first \in Rest(t) /\ Rest(t)' = Rest(t) \ {first}
  <2>1. /\ Rest(t) = Elements(s.region, s.index, MaxIndex)
        /\ Rest(t)' = Elements(s.region, s.index + 1, MaxIndex)
    BY <1>1, <1>3 DEF Rest, Extending, TypeOK, Elements
  <2>2. first \in Handles /\ Rest(t) \subseteq Handles /\ Rest(t)' \subseteq Handles
    BY <1>1, <2>1, PoolAssumption DEF Handles, Elements, States
  <2>3. ASSUME NEW h \in Handles
        PROVE  h \in Rest(t)' <=> h \in Rest(t) \ {first}
    BY <1>1, <1>6, <2>1 DEF Elements
  <2>4. first \in Rest(t)
    BY <1>1, <2>1, <2>2 DEF Elements
  <2> QED  BY <2>2, <2>3, <2>4
<1>8. OneOwner' /\ Owned' = Owned
  <2> HIDE DEF first
  <2> QED  BY <1>3, <1>5, <1>7, TakeLocal
<1>9. Reserved' = Reserved
  <2>1. ASSUME NEW h \in Handles, h[1] > 0, h[2] > 0
        PROVE  IsReserved(h)' <=> IsReserved(h)
    <3>1. IsReserved(h) <=> h[1] <= s.region
      BY <1>1, ReservedIs
    <3>2. \A u \in Threads : ~Creating(u)'
      BY <1>3, <1>4 DEF Creating, TypeOK
    <3>3. IsReserved(h)' <=> Behind(regionState', h)
      BY <3>2 DEF Control, OneCreator, IsReserved, Behind
    <3> QED  BY <1>1, <1>3, <1>6, <2>1, <3>1, <3>3 DEF Behind
  <2> QED  BY <2>1 DEF Reserved
<1> QED  BY <1>8, <1>9 DEF NothingLost

-----------------------------------------------------------------------------
(* The invariant holds initially, and every step keeps it.                 *)

LEMMA InitIInv == Init => IInv
<1> SUFFICES ASSUME Init PROVE IInv
  OBVIOUS
<1>1. TypeOK
  BY StatesDiffer, PoolAssumption
  DEF Init, TypeOK, NoSpan, Spans, Regions, Labels, InitState, States
<1>2. Control
  BY StatesDiffer, PoolAssumption
  DEF Init, Control, OneCreator, StateIsOpen, Allocators, Storage, Creating, Extending,
      NoSpan, IsEmpty
<1>3. \A t \in Threads : Local(t) = {}
  <2> SUFFICES ASSUME NEW t \in Threads PROVE Local(t) = {}
    OBVIOUS
  <2>1. Rest(t) = Elements(0, 0, 0)
    BY DEF Init, Rest, Extending, NoSpan
  <2>2. Elements(0, 0, 0) = {}
    BY PoolAssumption DEF Elements, Handles
  <2> QED  BY <2>1, <2>2 DEF Init, Local
<1>4. OneOwner
  BY <1>3 DEF Init, OneOwner, Local
<1>5. Owned = {}
  BY <1>3 DEF Init, Owned
<1>6. Reserved = {}
  BY StatesDiffer, PoolAssumption
  DEF Init, Reserved, IsReserved, Behind, InitState, Handles, Regions
<1> QED  BY <1>1, <1>2, <1>4, <1>5, <1>6 DEF IInv, NothingLost

LEMMA OwnershipStep ==
  ASSUME MaxRegions < NumRegions, IInv, TypeOK', Control', [Next]_vars
  PROVE  OneOwner' /\ NothingLost'
<1>1. CASE UNCHANGED vars
  BY <1>1
  DEF vars, IInv, OneOwner, NothingLost, Owned, Reserved, IsReserved, Creating, Behind,
      Local, Rest, Extending, Elements
<1>2. CASE Next
  BY <1>2, LocalOwnership, PreparingOwnership, ReserveOwnership, UnlockOwnership
  DEF Next, Reserving
<1> QED  BY <1>1, <1>2

LEMMA StepIInv ==
  ASSUME MaxRegions < NumRegions, IInv, [Next]_vars
  PROVE  IInv'
<1>1. TypeOK'
  BY TypeStep
<1>2. Control'
  BY <1>1, ControlStep
<1>3. OneOwner' /\ NothingLost'
  BY <1>1, <1>2, OwnershipStep
<1> QED  BY <1>1, <1>2, <1>3 DEF IInv

LEMMA IInvHaveStorage == IInv => HaveStorage
<1> SUFFICES ASSUME IInv, NEW h \in Owned PROVE h[1] \in regionStarts
  BY DEF HaveStorage
<1>1. h \in Handles /\ h[1] > 0 /\ IsReserved(h)
  BY DEF IInv, NothingLost, Reserved
<1>2. h[1] \in Nat
  BY <1>1, PoolAssumption DEF Handles, Regions
<1>3. CASE regionState = LockedState
  <2>1. PICK t \in Threads : Creating(t) /\ h[1] <= seen[t].region
    BY <1>1, <1>3 DEF IsReserved
  <2>2. CASE Extending(t)
    BY <1>1, <1>2, <2>1, <2>2
    DEF IInv, Control, Allocators, Storage, Open
  <2>3. CASE ~Extending(t)
    BY <1>1, <1>2, <2>1, <2>3
    DEF IInv, Control, Allocators, Creating, Extending, InitState
  <2> QED  BY <2>2, <2>3
<1>4. CASE regionState # LockedState
  <2>1. Behind(regionState, h)
    BY <1>1, <1>4 DEF IsReserved
  <2>2. Open(regionState)
    BY <1>1, <1>2, <1>4, <2>1 DEF IInv, Control, StateIsOpen, Behind, InitState
  <2> QED  BY <1>1, <1>2, <2>1, <2>2 DEF IInv, Control, Storage, Behind, Open
<1> QED  BY <1>3, <1>4

-----------------------------------------------------------------------------
(* The theorems assume that the pool does not come to its last region,     *)
(* since the state has no room for the one after it: see RegionsExist.     *)

LEMMA Invariance ==
  ASSUME MaxRegions < NumRegions
  PROVE  Spec => []IInv
<1>1. Init => IInv
  BY InitIInv
<1>2. IInv /\ [Next]_vars => IInv'
  BY StepIInv
<1> QED  BY <1>1, <1>2, PTL DEF Spec

(* States and handles stay within the bits of the pool's sizes.            *)
THEOREM TypeCorrect ==
  ASSUME MaxRegions < NumRegions
  PROVE  Spec => []TypeOK
<1>1. IInv => TypeOK
  BY DEF IInv
<1> QED  BY <1>1, Invariance, PTL

(* No element is ever in two places, whatever the threads do at once: the  *)
(* compare and swap is all that allocation needs.                          *)
THEOREM ElementsHaveOneOwner ==
  ASSUME MaxRegions < NumRegions
  PROVE  Spec => []OneOwner
<1>1. IInv => OneOwner
  BY DEF IInv
<1> QED  BY <1>1, Invariance, PTL

(* Everything reserved is in use, free or in a thread's span.              *)
THEOREM NoElementIsLost ==
  ASSUME MaxRegions < NumRegions
  PROVE  Spec => []NothingLost
<1>1. IInv => NothingLost
  BY DEF IInv
<1> QED  BY <1>1, Invariance, PTL

(* A region has storage before any of its elements can be allocated.       *)
THEOREM ElementsHaveStorage ==
  ASSUME MaxRegions < NumRegions
  PROVE  Spec => []HaveStorage
<1>1. IInv => HaveStorage
  BY IInvHaveStorage
<1> QED  BY <1>1, Invariance, PTL

-----------------------------------------------------------------------------
(***************************************************************************)
(* How far the pool grows.                                                 *)
(***************************************************************************)
LEMMA Induction ==
  ASSUME NEW G, 0 \in G, \A i \in Nat : i \in G => i + 1 \in G
  PROVE  \A i \in Nat : i \in G
<1>. DEFINE Less == {ss \in Nat \X Nat : ss[1] < ss[2]}
            B == {i \in Nat : i \notin G}
<1>1. IsWellFoundedOn(Less, Nat)
  BY NatLessThanWellFounded DEF OpToRel
<1>2. SUFFICES ASSUME B # {} PROVE FALSE
  OBVIOUS
<1>3. PICK m \in B : \A i \in B : ~(<<i, m>> \in Less)
  BY <1>1, <1>2, WFMin
<1>4. m # 0 /\ m - 1 \in Nat /\ <<m - 1, m>> \in Less
  OBVIOUS
<1> QED BY <1>3, <1>4

(* A union has at most the number of its sets times the largest of them.   *)
LEMMA UnionIsSmall ==
  ASSUME NEW S, IsFiniteSet(S), NEW F, NEW c \in Nat,
         \A x \in S : IsFiniteSet(F[x]) /\ Cardinality(F[x]) <= c
  PROVE  /\ IsFiniteSet(UNION {F[x] : x \in S})
         /\ Cardinality(UNION {F[x] : x \in S}) <= c * Cardinality(S)
<1> DEFINE U(X) == UNION {F[x] : x \in X}
           Small(n, X) == IsFiniteSet(U(X)) /\ Cardinality(U(X)) <= c * n
           G == {n \in Nat : \A X \in SUBSET S : Cardinality(X) = n => Small(n, X)}
<1>1. \A X \in SUBSET S : IsFiniteSet(X) /\ Cardinality(X) \in Nat
  BY FS_Subset, FS_CardinalityType
<1>2. 0 \in G
  <2> SUFFICES ASSUME NEW X \in SUBSET S, Cardinality(X) = 0 PROVE Small(0, X)
    OBVIOUS
  <2>1. X = {}
    BY <1>1, FS_EmptySet
  <2>2. U(X) = {}
    BY <2>1
  <2> QED  BY <2>2, FS_EmptySet
<1>3. ASSUME NEW n \in Nat, n \in G PROVE n + 1 \in G
  <2> SUFFICES ASSUME NEW X \in SUBSET S, Cardinality(X) = n + 1
               PROVE  Small(n + 1, X)
    OBVIOUS
  <2>1. X # {}
    BY FS_EmptySet
  <2>2. PICK x \in X : TRUE
    BY <2>1
  <2> DEFINE Y == X \ {x}
  <2>3. Y \in SUBSET S /\ Cardinality(Y) = n
    <3>1. IsFiniteSet(X) /\ x \in X /\ Cardinality(X) = n + 1
      BY <1>1, <2>2
    <3>2. Cardinality(X \ {x}) = Cardinality(X) - 1
      BY <3>1, FS_RemoveElement
    <3> HIDE DEF G
    <3> QED  BY <3>1, <3>2
  <2>4. Small(n, Y)
    BY <1>3, <2>3
  <2>5. U(X) = U(Y) \cup F[x]
    BY <2>2
  <2>6. IsFiniteSet(F[x]) /\ Cardinality(F[x]) <= c
    BY <2>2
  <2> HIDE DEF U
  <2>7. /\ IsFiniteSet(U(X))
        /\ Cardinality(U(X)) =
             Cardinality(U(Y)) + Cardinality(F[x]) - Cardinality(U(Y) \cap F[x])
    BY <2>4, <2>5, <2>6, FS_Union
  <2>8. /\ Cardinality(U(Y)) \in Nat /\ Cardinality(F[x]) \in Nat
        /\ Cardinality(U(Y) \cap F[x]) \in Nat
    BY <2>4, <2>6, FS_Intersection, FS_CardinalityType
  <2>9. Cardinality(U(X)) <= c * n + c
    BY <2>4, <2>6, <2>7, <2>8
  <2>10. c * n + c = c * (n + 1)
    OBVIOUS
  <2> QED  BY <2>7, <2>9, <2>10
<1>4. Cardinality(S) \in Nat /\ Cardinality(S) \in G
  <2> HIDE DEF G
  <2> QED  BY <1>1, <1>2, <1>3, Induction
<1> QED  BY <1>4

LEMMA HandlesAreFinite ==
  \A S \in SUBSET Handles : IsFiniteSet(S) /\ Cardinality(S) \in Nat
<1>1. IsFiniteSet(Regions) /\ IsFiniteSet(0..MaxIndex)
  BY FS_Interval, PoolAssumption DEF Regions
<1>2. IsFiniteSet(Handles)
  BY <1>1, FS_Product DEF Handles
<1> QED  BY <1>2, FS_Subset, FS_CardinalityType

LEMMA ElementsAreFew ==
  ASSUME NEW r, NEW a \in Nat, NEW b \in Nat
  PROVE  /\ Elements(r, a, b) \in SUBSET Handles
         /\ a <= b => Cardinality(Elements(r, a, b)) <= b - a
<1> DEFINE S == Elements(r, a, b)
           f == [h \in S |-> h[2]]
<1>1. S \in SUBSET Handles
  BY DEF Elements
<1>2. \A h \in S : h = <<r, h[2]>> /\ h[2] \in a .. b - 1
  BY DEF Elements, Handles
<1>3. f \in Injection(S, a .. b - 1)
  <2>1. f \in [S -> a .. b - 1]
    BY <1>2
  <2>2. \A h, i \in S : f[h] = f[i] => h = i
    BY <1>2
  <2> QED  BY <2>1, <2>2, Fun_IsInj
<1>4. IsFiniteSet(a .. b - 1) /\ (a <= b => Cardinality(a .. b - 1) = b - a)
  <2> DEFINE e == b - 1
  <2>1. a \in Int /\ e \in Int /\ (a > e => a >= b) /\ e - a + 1 = b - a
    OBVIOUS
  <2> HIDE DEF e
  <2>2. /\ IsFiniteSet(a .. e)
        /\ Cardinality(a .. e) = IF a > e THEN 0 ELSE e - a + 1
    BY <2>1, FS_Interval
  <2>3. a <= b => Cardinality(a .. e) = b - a
    <3>1. CASE a > e
      <4>1. a <= b => b - a = 0
        BY <2>1, <3>1
      <4> QED  BY <2>2, <3>1, <4>1
    <3>2. CASE ~(a > e)
      BY <2>1, <2>2, <3>2
    <3> QED  BY <3>1, <3>2
  <2> QED  BY <2>2, <2>3 DEF e
<1> HIDE DEF S, f
<1>5. Cardinality(S) <= Cardinality(a .. b - 1)
  BY <1>3, <1>4, FS_Injection
<1> QED  BY <1>1, <1>4, <1>5 DEF S

LEMMA SomeThreads ==
  /\ \A S \in SUBSET Threads : /\ IsFiniteSet(S) /\ Cardinality(S) \in Nat
                               /\ Cardinality(S) <= Cardinality(Threads)
  /\ Cardinality(Threads) \in Nat /\ Cardinality(Threads) > 0
BY PoolAssumption, FS_Subset, FS_CardinalityType, FS_EmptySet

(* What a thread has that does not reserve a span.                         *)
LEMMA LocalSize ==
  ASSUME IInv, LocalIsSmall, NEW t \in Threads
  PROVE  /\ IsFiniteSet(Local(t))
         /\ Cardinality(Local(t)) <= 2 * ElemsPerSpan - 2
         /\ t \in Pending => Local(t) = {}
<1>1. free[t] \in SUBSET Handles /\ span[t] \in Spans /\ seen[t] \in States
  BY DEF IInv, TypeOK
<1>2. /\ span[t].begin \in Nat /\ span[t].end \in Nat /\ span[t].begin <= span[t].end
      /\ span[t].end - span[t].begin <= ElemsPerSpan - 1
      /\ seen[t].index \in Nat /\ MaxIndex \in Nat /\ ElemsPerSpan \in Nat
  BY <1>1, PoolAssumption DEF IInv, Control, Allocators, LocalIsSmall, Spans, States
<1>3. Extending(t) => seen[t].index <= MaxIndex /\ MaxIndex - seen[t].index <= ElemsPerSpan - 1
  BY <1>1, <1>2, PoolAssumption DEF LocalIsSmall, States
<1>4. Rest(t) \in SUBSET Handles /\ Cardinality(Rest(t)) <= ElemsPerSpan - 1
  <2>1. CASE Extending(t)
    <3>1. Rest(t) = Elements(seen[t].region, seen[t].index, MaxIndex)
      BY <2>1 DEF Rest
    <3>2. PICK r, a, b : r = seen[t].region /\ a = seen[t].index /\ b = MaxIndex
      OBVIOUS
    <3>3. /\ Elements(r, a, b) \in SUBSET Handles
          /\ Cardinality(Elements(r, a, b)) <= b - a
      <4>1. a \in Nat /\ b \in Nat /\ a <= b
        BY <1>2, <1>3, <2>1, <3>2
      <4> QED  BY <4>1, ElementsAreFew
    <3>4. /\ Rest(t) \in SUBSET Handles
          /\ Cardinality(Rest(t)) <= MaxIndex - seen[t].index
      BY <3>1, <3>2, <3>3
    <3> QED  BY <1>2, <1>3, <2>1, <3>4, HandlesAreFinite
  <2>2. CASE ~Extending(t)
    <3>1. Rest(t) = Elements(span[t].region, span[t].begin, span[t].end)
      BY <2>2 DEF Rest
    <3>2. PICK r, a, b : r = span[t].region /\ a = span[t].begin /\ b = span[t].end
      OBVIOUS
    <3>3. /\ Elements(r, a, b) \in SUBSET Handles
          /\ Cardinality(Elements(r, a, b)) <= b - a
      <4>1. a \in Nat /\ b \in Nat /\ a <= b
        BY <1>2, <3>2
      <4> QED  BY <4>1, ElementsAreFew
    <3>4. /\ Rest(t) \in SUBSET Handles
          /\ Cardinality(Rest(t)) <= span[t].end - span[t].begin
      BY <3>1, <3>2, <3>3
    <3> QED  BY <1>2, <3>4, HandlesAreFinite
  <2> QED  BY <2>1, <2>2
<1>5. /\ IsFiniteSet(free[t]) /\ Cardinality(free[t]) \in Nat
      /\ IsFiniteSet(Rest(t)) /\ Cardinality(Rest(t)) \in Nat
      /\ Cardinality(free[t]) <= ElemsPerSpan - 1
  <2>1. Cardinality(free[t]) < ElemsPerSpan
    BY DEF LocalIsSmall
  <2> QED  BY <1>1, <1>2, <1>4, <2>1, HandlesAreFinite
<1>6. /\ IsFiniteSet(free[t] \cup Rest(t)) /\ Cardinality(free[t] \cap Rest(t)) \in Nat
      /\ Cardinality(free[t] \cup Rest(t)) =
           Cardinality(free[t]) + Cardinality(Rest(t)) - Cardinality(free[t] \cap Rest(t))
  BY <1>5, FS_Union, FS_Intersection, FS_CardinalityType
<1>7. Cardinality(Local(t)) <= 2 * ElemsPerSpan - 2
  BY <1>2, <1>4, <1>5, <1>6 DEF Local
<1>8. ASSUME t \in Pending PROVE Local(t) = {}
  <2>1. free[t] = {} /\ span[t].begin = span[t].end /\ ~Extending(t)
    BY <1>8 DEF Pending, IInv, Control, Allocators, IsEmpty
  <2>2. Elements(span[t].region, span[t].begin, span[t].end) = {}
    BY <1>2, <2>1 DEF Elements, Handles
  <2> QED  BY <2>1, <2>2 DEF Local, Rest
<1> QED  BY <1>6, <1>7, <1>8 DEF Local

(* What there is when a thread has to reserve a span: what is in use, and  *)
(* what threads have that do not reserve one themselves.                   *)
LEMMA ReservedIsSmall ==
  ASSUME IInv, LocalIsSmall, NEW t \in Threads, t \notin Pending,
         shared = {}, Local(t) = {}
  PROVE  Cardinality(Reserved) <=
           Cardinality(used)
             + (Cardinality(Threads) - 1 - Cardinality(Pending)) * (2 * ElemsPerSpan - 2)
<1> DEFINE c == 2 * ElemsPerSpan - 2
<1>1. PICK S : S = (Threads \ Pending) \ {t}
  OBVIOUS
<1>2. /\ S \in SUBSET Threads /\ IsFiniteSet(S)
      /\ Cardinality(S) = Cardinality(Threads) - 1 - Cardinality(Pending)
  <2>1. PICK P : P = Pending
    OBVIOUS
  <2>2. P \in SUBSET Threads /\ t \notin P
    BY <2>1 DEF Pending
  <2>3. /\ IsFiniteSet(Threads \ P)
        /\ Cardinality(Threads \ P) = Cardinality(Threads) - Cardinality(Threads \cap P)
    BY SomeThreads, FS_Difference
  <2>4. Threads \cap P = P /\ t \in Threads \ P
    BY <2>2
  <2>5. /\ IsFiniteSet((Threads \ P) \ {t})
        /\ Cardinality((Threads \ P) \ {t}) = Cardinality(Threads \ P) - 1
    BY <2>3, <2>4, FS_RemoveElement
  <2>6. Cardinality(P) \in Nat /\ Cardinality(Threads) \in Nat
    BY <2>2, SomeThreads
  <2>7. Cardinality(Threads \ P) = Cardinality(Threads) - Cardinality(P)
    BY <2>3, <2>4
  <2>8. S = (Threads \ P) \ {t}
    BY <1>1, <2>1
  <2>9. Cardinality(S) = Cardinality(Threads) - 1 - Cardinality(P)
    BY <2>5, <2>6, <2>7, <2>8
  <2> QED  BY <2>1, <2>5, <2>8, <2>9
<1>3. PICK F : F = [u \in S |-> Local(u)]
  OBVIOUS
<1>4. c \in Nat
  BY PoolAssumption
<1>5. \A u \in S : IsFiniteSet(F[u]) /\ Cardinality(F[u]) <= c
  BY <1>2, <1>3, LocalSize
<1> HIDE DEF c
<1>6. PICK Others : Others = UNION {F[u] : u \in S}
  OBVIOUS
<1>7. IsFiniteSet(Others) /\ Cardinality(Others) <= c * Cardinality(S)
  <2>1. /\ IsFiniteSet(UNION {F[u] : u \in S})
        /\ Cardinality(UNION {F[u] : u \in S}) <= c * Cardinality(S)
    BY <1>2, <1>4, <1>5, UnionIsSmall, Zenon
  <2> QED  BY <1>6, <2>1, Zenon
<1>8. Reserved = used \cup Others
  <2>1. \A u \in Pending : Local(u) = {}
    <3> SUFFICES ASSUME NEW u \in Threads, u \in Pending PROVE Local(u) = {}
      BY DEF Pending
    <3> QED  BY LocalSize
  <2>2. UNION {Local(u) : u \in Threads} = Others
    <3>1. ASSUME NEW x, x \in UNION {Local(u) : u \in Threads} PROVE x \in Others
      <4>1. PICK u \in Threads : x \in Local(u)
        BY <3>1
      <4>2. u \in S
        BY <1>1, <2>1, <4>1
      <4> QED  BY <1>3, <1>6, <4>1, <4>2
    <3>2. ASSUME NEW x, x \in Others PROVE x \in UNION {Local(u) : u \in Threads}
      BY <1>2, <1>3, <1>6, <3>2
    <3> QED  BY <3>1, <3>2
  <2>3. Owned = used \cup UNION {Local(u) : u \in Threads}
    BY DEF Owned
  <2> QED  BY <2>2, <2>3 DEF IInv, NothingLost
<1>9. IsFiniteSet(used) /\ Cardinality(used) \in Nat
  BY HandlesAreFinite DEF IInv, TypeOK
<1>10. Cardinality(Reserved) <= Cardinality(used) + Cardinality(Others)
  <2>1. PICK U : U = used
    OBVIOUS
  <2>2. Cardinality(U \cup Others) =
          Cardinality(U) + Cardinality(Others) - Cardinality(U \cap Others)
    BY <1>7, <1>9, <2>1, FS_Union
  <2>3. /\ Cardinality(U \cap Others) \in Nat /\ Cardinality(Others) \in Nat
        /\ Cardinality(U) \in Nat
    BY <1>7, <1>9, <2>1, FS_Intersection, FS_CardinalityType
  <2> QED  BY <1>8, <2>1, <2>2, <2>3
<1>11. Cardinality(Others) \in Nat /\ Cardinality(S) \in Nat
  BY <1>2, <1>7, FS_CardinalityType
<1>12. Cardinality(Others) <= Cardinality(S) * c
  <2>1. c * Cardinality(S) = Cardinality(S) * c
    BY <1>4, <1>11
  <2> QED  BY <1>7, <2>1
<1>13. Cardinality(Reserved) \in Nat
  BY HandlesAreFinite DEF Reserved
<1>14. Cardinality(Reserved) <= Cardinality(used) + Cardinality(S) * c
  <2>1. PICK d : d = Cardinality(S) * c
    OBVIOUS
  <2>2. d \in Int
    BY <1>4, <1>11, <2>1
  <2> QED  BY <1>9, <1>10, <1>11, <1>12, <1>13, <2>1, <2>2
<1> QED  BY <1>2, <1>14 DEF c

LEMMA PendingAllocate ==
  /\ Pending \in SUBSET Threads /\ Allocating \in SUBSET Threads
  /\ Cardinality(Pending) \in Nat /\ Cardinality(Allocating) \in Nat
  /\ Cardinality(Pending) <= Cardinality(Allocating)
<1>1. Pending \subseteq Allocating /\ Allocating \subseteq Threads
  BY DEF Pending, Allocating
<1> QED  BY <1>1, SomeThreads, FS_Subset

LEMMA StartIsCounted ==
  ASSUME IInv, Growth, NEW t \in Threads, StartReserve(t), Reserved' = Reserved
  PROVE  SpansAreCounted'
<1>1. /\ pc[t] = "idle" /\ shared = {} /\ free[t] = {}
      /\ span[t].begin = span[t].end /\ span[t] \in Spans
      /\ Cardinality(used) + Cardinality(Allocating) < MaxUsed
  BY DEF StartReserve, MayAllocate, IsEmpty, IInv, TypeOK
<1>2. t \notin Pending /\ ~Extending(t)
  BY <1>1 DEF Pending, Extending
<1>3. Local(t) = {}
  <2>1. Elements(span[t].region, span[t].begin, span[t].end) = {}
    BY <1>1, PoolAssumption DEF Elements, Spans, Handles
  <2> QED  BY <1>1, <1>2, <2>1 DEF Local, Rest
<1>4. Pending' = Pending \cup {t}
  BY <1>1 DEF StartReserve, Goto, Pending, Extending, IInv, TypeOK
<1>5. PICK P : P = Pending
  OBVIOUS
<1>6. Cardinality(P \cup {t}) = Cardinality(P) + 1
  BY <1>2, <1>5, PendingAllocate, SomeThreads, FS_AddElement
<1>7. PICK k, n, a, r, E :
        /\ k = Cardinality(Pending) /\ n = Cardinality(Threads)
        /\ a = Cardinality(used) /\ r = Cardinality(Reserved) /\ E = ElemsPerSpan
  OBVIOUS
<1>8. k \in Nat /\ n \in Nat /\ a \in Nat /\ r \in Nat /\ E \in Nat /\ E > 0
  BY <1>7, PendingAllocate, SomeThreads, HandlesAreFinite, PoolAssumption
  DEF IInv, TypeOK, Reserved
<1>9. a + k < MaxUsed
  <2>1. Cardinality(used) \in Nat
    BY <1>7, <1>8
  <2> QED  BY <1>1, <1>7, <2>1, PendingAllocate, PoolAssumption
<1>10. r <= a + (n - 1 - k) * (2 * E - 2)
  BY <1>1, <1>2, <1>3, <1>7, ReservedIsSmall DEF Growth
<1>11. (n - 1 - k) * (2 * E - 2) = (n - 1) * (2 * E - 2) - k * (2 * E - 2)
  BY <1>8
<1>12. k * (2 * E - 2) >= E * k - k
  <2>1. k * (2 * E - 2) = (E * k - k) + k * (E - 1)
    BY <1>8
  <2>2. k * (E - 1) >= 0
    BY <1>8
  <2>3. E * k \in Int /\ k * (E - 1) \in Int
    BY <1>8
  <2> QED  BY <1>8, <2>1, <2>2, <2>3
<1>13. E * (k + 1) = E * k + E
  BY <1>8
<1>14. r + E * (k + 1) <= MaxUsed - 1 + (n - 1) * (2 * E - 2) + E
  <2>1. PICK x, y, z : /\ x = E * k /\ y = k * (2 * E - 2)
                       /\ z = (n - 1) * (2 * E - 2)
    OBVIOUS
  <2>2. x \in Int /\ y \in Int /\ z \in Int
    BY <1>8, <2>1
  <2> QED  BY <1>8, <1>9, <1>10, <1>11, <1>12, <1>13, <2>1, <2>2, PoolAssumption
<1>15. Cardinality(Reserved)' = r /\ Cardinality(Pending)' = k + 1 /\ MostReserved' = MostReserved
  BY <1>4, <1>5, <1>6, <1>7 DEF MostReserved
<1> QED  BY <1>7, <1>14, <1>15 DEF SpansAreCounted, MostReserved

(* A span that is reserved was counted for the thread.                     *)
LEMMA ReserveIsCounted ==
  ASSUME MaxRegions < NumRegions, IInv, TypeOK', Control', Growth, NEW t \in Threads,
         ReserveSpan(t)
  PROVE  SpansAreCounted'
<1>1. /\ seen[t] \in States /\ Open(seen[t])
      /\ seen[t].index \in Nat /\ seen[t].index < MaxIndex
  BY PoolAssumption
  DEF ReserveSpan, IInv, Control, StateIsOpen, Allocators, TypeOK, States, Open
<1>2. t \in Pending /\ Pending' = Pending \ {t}
  BY DEF ReserveSpan, TakeSpan, Goto, Pending, Extending, IInv, TypeOK
<1>3. PICK g, a, b :
        /\ g = seen[t].region /\ a = seen[t].index
        /\ b = IF Reserve(seen[t]) = LockedState THEN MaxIndex
                 ELSE seen[t].index + ElemsPerSpan
  OBVIOUS
<1>4. a \in Nat /\ b \in Nat /\ a <= b /\ b - a <= ElemsPerSpan
  BY <1>1, <1>3, ReserveIs, PoolAssumption
<1>5. PICK R, N : R = Reserved /\ N = Elements(g, a, b)
  OBVIOUS
<1>6. Reserved' = R \cup N
  BY <1>3, <1>5, ReserveOwnership
<1>7. /\ N \in SUBSET Handles /\ Cardinality(N) <= b - a
      /\ R \in SUBSET Handles
  BY <1>4, <1>5, ElementsAreFew DEF Reserved
<1>8. /\ Cardinality(R \cup N) = Cardinality(R) + Cardinality(N) - Cardinality(R \cap N)
      /\ Cardinality(R \cap N) \in Nat /\ Cardinality(R) \in Nat /\ Cardinality(N) \in Nat
      /\ Cardinality(R \cup N) \in Nat
  <2>1. IsFiniteSet(R) /\ IsFiniteSet(N)
    BY <1>7, HandlesAreFinite
  <2>2. Cardinality(R \cup N) = Cardinality(R) + Cardinality(N) - Cardinality(R \cap N)
    BY <2>1, FS_Union
  <2> QED  BY <1>7, <2>2, HandlesAreFinite
<1>9. Cardinality(R \cup N) <= Cardinality(R) + ElemsPerSpan
  BY <1>4, <1>7, <1>8, PoolAssumption
<1>10. PICK P : P = Pending
  OBVIOUS
<1>11. Cardinality(P \ {t}) = Cardinality(P) - 1 /\ Cardinality(P) \in Nat
  BY <1>2, <1>10, PendingAllocate, SomeThreads, FS_RemoveElement
<1>12. PICK k, r, E : k = Cardinality(P) /\ r = Cardinality(R) /\ E = ElemsPerSpan
  OBVIOUS
<1>13. E * (k - 1) = E * k - E /\ E * k \in Int /\ k \in Nat /\ E \in Nat /\ r \in Nat
  BY <1>8, <1>11, <1>12, PoolAssumption
<1>14. r + E * k <= MostReserved
  BY <1>5, <1>10, <1>12 DEF Growth, SpansAreCounted
<1>15. MostReserved \in Int
  <2>1. Cardinality(Threads) \in Nat
    BY SomeThreads
  <2> QED  BY <2>1, PoolAssumption DEF MostReserved
<1>16. Cardinality(R \cup N) + E * (k - 1) <= MostReserved
  BY <1>8, <1>9, <1>12, <1>13, <1>14, <1>15
<1> QED  BY <1>2, <1>6, <1>10, <1>11, <1>12, <1>16 DEF SpansAreCounted, MostReserved

LEMMA LocalSteps ==
  ASSUME MaxRegions < NumRegions, IInv, TypeOK', Control', LocalIsSmall, NEW t \in Threads,
         \/ PopFree(t) \/ AllocFromSpan(t) \/ TakeSharedFreeList(t) \/ StartReserve(t)
         \/ Free(t) \/ Reserving(t)
  PROVE  LocalIsSmall'
<1> USE DEF IInv
<1>1. \A u \in Threads \ {t} :
        /\ free'[u] = free[u] /\ span'[u] = span[u] /\ pc'[u] = pc[u] /\ seen'[u] = seen[u]
  BY DEF PopFree, AllocFromSpan, TakeSharedFreeList, StartReserve, Free, Reserving, Load,
         LockToInit, CreateFirstRegion, FirstUnlock, Unlocked, ReserveSpan, TakeSpan,
         SeeOtherState, CreateNextRegion, NextUnlock, Goto, TypeOK
<1>2. /\ free[t] \in SUBSET Handles /\ IsFiniteSet(free[t]) /\ Cardinality(free[t]) \in Nat
      /\ Cardinality(free[t]) < ElemsPerSpan
      /\ ElemsPerSpan \in Nat /\ ElemsPerSpan > 0 /\ MaxIndex \in Nat
      /\ span[t] \in Spans /\ seen[t] \in States
  BY HandlesAreFinite, PoolAssumption DEF TypeOK, LocalIsSmall
<1>3. PICK L : L = free[t]
  OBVIOUS
<1>4. (\A list \in shared' : Cardinality(list) <= ElemsPerSpan) /\ Cardinality(free'[t]) < ElemsPerSpan
  <2>1. CASE PopFree(t)
    <3>1. PICK h \in L : free' = [free EXCEPT ![t] = L \ {h}]
      BY <1>3, <2>1 DEF PopFree
    <3>2. Cardinality(L \ {h}) = Cardinality(L) - 1
      BY <1>2, <1>3, FS_RemoveElement
    <3>3. free'[t] = L \ {h} /\ shared' = shared
      BY <2>1, <3>1 DEF PopFree, TypeOK
    <3> QED  BY <1>2, <1>3, <3>2, <3>3 DEF LocalIsSmall
  <2>2. CASE TakeSharedFreeList(t)
    <3>1. PICK list \in shared : \E h \in list :
            /\ shared' = shared \ {list}
            /\ free' = [free EXCEPT ![t] = list \ {h}]
      BY <2>2 DEF TakeSharedFreeList
    <3>2. PICK h \in list :
            /\ shared' = shared \ {list}
            /\ free' = [free EXCEPT ![t] = list \ {h}]
      BY <3>1
    <3>3. /\ IsFiniteSet(list) /\ Cardinality(list) \in Nat
          /\ Cardinality(list) <= ElemsPerSpan
      BY <3>1, HandlesAreFinite DEF TypeOK, LocalIsSmall
    <3>4. Cardinality(list \ {h}) = Cardinality(list) - 1
      BY <3>2, <3>3, FS_RemoveElement
    <3>5. free'[t] = list \ {h} /\ shared' \subseteq shared
      BY <3>2 DEF TypeOK
    <3> QED  BY <1>2, <3>3, <3>4, <3>5 DEF LocalIsSmall
  <2>3. CASE Free(t)
    <3>1. PICK h \in used :
            IF Cardinality(L \cup {h}) < ElemsPerSpan
              THEN free' = [free EXCEPT ![t] = L \cup {h}] /\ UNCHANGED shared
              ELSE free' = [free EXCEPT ![t] = {}] /\ shared' = shared \cup {L \cup {h}}
      BY <1>3, <2>3 DEF Free
    <3>2. Cardinality(L \cup {h}) <= ElemsPerSpan
      <4>1. Cardinality(L \cup {h}) \in {Cardinality(L), Cardinality(L) + 1}
        BY <1>2, <1>3, FS_AddElement
      <4> QED  BY <1>2, <1>3, <4>1
    <3>3. Cardinality({}) = 0
      BY FS_EmptySet
    <3>4. CASE Cardinality(L \cup {h}) < ElemsPerSpan
      BY <3>1, <3>4 DEF LocalIsSmall, TypeOK
    <3>5. CASE ~(Cardinality(L \cup {h}) < ElemsPerSpan)
      BY <1>2, <3>1, <3>2, <3>3, <3>5 DEF LocalIsSmall, TypeOK
    <3> QED  BY <3>4, <3>5
  <2>4. CASE AllocFromSpan(t) \/ StartReserve(t) \/ Reserving(t)
    <3>1. UNCHANGED <<free, shared>>
      BY <2>4 DEF AllocFromSpan, StartReserve, Reserving, Load, LockToInit,
         CreateFirstRegion, FirstUnlock, Unlocked, ReserveSpan, TakeSpan,
         SeeOtherState, CreateNextRegion, NextUnlock
    <3> QED  BY <1>2, <3>1 DEF LocalIsSmall
  <2> QED  BY <2>1, <2>2, <2>3, <2>4
<1>5. /\ span'[t].end < span'[t].begin + ElemsPerSpan
      /\ Extending(t)' => MaxIndex < seen'[t].index + ElemsPerSpan
  <2>0. /\ span[t].end < span[t].begin + ElemsPerSpan
        /\ Extending(t) => MaxIndex < seen[t].index + ElemsPerSpan
        /\ span[t].begin \in Nat /\ span[t].end \in Nat
        /\ seen[t].index \in Nat
    BY <1>2 DEF LocalIsSmall, Spans, States
  <2>1. CASE AllocFromSpan(t)
    <3>1. /\ span'[t] = [span[t] EXCEPT !.begin = @ + 1]
          /\ Extending(t)' = Extending(t) /\ seen' = seen
      BY <2>1 DEF AllocFromSpan, TypeOK, Extending
    <3>2. span'[t].begin = span[t].begin + 1 /\ span'[t].end = span[t].end
      BY <1>2, <3>1 DEF Spans
    <3> QED  BY <1>2, <2>0, <3>1, <3>2
  <2>2. CASE PopFree(t) \/ TakeSharedFreeList(t) \/ Free(t)
    BY <2>0, <2>2 DEF PopFree, TakeSharedFreeList, Free, Extending
  <2>3. CASE \/ StartReserve(t) \/ Load(t) \/ LockToInit(t) \/ CreateFirstRegion(t)
             \/ FirstUnlock(t) \/ Unlocked(t) \/ SeeOtherState(t) \/ CreateNextRegion(t)
    <3>1. span' = span
      BY <2>3 DEF StartReserve, Load, LockToInit, CreateFirstRegion, FirstUnlock,
         Unlocked, SeeOtherState, CreateNextRegion
    <3>2. Extending(t)' => Extending(t) /\ seen' = seen
      BY <2>3 DEF StartReserve, Load, LockToInit, CreateFirstRegion, FirstUnlock,
         Unlocked, SeeOtherState, CreateNextRegion, Goto, Extending, TypeOK
    <3> QED  BY <2>0, <3>1, <3>2
  <2>4. CASE ReserveSpan(t) \/ NextUnlock(t)
    <3>1. PICK s : s = seen[t]
      OBVIOUS
    <3>2. /\ s \in States /\ Open(s) /\ s.index \in Nat /\ s.index < MaxIndex
      BY <2>4, <3>1, PoolAssumption
      DEF ReserveSpan, NextUnlock, Extending, Control, StateIsOpen, Allocators, TypeOK,
          States, Open
    <3>3. CASE ReserveSpan(t) /\ Reserve(s) = LockedState
      <4>1. span' = span /\ seen' = seen
        BY <3>1, <3>3 DEF ReserveSpan
      <4>2. MaxIndex < s.index + ElemsPerSpan
        BY <3>2, <3>3, ReserveIs
      <4> QED  BY <2>0, <3>1, <4>1, <4>2
    <3>4. CASE ReserveSpan(t) /\ Reserve(s) # LockedState
      <4>1. Reserve(s) = [region |-> s.region, index |-> s.index + ElemsPerSpan]
        BY <3>2, <3>4, ReserveIs
      <4>2. TakeSpan(t, Reserve(s))
        BY <3>1, <3>4 DEF ReserveSpan
      <4>3. /\ span'[t] = [region |-> s.region, begin |-> s.index + 1,
                           end |-> s.index + ElemsPerSpan]
            /\ ~Extending(t)'
        BY <3>1, <4>1, <4>2 DEF TakeSpan, Goto, Extending, TypeOK
      <4> QED  BY <1>2, <3>2, <4>3
    <3>5. CASE NextUnlock(t)
      <4>1. PICK f : f = FirstState(s.region + 1)
        OBVIOUS
      <4>2. f.region # s.region
        <5>1. s.region + 1 \in 1..MaxRegions
          BY <3>1, <3>5, PoolAssumption
          DEF NextUnlock, Extending, Control, Allocators, Open
        <5>2. f = [region |-> s.region + 1, index |-> 1]
          BY <4>1, <5>1, FirstStateIs
        <5>3. s.region \in Nat
          BY <3>2, PoolAssumption DEF Open
        <5> QED  BY <5>2, <5>3
      <4>3. TakeSpan(t, f)
        BY <3>1, <3>5, <4>1 DEF NextUnlock
      <4>4. /\ span'[t] = [region |-> s.region, begin |-> s.index + 1, end |-> MaxIndex]
            /\ ~Extending(t)'
        BY <3>1, <4>2, <4>3 DEF TakeSpan, Goto, Extending, TypeOK
      <4>5. MaxIndex < s.index + ElemsPerSpan
        BY <2>0, <3>1, <3>5 DEF NextUnlock, Extending
      <4> QED  BY <1>2, <3>2, <4>4, <4>5
    <3> QED  BY <2>4, <3>3, <3>4, <3>5
  <2> QED  BY <2>1, <2>2, <2>3, <2>4 DEF Reserving
<1> QED
  <2>1. \A u \in Threads \ {t} :
          /\ Cardinality(free'[u]) < ElemsPerSpan
          /\ span'[u].end < span'[u].begin + ElemsPerSpan
          /\ Extending(u)' => MaxIndex < seen'[u].index + ElemsPerSpan
    BY <1>1 DEF LocalIsSmall, Extending
  <2> QED  BY <1>4, <1>5, <2>1 DEF LocalIsSmall

Room == Cardinality(used) + Cardinality(Allocating) <= MaxUsed

LEMMA RoomSteps ==
  ASSUME IInv, TypeOK', Room, NEW t \in Threads,
         \/ PopFree(t) \/ AllocFromSpan(t) \/ TakeSharedFreeList(t) \/ StartReserve(t)
         \/ Free(t) \/ Reserving(t)
  PROVE  Room'
<1> USE DEF IInv
<1>1. PICK U, A : U = used /\ A = Allocating
  OBVIOUS
<1>2. /\ IsFiniteSet(U) /\ Cardinality(U) \in Nat /\ U \in SUBSET Handles
      /\ IsFiniteSet(A) /\ Cardinality(A) \in Nat
      /\ Cardinality(U) + Cardinality(A) <= MaxUsed /\ MaxUsed \in Nat
  BY <1>1, HandlesAreFinite, SomeThreads, PoolAssumption DEF TypeOK, Room, Allocating
<1>3. ASSUME NEW h
      PROVE  Cardinality(U \cup {h}) \in Nat /\ Cardinality(U \cup {h}) <= Cardinality(U) + 1
  BY <1>2, FS_AddElement, FS_CardinalityType
<1>4. CASE PopFree(t) \/ AllocFromSpan(t) \/ TakeSharedFreeList(t)
  <2>1. Cardinality(U) + Cardinality(A) < MaxUsed /\ Allocating' = A
    BY <1>1, <1>4 DEF PopFree, AllocFromSpan, TakeSharedFreeList, MayAllocate, Allocating
  <2>2. PICK h : used' = U \cup {h}
    BY <1>1, <1>4 DEF PopFree, AllocFromSpan, TakeSharedFreeList
  <2>3. Cardinality(U \cup {h}) + Cardinality(A) <= MaxUsed
    <3>1. Cardinality(U \cup {h}) \in Nat /\ Cardinality(U \cup {h}) <= Cardinality(U) + 1
      BY <1>3
    <3> QED  BY <1>2, <2>1, <3>1
  <2> QED  BY <2>1, <2>2, <2>3 DEF Room
<1>5. CASE StartReserve(t)
  <2>1. /\ Cardinality(U) + Cardinality(A) < MaxUsed
        /\ t \notin A /\ Allocating' = A \cup {t} /\ used' = U
    BY <1>1, <1>5 DEF StartReserve, MayAllocate, Allocating, TypeOK
  <2>2. Cardinality(A \cup {t}) = Cardinality(A) + 1
    BY <1>2, <2>1, FS_AddElement
  <2> QED  BY <1>2, <2>1, <2>2 DEF Room
<1>6. CASE Free(t)
  <2>1. PICK h \in U : used' = U \ {h}
    BY <1>1, <1>6 DEF Free
  <2>2. Cardinality(U \ {h}) = Cardinality(U) - 1
    BY <1>2, FS_RemoveElement
  <2>3. Allocating' = A
    BY <1>1, <1>6 DEF Free, Allocating
  <2> QED  BY <1>2, <2>1, <2>2, <2>3 DEF Room
<1>7. CASE \/ Load(t) \/ LockToInit(t) \/ CreateFirstRegion(t) \/ FirstUnlock(t)
           \/ Unlocked(t) \/ SeeOtherState(t) \/ CreateNextRegion(t)
           \/ ReserveSpan(t) /\ Reserve(seen[t]) = LockedState
  <2>1. Allocating' = A /\ used' = U
    BY <1>1, <1>7 DEF Load, LockToInit, CreateFirstRegion, FirstUnlock, Unlocked,
         SeeOtherState, CreateNextRegion, ReserveSpan, Goto, Allocating, TypeOK
  <2> QED  BY <1>2, <2>1 DEF Room
<1>8. CASE NextUnlock(t) \/ (ReserveSpan(t) /\ Reserve(seen[t]) # LockedState)
  <2>1. PICK f : TakeSpan(t, f) /\ pc[t] # "idle"
    BY <1>8 DEF NextUnlock, ReserveSpan
  <2>2. t \in A /\ Allocating' = A \ {t}
    BY <1>1, <2>1 DEF TakeSpan, Goto, Allocating, TypeOK
  <2>3. PICK h : used' = U \cup {h}
    BY <1>1, <2>1 DEF TakeSpan
  <2>4. Cardinality(A \ {t}) = Cardinality(A) - 1
    BY <1>2, <2>2, FS_RemoveElement
  <2>5. Cardinality(U \cup {h}) + Cardinality(A \ {t}) <= MaxUsed
    <3>1. Cardinality(U \cup {h}) \in Nat /\ Cardinality(U \cup {h}) <= Cardinality(U) + 1
      BY <1>3
    <3> QED  BY <1>2, <2>4, <3>1
  <2> QED  BY <2>2, <2>3, <2>5 DEF Room
<1> QED  BY <1>4, <1>5, <1>6, <1>7, <1>8 DEF Reserving

LEMMA CountSteps ==
  ASSUME MaxRegions < NumRegions, IInv, TypeOK', Control', Growth, NEW t \in Threads,
         \/ PopFree(t) \/ AllocFromSpan(t) \/ TakeSharedFreeList(t) \/ StartReserve(t)
         \/ Free(t) \/ Reserving(t)
  PROVE  SpansAreCounted'
<1>1. CASE PopFree(t) \/ AllocFromSpan(t) \/ TakeSharedFreeList(t) \/ Free(t)
  <2>1. Reserved' = Reserved
    BY <1>1, LocalOwnership
  <2>2. Pending' = Pending
    BY <1>1 DEF PopFree, AllocFromSpan, TakeSharedFreeList, Free, Pending, Extending
  <2> QED  BY <2>1, <2>2 DEF Growth, SpansAreCounted, MostReserved
<1>2. CASE StartReserve(t)
  BY <1>2, PreparingOwnership, StartIsCounted
<1>3. CASE \/ Load(t) \/ LockToInit(t) \/ CreateFirstRegion(t)
           \/ FirstUnlock(t) \/ Unlocked(t) \/ SeeOtherState(t) \/ CreateNextRegion(t)
  <2>1. Reserved' = Reserved
    BY <1>3, PreparingOwnership
  <2>2. Pending' = Pending
    BY <1>3 DEF IInv, TypeOK, Load, LockToInit, CreateFirstRegion, FirstUnlock, Unlocked,
       SeeOtherState, CreateNextRegion, Goto, Pending, Extending
  <2> QED  BY <2>1, <2>2 DEF Growth, SpansAreCounted, MostReserved
<1>4. CASE ReserveSpan(t)
  BY <1>4, ReserveIsCounted
<1>5. CASE NextUnlock(t)
  <2>1. Reserved' = Reserved
    BY <1>5, UnlockOwnership
  <2>2. Pending' = Pending
    BY <1>5 DEF IInv, TypeOK, NextUnlock, TakeSpan, Goto, Pending, Extending
  <2> QED  BY <2>1, <2>2 DEF Growth, SpansAreCounted, MostReserved
<1> QED  BY <1>1, <1>2, <1>3, <1>4, <1>5 DEF Reserving

LEMMA GrowthStep ==
  ASSUME MaxRegions < NumRegions, IInv, IInv', Growth, [Next]_vars
  PROVE  Growth'
<1>1. TypeOK' /\ Control'
  BY DEF IInv
<1>2. CASE UNCHANGED vars
  <2>1. /\ Allocating' = Allocating /\ Pending' = Pending /\ Reserved' = Reserved
        /\ UNCHANGED <<used, shared, free, span, pc, seen>>
    BY <1>2 DEF vars, Allocating, Pending, Extending, Reserved, IsReserved, Creating, Behind
  <2>2. LocalIsSmall'
    BY <2>1 DEF Growth, LocalIsSmall, Extending
  <2> QED  BY <2>1, <2>2 DEF Growth, SpansAreCounted, MostReserved
<1>3. CASE Next
  <2>1. PICK t \in Threads :
          \/ PopFree(t) \/ AllocFromSpan(t) \/ TakeSharedFreeList(t) \/ StartReserve(t)
          \/ Free(t) \/ Reserving(t)
    BY <1>3 DEF Next
  <2>2. LocalIsSmall /\ Room
    BY DEF Growth, Room
  <2>3. LocalIsSmall' /\ Room' /\ SpansAreCounted'
    BY <1>1, <2>1, <2>2, LocalSteps, RoomSteps, CountSteps
  <2> QED  BY <2>3 DEF Growth, Room
<1> QED  BY <1>2, <1>3

LEMMA InitGrowth ==
  ASSUME Init
  PROVE  Growth
<1>1. /\ Cardinality({}) = 0
  BY FS_EmptySet
<1>2. LocalIsSmall
  BY <1>1, PoolAssumption DEF Init, LocalIsSmall, NoSpan, Extending
<1>3. used = {} /\ Allocating = {} /\ Pending = {}
  BY DEF Init, Allocating, Pending
<1>4. Reserved = {}
  BY StatesDiffer, PoolAssumption
  DEF Init, Reserved, IsReserved, Behind, InitState, Handles, Regions
<1>5. \/ MaxUsed >= 1
      \/ MaxUsed = 0
  BY PoolAssumption
<1>6. MostReserved >= 0
  <2>1. PICK n, E : n = Cardinality(Threads) - 1 /\ E = ElemsPerSpan
    OBVIOUS
  <2>2. n \in Nat /\ E \in Nat /\ E > 0
    BY <2>1, SomeThreads, PoolAssumption
  <2>3. n * (2 * E - 2) >= 0 /\ n * (2 * E - 2) \in Int
    BY <2>2
  <2>4. MostReserved = MaxUsed - 1 + n * (2 * E - 2) + E
    BY <2>1 DEF MostReserved
  <2>5. PICK z : z = n * (2 * E - 2)
    OBVIOUS
  <2> QED  BY <2>2, <2>3, <2>4, <2>5, PoolAssumption
<1>7. ElemsPerSpan * 0 = 0
  BY PoolAssumption
<1>8. SpansAreCounted
  BY <1>1, <1>3, <1>4, <1>6, <1>7 DEF SpansAreCounted
<1> QED  BY <1>1, <1>2, <1>3, <1>8, PoolAssumption DEF Growth

(* What the pool reserves is bounded by what its clients use at once, what *)
(* the other threads can have for themselves, and one span: a thread that  *)
(* reserves a span has nothing left, and finds no list that others share.  *)
THEOREM GrowthIsBounded ==
  ASSUME MaxRegions < NumRegions
  PROVE  Spec => []GrowthBounded
<1>1. Init => IInv /\ Growth
  BY InitIInv, InitGrowth
<1>2. IInv /\ Growth /\ [Next]_vars => (IInv /\ Growth)'
  BY StepIInv, GrowthStep
<1>3. Growth => GrowthBounded
  <2> SUFFICES ASSUME Growth PROVE GrowthBounded
    OBVIOUS
  <2>1. PICK k, r, E : k = Cardinality(Pending) /\ r = Cardinality(Reserved) /\ E = ElemsPerSpan
    OBVIOUS
  <2>2. k \in Nat /\ r \in Nat /\ E \in Nat
    BY <2>1, PendingAllocate, HandlesAreFinite, PoolAssumption DEF Reserved
  <2>3. E * k >= 0 /\ E * k \in Int
    BY <2>2
  <2>4. r + E * k <= MostReserved
    BY <2>1 DEF Growth, SpansAreCounted
  <2>5. MostReserved \in Int
    <3>1. Cardinality(Threads) \in Nat
      BY SomeThreads
    <3> QED  BY <3>1, PoolAssumption DEF MostReserved
  <2> QED  BY <2>1, <2>2, <2>3, <2>4, <2>5 DEF GrowthBounded
<1> QED  BY <1>1, <1>2, <1>3, PTL DEF Spec

-----------------------------------------------------------------------------
(***************************************************************************)
(* List operations.                                                        *)
(***************************************************************************)

(* What is true of the empty sequence and of every one with an element     *)
(* more is true of all of them.                                            *)
LEMMA SequenceInduction ==
  ASSUME NEW T, NEW G, <<>> \in G,
         \A l \in Seq(T) : \A x \in T : l \in G => Append(l, x) \in G
  PROVE  Seq(T) \subseteq G
<1> DEFINE H == {n \in Nat : \A l \in Seq(T) : Len(l) = n => l \in G}
<1>1. 0 \in H
  <2>1. ASSUME NEW l \in Seq(T), Len(l) = 0 PROVE l \in G
    <3>1. l = <<>>
      BY <2>1
    <3> QED  BY <3>1
  <2> QED  BY <2>1
<1>2. ASSUME NEW n \in Nat, n \in H PROVE n + 1 \in H
  <2>1. ASSUME NEW l \in Seq(T), Len(l) = n + 1 PROVE l \in G
    <3>1. l # <<>>
      BY <2>1
    <3>2. PICK k \in Seq(T), x \in T : l = Append(k, x)
      BY <3>1, SequenceEmptyOrAppend
    <3>3. Len(k) = n
      BY <2>1, <3>2
    <3>4. k \in G
      BY <1>2, <3>3
    <3> QED  BY <3>2, <3>4
  <2> QED  BY <2>1
<1>3. \A n \in Nat : n \in H
  <2> HIDE DEF H
  <2> QED  BY <1>1, <1>2, Induction
<1>4. ASSUME NEW l \in Seq(T) PROVE l \in G
  BY <1>3
<1> QED  BY <1>4

(* What folding a list gives: a value for every part of it.                *)
IsFold(step, base, l, v) ==
  \E f : /\ f[0] = base
         /\ \A k \in 1..Len(l) : f[k] = step[<<f[k - 1], l[k]>>]
         /\ v = f[Len(l)]

LEMMA FoldOfEmpty ==
  ASSUME NEW step, NEW base, NEW v, IsFold(step, base, <<>>, v)
  PROVE  v = base
BY DEF IsFold

LEMMA FoldOfAppend ==
  ASSUME NEW T, NEW V, NEW base \in V, NEW step \in [V \X T -> V],
         NEW l \in Seq(T), NEW x \in T, NEW v, NEW w,
         IsFold(step, base, l, v), IsFold(step, base, Append(l, x), w)
  PROVE  w = step[<<v, x>>]
<1>1. PICK f : /\ f[0] = base
               /\ \A k \in 1..Len(l) : f[k] = step[<<f[k - 1], l[k]>>]
               /\ v = f[Len(l)]
  BY DEF IsFold
<1>2. PICK g : /\ g[0] = base
               /\ \A k \in 1..Len(Append(l, x)) : g[k] = step[<<g[k - 1], Append(l, x)[k]>>]
               /\ w = g[Len(Append(l, x))]
  BY DEF IsFold
<1>3. PICK n : n = Len(l)
  OBVIOUS
<1>4. /\ n \in Nat /\ Len(Append(l, x)) = n + 1 /\ Append(l, x)[n + 1] = x
      /\ \A k \in 1..n : Append(l, x)[k] = l[k]
  BY <1>3
<1> DEFINE H == {k \in Nat : k =< n => f[k] = g[k]}
<1>5. 0 \in H
  BY <1>1, <1>2
<1>6. ASSUME NEW k \in Nat, k \in H PROVE k + 1 \in H
  <2> SUFFICES ASSUME k + 1 =< n PROVE f[k + 1] = g[k + 1]
    OBVIOUS
  <2>1. f[k] = g[k] /\ k + 1 \in 1..n /\ k + 1 \in 1 .. n + 1 /\ (k + 1) - 1 = k
    BY <1>4, <1>6
  <2>2. f[k + 1] = step[<<f[k], l[k + 1]>>]
    BY <1>1, <1>3, <2>1
  <2>3. g[k + 1] = step[<<g[k], l[k + 1]>>]
    BY <1>2, <1>4, <2>1
  <2> QED  BY <2>1, <2>2, <2>3
<1>7. n \in H
  <2> HIDE DEF H
  <2> QED  BY <1>4, <1>5, <1>6, Induction
<1>8. g[n + 1] = step[<<g[n], x>>]
  <2>1. n + 1 \in 1 .. n + 1 /\ (n + 1) - 1 = n
    BY <1>4
  <2> QED  BY <1>2, <1>4, <2>1
<1> QED  BY <1>1, <1>2, <1>3, <1>4, <1>7, <1>8

(* The largest element of a set of indexes.                                *)
LEMMA LargestIs ==
  ASSUME NEW m \in Nat, NEW S \in SUBSET (1 .. m + 1), m + 1 \in S
  PROVE  LO!Max(S) = m + 1
<1>1. \A y \in S : m + 1 >= y
  OBVIOUS
<1>2. \A x \in S : (\A y \in S : x >= y) => x = m + 1
  OBVIOUS
<1> QED  BY <1>1, <1>2 DEF LO!Max

LEMMA LargestExists ==
  ASSUME NEW n \in Nat, NEW S \in SUBSET (1..n), S # {}
  PROVE  LO!Max(S) \in S
<1> DEFINE H == {m \in Nat : \A R \in SUBSET (1..m) : R # {} => LO!Max(R) \in R}
<1>1. 0 \in H
  <2>1. 1..0 = {}
    OBVIOUS
  <2> QED  BY <2>1
<1>2. ASSUME NEW m \in Nat, m \in H PROVE m + 1 \in H
  <2>1. ASSUME NEW R \in SUBSET (1 .. m + 1), R # {} PROVE LO!Max(R) \in R
    <3>1. CASE m + 1 \in R
      BY <3>1, LargestIs
    <3>2. CASE m + 1 \notin R
      <4>1. R \in SUBSET (1..m)
        BY <3>2
      <4> QED  BY <1>2, <2>1, <4>1
    <3> QED  BY <3>1, <3>2
  <2> QED  BY <2>1
<1>3. n \in H
  <2> HIDE DEF H
  <2> QED  BY <1>1, <1>2, Induction
<1> QED  BY <1>3

(* Folds go over the indexes of a sequence, the largest one last.          *)
FoldsTo(V, base, step, l, m, g) ==
  /\ g \in [SUBSET (1..m) -> V]
  /\ \A S \in SUBSET (1..m) :
       g[S] = IF S = {} THEN base ELSE step[<<g[S \ {LO!Max(S)}], l[LO!Max(S)]>>]

LEMMA FoldExists ==
  ASSUME NEW T, NEW V, NEW base \in V, NEW step \in [V \X T -> V], NEW l \in Seq(T)
  PROVE  \E g : FoldsTo(V, base, step, l, Len(l), g)
<1> DEFINE H == {m \in Nat : m =< Len(l) => \E g : FoldsTo(V, base, step, l, m, g)}
<1>0. Len(l) \in Nat /\ \A i \in 1..Len(l) : l[i] \in T
  OBVIOUS
<1>1. 0 \in H
  <2>1. PICK g : g = [S \in {{}} |-> base]
    OBVIOUS
  <2>2. SUBSET (1..0) = {{}}
    OBVIOUS
  <2>3. FoldsTo(V, base, step, l, 0, g)
    BY <2>1, <2>2 DEF FoldsTo
  <2> QED  BY <2>3
<1>2. ASSUME NEW m \in Nat, m \in H PROVE m + 1 \in H
  <2> SUFFICES ASSUME m + 1 =< Len(l) PROVE \E g : FoldsTo(V, base, step, l, m + 1, g)
    OBVIOUS
  <2>1. m =< Len(l) /\ m + 1 \in 1..Len(l)
    BY <1>0
  <2>2. PICK g : FoldsTo(V, base, step, l, m, g)
    BY <1>2, <2>1
  <2> DEFINE h == [S \in SUBSET (1 .. m + 1) |->
                     IF m + 1 \in S THEN step[<<g[S \ {m + 1}], l[m + 1]>>] ELSE g[S]]
  <2>3. \A S \in SUBSET (1 .. m + 1) : S \ {m + 1} \in SUBSET (1..m)
    OBVIOUS
  <2>4. \A S \in SUBSET (1 .. m + 1) : m + 1 \notin S => S \in SUBSET (1..m)
    OBVIOUS
  <2>5. \A S \in SUBSET (1..m) : S \in SUBSET (1 .. m + 1) /\ m + 1 \notin S
    OBVIOUS
  <2>6. h \in [SUBSET (1 .. m + 1) -> V]
    <3>1. l[m + 1] \in T
      BY <1>0, <2>1
    <3> QED  BY <2>2, <2>3, <2>4, <3>1 DEF FoldsTo
  <2>7. \A S \in SUBSET (1..m) : h[S] = g[S]
    BY <2>5
  <2>8. ASSUME NEW S \in SUBSET (1 .. m + 1)
        PROVE  h[S] = IF S = {} THEN base ELSE step[<<h[S \ {LO!Max(S)}], l[LO!Max(S)]>>]
    <3>1. CASE m + 1 \in S
      <4>1. LO!Max(S) = m + 1
        BY <3>1, LargestIs
      <4>2. h[S] = step[<<g[S \ {m + 1}], l[m + 1]>>]
        BY <3>1
      <4>3. h[S \ {m + 1}] = g[S \ {m + 1}]
        BY <2>3, <2>7
      <4> QED  BY <3>1, <4>1, <4>2, <4>3
    <3>2. CASE m + 1 \notin S
      <4>1. S \in SUBSET (1..m) /\ h[S] = g[S]
        BY <2>4, <2>7, <3>2
      <4>2. S \ {LO!Max(S)} \in SUBSET (1..m)
        BY <4>1
      <4>3. h[S \ {LO!Max(S)}] = g[S \ {LO!Max(S)}]
        BY <2>7, <4>2
      <4> QED  BY <2>2, <4>1, <4>3 DEF FoldsTo
    <3> QED  BY <3>1, <3>2
  <2> HIDE DEF h
  <2>9. FoldsTo(V, base, step, l, m + 1, h)
    BY <2>6, <2>8 DEF FoldsTo
  <2> QED  BY <2>9
<1>3. Len(l) \in H
  <2> HIDE DEF H
  <2> QED  BY <1>0, <1>1, <1>2, Induction
<1> QED  BY <1>0, <1>3

Follows(V, base, step, l, h) ==
  /\ h[{}] = base
  /\ \A S \in SUBSET (1..Len(l)) :
       S # {} /\ h[S \ {LO!Max(S)}] \in V =>
         h[S] = step[<<h[S \ {LO!Max(S)}], l[LO!Max(S)]>>]

LEMMA FoldIs ==
  ASSUME NEW T, NEW V, NEW base \in V, NEW step \in [V \X T -> V], NEW l \in Seq(T),
         NEW h, Follows(V, base, step, l, h)
  PROVE  IsFold(step, base, l, h[1..Len(l)]) /\ h[1..Len(l)] \in V
<1>1. PICK f : f = [k \in 0..Len(l) |-> h[1..k]]
  OBVIOUS
<1>2. Len(l) \in Nat /\ \A i \in 1..Len(l) : l[i] \in T
  OBVIOUS
<1>3. f[0] = base
  <2>1. 1..0 = {}
    OBVIOUS
  <2> QED  BY <1>1, <1>2, <2>1 DEF Follows
<1>4. ASSUME NEW k \in 1..Len(l), f[k - 1] \in V PROVE f[k] = step[<<f[k - 1], l[k]>>]
  <2>1. k - 1 \in Nat /\ k - 1 \in 0..Len(l) /\ (k - 1) + 1 = k
    BY <1>2
  <2>2. PICK S : S = 1..k
    OBVIOUS
  <2>3. S \in SUBSET (1..Len(l)) /\ S # {} /\ k \in S
    <3>1. k \in Nat /\ 1 =< k /\ k =< Len(l)
      BY <1>2
    <3> QED  BY <1>2, <2>2, <3>1
  <2>4. LO!Max(S) = k
    <3>1. PICK m : m = k - 1
      OBVIOUS
    <3>2. m \in Nat /\ m + 1 = k
      BY <2>1, <3>1
    <3> QED  BY <2>2, <2>3, <3>2, LargestIs
  <2>5. S \ {k} = 1 .. k - 1
    BY <2>2
  <2>6. f[k - 1] = h[S \ {k}] /\ f[k] = h[S]
    <3>1. f[k - 1] = h[1 .. k - 1]
      BY <1>1, <2>1
    <3>2. f[k] = h[1..k]
      BY <1>1, <1>2
    <3> QED  BY <2>2, <2>5, <3>1, <3>2
  <2> QED  BY <1>4, <2>3, <2>4, <2>6 DEF Follows
<1> DEFINE H == {k \in Nat : k =< Len(l) => f[k] \in V}
<1>5. 0 \in H
  BY <1>3
<1>6. ASSUME NEW k \in Nat, k \in H PROVE k + 1 \in H
  <2> SUFFICES ASSUME k + 1 =< Len(l) PROVE f[k + 1] \in V
    OBVIOUS
  <2>1. k + 1 \in 1..Len(l) /\ (k + 1) - 1 = k /\ f[k] \in V
    BY <1>2, <1>6
  <2>2. f[k + 1] = step[<<f[k], l[k + 1]>>] /\ l[k + 1] \in T
    BY <1>2, <1>4, <2>1
  <2> QED  BY <2>1, <2>2
<1>7. \A k \in Nat : k \in H
  <2> HIDE DEF H
  <2> QED  BY <1>5, <1>6, Induction
<1>8. \A k \in 1..Len(l) : f[k] = step[<<f[k - 1], l[k]>>]
  <2> SUFFICES ASSUME NEW k \in 1..Len(l) PROVE f[k] = step[<<f[k - 1], l[k]>>]
    OBVIOUS
  <2>1. k - 1 \in Nat /\ k - 1 =< Len(l)
    BY <1>2
  <2>2. f[k - 1] \in V
    BY <1>7, <2>1
  <2> QED  BY <1>4, <2>2
<1>9. f[Len(l)] = h[1..Len(l)] /\ f[Len(l)] \in V
  BY <1>1, <1>2, <1>7
<1> QED  BY <1>3, <1>8, <1>9 DEF IsFold

-----------------------------------------------------------------------------
(* What the list operations do to one item more.                           *)

WithoutStep(X) ==
  [a \in Seq(Items) \X Items |-> IF a[2] \in X THEN a[1] ELSE Append(a[1], a[2])]

LEMMA WithoutFolds ==
  ASSUME NEW l \in Seq(Items), NEW X
  PROVE  /\ IsFold(WithoutStep(X), <<>>, l, LO!Without(l, X))
         /\ LO!Without(l, X) \in Seq(Items)
<1> DEFINE step == WithoutStep(X)
           V == Seq(Items)
<1>1. step \in [V \X Items -> V] /\ <<>> \in V
  BY DEF WithoutStep
<1>2. PICK g : FoldsTo(V, <<>>, step, l, Len(l), g)
  BY <1>1, FoldExists
<1>0. Len(l) \in Nat
  OBVIOUS
<1>3. DOMAIN l = 1..Len(l) /\ \A i \in 1..Len(l) : l[i] \in Items
  OBVIOUS
<1>4. ASSUME NEW S \in SUBSET (1..Len(l)), S # {}
      PROVE  l[LO!Max(S)] \in Items
  <2>1. LO!Max(S) \in S
    BY <1>0, <1>4, LargestExists
  <2> QED  BY <1>3, <2>1
<1>5. \A v \in V, x \in Items :
        step[<<v, x>>] = IF x \in X THEN v ELSE Append(v, x)
  BY DEF WithoutStep
<1>6. g = [S \in SUBSET DOMAIN l |->
             IF S = {} THEN <<>>
             ELSE IF l[LO!Max(S)] \in X THEN g[S \ {LO!Max(S)}]
             ELSE Append(g[S \ {LO!Max(S)}], l[LO!Max(S)])]
  <2>1. ASSUME NEW S \in SUBSET (1..Len(l)), S # {}
        PROVE  g[S] = IF l[LO!Max(S)] \in X THEN g[S \ {LO!Max(S)}]
                        ELSE Append(g[S \ {LO!Max(S)}], l[LO!Max(S)])
    <3>1. g[S] = step[<<g[S \ {LO!Max(S)}], l[LO!Max(S)]>>] /\ g[S \ {LO!Max(S)}] \in V
      BY <1>2, <2>1 DEF FoldsTo
    <3> QED  BY <1>4, <1>5, <2>1, <3>1
  <2>2. g[{}] = <<>> /\ g \in [SUBSET (1..Len(l)) -> V]
    BY <1>2 DEF FoldsTo
  <2> QED  BY <1>3, <2>1, <2>2
<1>7. PICK h : /\ h = [S \in SUBSET DOMAIN l |->
                         IF S = {} THEN <<>>
                         ELSE IF l[LO!Max(S)] \in X THEN h[S \ {LO!Max(S)}]
                         ELSE Append(h[S \ {LO!Max(S)}], l[LO!Max(S)])]
               /\ LO!Without(l, X) = h[DOMAIN l]
  BY <1>6, Zenon DEF LO!Without, LO!FoldLeft, LO!MapThenFoldSet
<1>8. \A S \in SUBSET (1..Len(l)) : S # {} /\ h[S \ {LO!Max(S)}] \in V =>
        h[S] = step[<<h[S \ {LO!Max(S)}], l[LO!Max(S)]>>]
  <2> SUFFICES ASSUME NEW S \in SUBSET (1..Len(l)), S # {}, h[S \ {LO!Max(S)}] \in V
               PROVE  h[S] = step[<<h[S \ {LO!Max(S)}], l[LO!Max(S)]>>]
    OBVIOUS
  <2>1. h[S] = IF l[LO!Max(S)] \in X THEN h[S \ {LO!Max(S)}]
                 ELSE Append(h[S \ {LO!Max(S)}], l[LO!Max(S)])
    BY <1>3, <1>7
  <2> QED  BY <1>4, <1>5, <2>1
<1>9. h[{}] = <<>>
  BY <1>7
<1> HIDE DEF step, V
<1>11. Follows(V, <<>>, step, l, h)
  BY <1>8, <1>9 DEF Follows
<1>10. IsFold(step, <<>>, l, h[1..Len(l)]) /\ h[1..Len(l)] \in V
  BY <1>1, <1>11, FoldIs
<1> QED  BY <1>3, <1>7, <1>10 DEF step, V

LEMMA InsertIfUniqueTyped ==
  ASSUME NEW l \in Seq(Items), NEW x \in Items
  PROVE  LO!InsertIfUnique(l, x) \in Seq(Items)
BY DEF LO!InsertIfUnique

LEMMA MoveToBackTyped ==
  ASSUME NEW l \in Seq(Items), NEW x \in Items
  PROVE  LO!MoveToBack(l, x) \in Seq(Items)
<1>1. LO!Without(l, {x}) \in Seq(Items)
  BY WithoutFolds
<1> QED  BY <1>1 DEF LO!MoveToBack

LEMMA MoveToFrontTyped ==
  ASSUME NEW l \in Seq(Items), NEW x \in Items
  PROVE  LO!MoveToFront(l, x) \in Seq(Items)
<1>1. LO!Without(l, {x}) \in Seq(Items)
  BY WithoutFolds
<1> QED  BY <1>1 DEF LO!MoveToFront

InsertStep ==
  [a \in Seq(Items) \X Items |-> LO!InsertIfUnique(a[1], a[2])]

LEMMA AddKeysFolds ==
  ASSUME NEW l \in Seq(Items), NEW m \in Seq(Items)
  PROVE  /\ IsFold(InsertStep, l, m, LO!AddKeys(l, m))
         /\ LO!AddKeys(l, m) \in Seq(Items)
<1> DEFINE step == InsertStep
           V == Seq(Items)
<1>1. step \in [V \X Items -> V] /\ l \in V
  BY InsertIfUniqueTyped DEF InsertStep
<1>2. PICK g : FoldsTo(V, l, step, m, Len(m), g)
  BY <1>1, FoldExists
<1>0. Len(m) \in Nat
  OBVIOUS
<1>3. DOMAIN m = 1..Len(m) /\ \A i \in 1..Len(m) : m[i] \in Items
  OBVIOUS
<1>4. ASSUME NEW S \in SUBSET (1..Len(m)), S # {}
      PROVE  m[LO!Max(S)] \in Items
  <2>1. LO!Max(S) \in S
    BY <1>0, <1>4, LargestExists
  <2> QED  BY <1>3, <2>1
<1>5. \A v \in V, x \in Items : step[<<v, x>>] = LO!InsertIfUnique(v, x)
  BY DEF InsertStep
<1>6. g = [S \in SUBSET DOMAIN m |->
             IF S = {} THEN l
             ELSE LO!InsertIfUnique(g[S \ {LO!Max(S)}], m[LO!Max(S)])]
  <2>1. ASSUME NEW S \in SUBSET (1..Len(m)), S # {}
        PROVE  g[S] = LO!InsertIfUnique(g[S \ {LO!Max(S)}], m[LO!Max(S)])
    <3>1. g[S] = step[<<g[S \ {LO!Max(S)}], m[LO!Max(S)]>>] /\ g[S \ {LO!Max(S)}] \in V
      BY <1>2, <2>1 DEF FoldsTo
    <3> QED  BY <1>4, <1>5, <2>1, <3>1
  <2>2. g[{}] = l /\ g \in [SUBSET (1..Len(m)) -> V]
    BY <1>2 DEF FoldsTo
  <2> QED  BY <1>3, <2>1, <2>2
<1>7. PICK h : /\ h = [S \in SUBSET DOMAIN m |->
                         IF S = {} THEN l
                         ELSE LO!InsertIfUnique(h[S \ {LO!Max(S)}], m[LO!Max(S)])]
               /\ LO!AddKeys(l, m) = h[DOMAIN m]
  BY <1>6, Zenon DEF LO!AddKeys, LO!FoldLeft, LO!MapThenFoldSet
<1>8. \A S \in SUBSET (1..Len(m)) : S # {} /\ h[S \ {LO!Max(S)}] \in V =>
        h[S] = step[<<h[S \ {LO!Max(S)}], m[LO!Max(S)]>>]
  <2> SUFFICES ASSUME NEW S \in SUBSET (1..Len(m)), S # {}, h[S \ {LO!Max(S)}] \in V
               PROVE  h[S] = step[<<h[S \ {LO!Max(S)}], m[LO!Max(S)]>>]
    OBVIOUS
  <2>1. h[S] = LO!InsertIfUnique(h[S \ {LO!Max(S)}], m[LO!Max(S)])
    BY <1>3, <1>7
  <2> QED  BY <1>4, <1>5, <2>1
<1>9. h[{}] = l
  BY <1>7
<1> HIDE DEF step, V
<1>11. Follows(V, l, step, m, h)
  BY <1>8, <1>9 DEF Follows
<1>10. IsFold(step, l, m, h[1..Len(m)]) /\ h[1..Len(m)] \in V
  BY <1>1, <1>11, FoldIs
<1> QED  BY <1>3, <1>7, <1>10 DEF step, V

ToBackStep ==
  [a \in Seq(Items) \X Items |-> LO!MoveToBack(a[1], a[2])]

LEMMA AppendKeysFolds ==
  ASSUME NEW l \in Seq(Items), NEW m \in Seq(Items)
  PROVE  /\ IsFold(ToBackStep, l, m, LO!AppendKeys(l, m))
         /\ LO!AppendKeys(l, m) \in Seq(Items)
<1> DEFINE step == ToBackStep
           V == Seq(Items)
<1>1. step \in [V \X Items -> V] /\ l \in V
  BY MoveToBackTyped DEF ToBackStep
<1>2. PICK g : FoldsTo(V, l, step, m, Len(m), g)
  BY <1>1, FoldExists
<1>0. Len(m) \in Nat
  OBVIOUS
<1>3. DOMAIN m = 1..Len(m) /\ \A i \in 1..Len(m) : m[i] \in Items
  OBVIOUS
<1>4. ASSUME NEW S \in SUBSET (1..Len(m)), S # {}
      PROVE  m[LO!Max(S)] \in Items
  <2>1. LO!Max(S) \in S
    BY <1>0, <1>4, LargestExists
  <2> QED  BY <1>3, <2>1
<1>5. \A v \in V, x \in Items : step[<<v, x>>] = LO!MoveToBack(v, x)
  BY DEF ToBackStep
<1>6. g = [S \in SUBSET DOMAIN m |->
             IF S = {} THEN l
             ELSE LO!MoveToBack(g[S \ {LO!Max(S)}], m[LO!Max(S)])]
  <2>1. ASSUME NEW S \in SUBSET (1..Len(m)), S # {}
        PROVE  g[S] = LO!MoveToBack(g[S \ {LO!Max(S)}], m[LO!Max(S)])
    <3>1. g[S] = step[<<g[S \ {LO!Max(S)}], m[LO!Max(S)]>>] /\ g[S \ {LO!Max(S)}] \in V
      BY <1>2, <2>1 DEF FoldsTo
    <3> QED  BY <1>4, <1>5, <2>1, <3>1
  <2>2. g[{}] = l /\ g \in [SUBSET (1..Len(m)) -> V]
    BY <1>2 DEF FoldsTo
  <2> QED  BY <1>3, <2>1, <2>2
<1>7. PICK h : /\ h = [S \in SUBSET DOMAIN m |->
                         IF S = {} THEN l
                         ELSE LO!MoveToBack(h[S \ {LO!Max(S)}], m[LO!Max(S)])]
               /\ LO!AppendKeys(l, m) = h[DOMAIN m]
  BY <1>6, Zenon DEF LO!AppendKeys, LO!FoldLeft, LO!MapThenFoldSet
<1>8. \A S \in SUBSET (1..Len(m)) : S # {} /\ h[S \ {LO!Max(S)}] \in V =>
        h[S] = step[<<h[S \ {LO!Max(S)}], m[LO!Max(S)]>>]
  <2> SUFFICES ASSUME NEW S \in SUBSET (1..Len(m)), S # {}, h[S \ {LO!Max(S)}] \in V
               PROVE  h[S] = step[<<h[S \ {LO!Max(S)}], m[LO!Max(S)]>>]
    OBVIOUS
  <2>1. h[S] = LO!MoveToBack(h[S \ {LO!Max(S)}], m[LO!Max(S)])
    BY <1>3, <1>7
  <2> QED  BY <1>4, <1>5, <2>1
<1>9. h[{}] = l
  BY <1>7
<1> HIDE DEF step, V
<1>11. Follows(V, l, step, m, h)
  BY <1>8, <1>9 DEF Follows
<1>10. IsFold(step, l, m, h[1..Len(m)]) /\ h[1..Len(m)] \in V
  BY <1>1, <1>11, FoldIs
<1> QED  BY <1>3, <1>7, <1>10 DEF step, V

ToFrontStep ==
  [a \in Seq(Items) \X Items |-> LO!MoveToFront(a[1], a[2])]

LEMMA MoveToFrontFolds ==
  ASSUME NEW l \in Seq(Items), NEW m \in Seq(Items)
  PROVE  /\ IsFold(ToFrontStep, l, m, LO!FoldLeft(LO!MoveToFront, l, m))
         /\ LO!FoldLeft(LO!MoveToFront, l, m) \in Seq(Items)
<1> DEFINE step == ToFrontStep
           V == Seq(Items)
<1>1. step \in [V \X Items -> V] /\ l \in V
  BY MoveToFrontTyped DEF ToFrontStep
<1>2. PICK g : FoldsTo(V, l, step, m, Len(m), g)
  BY <1>1, FoldExists
<1>0. Len(m) \in Nat
  OBVIOUS
<1>3. DOMAIN m = 1..Len(m) /\ \A i \in 1..Len(m) : m[i] \in Items
  OBVIOUS
<1>4. ASSUME NEW S \in SUBSET (1..Len(m)), S # {}
      PROVE  m[LO!Max(S)] \in Items
  <2>1. LO!Max(S) \in S
    BY <1>0, <1>4, LargestExists
  <2> QED  BY <1>3, <2>1
<1>5. \A v \in V, x \in Items : step[<<v, x>>] = LO!MoveToFront(v, x)
  BY DEF ToFrontStep
<1>6. g = [S \in SUBSET DOMAIN m |->
             IF S = {} THEN l
             ELSE LO!MoveToFront(g[S \ {LO!Max(S)}], m[LO!Max(S)])]
  <2>1. ASSUME NEW S \in SUBSET (1..Len(m)), S # {}
        PROVE  g[S] = LO!MoveToFront(g[S \ {LO!Max(S)}], m[LO!Max(S)])
    <3>1. g[S] = step[<<g[S \ {LO!Max(S)}], m[LO!Max(S)]>>] /\ g[S \ {LO!Max(S)}] \in V
      BY <1>2, <2>1 DEF FoldsTo
    <3> QED  BY <1>4, <1>5, <2>1, <3>1
  <2>2. g[{}] = l /\ g \in [SUBSET (1..Len(m)) -> V]
    BY <1>2 DEF FoldsTo
  <2> QED  BY <1>3, <2>1, <2>2
<1>7. PICK h : /\ h = [S \in SUBSET DOMAIN m |->
                         IF S = {} THEN l
                         ELSE LO!MoveToFront(h[S \ {LO!Max(S)}], m[LO!Max(S)])]
               /\ LO!FoldLeft(LO!MoveToFront, l, m) = h[DOMAIN m]
  BY <1>6, Zenon DEF LO!MoveToFront, LO!FoldLeft, LO!MapThenFoldSet
<1>8. \A S \in SUBSET (1..Len(m)) : S # {} /\ h[S \ {LO!Max(S)}] \in V =>
        h[S] = step[<<h[S \ {LO!Max(S)}], m[LO!Max(S)]>>]
  <2> SUFFICES ASSUME NEW S \in SUBSET (1..Len(m)), S # {}, h[S \ {LO!Max(S)}] \in V
               PROVE  h[S] = step[<<h[S \ {LO!Max(S)}], m[LO!Max(S)]>>]
    OBVIOUS
  <2>1. h[S] = LO!MoveToFront(h[S \ {LO!Max(S)}], m[LO!Max(S)])
    BY <1>3, <1>7
  <2> QED  BY <1>4, <1>5, <2>1
<1>9. h[{}] = l
  BY <1>7
<1> HIDE DEF step, V
<1>11. Follows(V, l, step, m, h)
  BY <1>8, <1>9 DEF Follows
<1>10. IsFold(step, l, m, h[1..Len(m)]) /\ h[1..Len(m)] \in V
  BY <1>1, <1>11, FoldIs
<1> QED  BY <1>3, <1>7, <1>10 DEF step, V

-----------------------------------------------------------------------------
(* The members of a list, and lists without duplicates.                    *)
NoneTwice(l) == \A i, j \in 1..Len(l) : l[i] = l[j] => i = j

LEMMA Members ==
  ASSUME NEW T, NEW l \in Seq(T), NEW m \in Seq(T), NEW x \in T
  PROVE  /\ LO!ToSet(<<>>) = {}
         /\ LO!ToSet(l) \subseteq T
         /\ LO!ToSet(Append(l, x)) = LO!ToSet(l) \cup {x}
         /\ LO!ToSet(l \o m) = LO!ToSet(l) \cup LO!ToSet(m)
<1>1. LO!ToSet(<<>>) = {}
  BY DEF LO!ToSet
<1>2. LO!ToSet(l) \subseteq T
  BY DEF LO!ToSet
<1>3. LO!ToSet(Append(l, x)) = LO!ToSet(l) \cup {x}
  <2>1. PICK n : n = Len(l)
    OBVIOUS
  <2>2. /\ n \in Nat /\ DOMAIN l = 1..n /\ DOMAIN Append(l, x) = 1 .. n + 1
        /\ Append(l, x)[n + 1] = x /\ \A i \in 1..n : Append(l, x)[i] = l[i]
    BY <2>1
  <2>3. 1 .. n + 1 = (1..n) \cup {n + 1}
    BY <2>2
  <2>4. \A y : (\E i \in 1 .. n + 1 : y = Append(l, x)[i]) <=>
                 (\E i \in 1..n : y = l[i]) \/ y = x
    BY <2>2, <2>3, Zenon
  <2> QED  BY <2>2, <2>4, Zenon DEF LO!ToSet
<1>4. LO!ToSet(l \o m) = LO!ToSet(l) \cup LO!ToSet(m)
  <2>1. PICK n, k : n = Len(l) /\ k = Len(m)
    OBVIOUS
  <2>2. /\ n \in Nat /\ k \in Nat /\ DOMAIN l = 1..n /\ DOMAIN m = 1..k
        /\ DOMAIN (l \o m) = 1 .. n + k
        /\ \A i \in 1 .. n + k : (l \o m)[i] = IF i =< n THEN l[i] ELSE m[i - n]
    BY <2>1
  <2>3. ASSUME NEW y \in LO!ToSet(l \o m) PROVE y \in LO!ToSet(l) \cup LO!ToSet(m)
    <3>1. PICK i \in 1 .. n + k : y = (l \o m)[i]
      BY <2>2 DEF LO!ToSet
    <3>2. CASE i =< n
      <4>1. i \in 1..n /\ y = l[i]
        BY <2>2, <3>1, <3>2
      <4> QED  BY <2>2, <4>1 DEF LO!ToSet
    <3>3. CASE ~(i =< n)
      <4>1. i - n \in 1..k /\ y = m[i - n]
        BY <2>2, <3>1, <3>3
      <4> QED  BY <2>2, <4>1 DEF LO!ToSet
    <3> QED  BY <3>2, <3>3
  <2>4. ASSUME NEW y \in LO!ToSet(l) PROVE y \in LO!ToSet(l \o m)
    <3>1. PICK i \in 1..n : y = l[i]
      BY <2>2 DEF LO!ToSet
    <3>2. i \in 1 .. n + k /\ y = (l \o m)[i]
      BY <2>2, <3>1
    <3> QED  BY <2>2, <3>2 DEF LO!ToSet
  <2>5. ASSUME NEW y \in LO!ToSet(m) PROVE y \in LO!ToSet(l \o m)
    <3>1. PICK i \in 1..k : y = m[i]
      BY <2>2 DEF LO!ToSet
    <3>2. PICK j : j = n + i
      OBVIOUS
    <3>3. j \in 1 .. n + k /\ ~(j =< n) /\ j - n = i
      BY <2>2, <3>2
    <3>4. y = (l \o m)[j]
      BY <2>2, <3>1, <3>3
    <3> QED  BY <2>2, <3>3, <3>4 DEF LO!ToSet
  <2> QED  BY <2>3, <2>4, <2>5
<1> QED  BY <1>1, <1>2, <1>3, <1>4

LEMMA NoneTwiceAppend ==
  ASSUME NEW T, NEW l \in Seq(T), NEW x \in T
  PROVE  NoneTwice(Append(l, x)) <=> NoneTwice(l) /\ x \notin LO!ToSet(l)
<1>1. PICK n : n = Len(l)
  OBVIOUS
<1>2. /\ n \in Nat /\ DOMAIN l = 1..n /\ Len(Append(l, x)) = n + 1
      /\ Append(l, x)[n + 1] = x /\ \A i \in 1..n : Append(l, x)[i] = l[i]
  BY <1>1
<1>3. \A i \in 1..n : i \in 1 .. n + 1 /\ i # n + 1
  BY <1>2
<1>4. ASSUME NoneTwice(Append(l, x)) PROVE NoneTwice(l) /\ x \notin LO!ToSet(l)
  <2>1. \A i, j \in 1..n : l[i] = l[j] => i = j
    BY <1>2, <1>3, <1>4 DEF NoneTwice
  <2>2. \A i \in 1..n : l[i] # x
    <3>1. n + 1 \in 1 .. n + 1
      BY <1>2
    <3> QED  BY <1>2, <1>3, <1>4, <3>1 DEF NoneTwice
  <2> QED  BY <1>1, <1>2, <2>1, <2>2 DEF NoneTwice, LO!ToSet
<1>5. ASSUME NoneTwice(l), x \notin LO!ToSet(l) PROVE NoneTwice(Append(l, x))
  <2>1. \A i \in 1..n : l[i] # x
    BY <1>2, <1>5 DEF LO!ToSet
  <2>2. 1 .. n + 1 = (1..n) \cup {n + 1}
    BY <1>2
  <2> SUFFICES ASSUME NEW i \in 1 .. n + 1, NEW j \in 1 .. n + 1,
                      Append(l, x)[i] = Append(l, x)[j]
               PROVE  i = j
    BY <1>2 DEF NoneTwice
  <2> QED  BY <1>1, <1>2, <1>5, <2>1, <2>2 DEF NoneTwice
<1> QED  BY <1>4, <1>5

LEMMA EmptyListed == NoneTwice(<<>>)
BY DEF NoneTwice

LEMMA NoneTwiceConcat ==
  ASSUME NEW T, NEW l \in Seq(T), NEW m \in Seq(T), NoneTwice(l), NoneTwice(m),
         LO!ToSet(l) \cap LO!ToSet(m) = {}
  PROVE  NoneTwice(l \o m)
<1>1. PICK n, k : n = Len(l) /\ k = Len(m)
  OBVIOUS
<1>2. /\ n \in Nat /\ k \in Nat /\ DOMAIN l = 1..n /\ DOMAIN m = 1..k
      /\ Len(l \o m) = n + k
      /\ \A i \in 1 .. n + k : (l \o m)[i] = IF i =< n THEN l[i] ELSE m[i - n]
  BY <1>1
<1>3. \A i \in 1..n, j \in 1..k : l[i] # m[j]
  BY <1>2 DEF LO!ToSet
<1> SUFFICES ASSUME NEW i \in 1 .. n + k, NEW j \in 1 .. n + k, (l \o m)[i] = (l \o m)[j]
             PROVE  i = j
  BY <1>2 DEF NoneTwice
<1>4. \A h \in 1 .. n + k : IF h =< n THEN h \in 1..n ELSE h - n \in 1..k
  BY <1>2
<1>5. CASE i =< n /\ j =< n
  BY <1>1, <1>2, <1>4, <1>5 DEF NoneTwice
<1>6. CASE ~(i =< n) /\ ~(j =< n)
  <2>1. i - n = j - n
    BY <1>1, <1>2, <1>4, <1>6, SMTT(30) DEF NoneTwice
  <2> QED  BY <1>2, <2>1
<1>7. CASE (i =< n) # (j =< n)
  BY <1>2, <1>3, <1>4, <1>7
<1> QED  BY <1>5, <1>6, <1>7

LEMMA ConcatAppend ==
  ASSUME NEW T, NEW l \in Seq(T), NEW m \in Seq(T), NEW x \in T
  PROVE  l \o Append(m, x) = Append(l \o m, x)
OBVIOUS

-----------------------------------------------------------------------------
(* What leaving the items of a set out of a list gives.                    *)

LEMMA WithoutSteps ==
  ASSUME NEW X
  PROVE  /\ LO!Without(<<>>, X) = <<>>
         /\ \A l \in Seq(Items) : \A x \in Items :
              /\ LO!Without(l, X) \in Seq(Items)
              /\ x \in X => LO!Without(Append(l, x), X) = LO!Without(l, X)
              /\ x \notin X => LO!Without(Append(l, x), X) = Append(LO!Without(l, X), x)
<1>1. <<>> \in Seq(Items) /\ WithoutStep(X) \in [Seq(Items) \X Items -> Seq(Items)]
  BY DEF WithoutStep
<1>2. LO!Without(<<>>, X) = <<>>
  BY <1>1, WithoutFolds, FoldOfEmpty
<1>3. ASSUME NEW l \in Seq(Items), NEW x \in Items
      PROVE  /\ LO!Without(l, X) \in Seq(Items)
             /\ x \in X => LO!Without(Append(l, x), X) = LO!Without(l, X)
             /\ x \notin X => LO!Without(Append(l, x), X) = Append(LO!Without(l, X), x)
  <2>1. Append(l, x) \in Seq(Items)
    OBVIOUS
  <2>2. /\ IsFold(WithoutStep(X), <<>>, l, LO!Without(l, X))
        /\ LO!Without(l, X) \in Seq(Items)
        /\ IsFold(WithoutStep(X), <<>>, Append(l, x), LO!Without(Append(l, x), X))
    BY <2>1, WithoutFolds
  <2>3. PICK st : st = WithoutStep(X)
    OBVIOUS
  <2>4. PICK v, w : v = LO!Without(l, X) /\ w = LO!Without(Append(l, x), X)
    OBVIOUS
  <2>5. /\ st \in [Seq(Items) \X Items -> Seq(Items)] /\ <<>> \in Seq(Items)
        /\ IsFold(st, <<>>, l, v) /\ IsFold(st, <<>>, Append(l, x), w)
    BY <1>1, <2>2, <2>3, <2>4
  <2>6. w = st[<<v, x>>]
    BY <2>5, FoldOfAppend
  <2> QED  BY <2>2, <2>3, <2>4, <2>6 DEF WithoutStep
<1> QED  BY <1>2, <1>3

LEMMA WithoutTyped ==
  ASSUME NEW l \in Seq(Items), NEW X
  PROVE  LO!Without(l, X) \in Seq(Items)
BY WithoutFolds

LEMMA WithoutMembers ==
  ASSUME NEW l \in Seq(Items), NEW X
  PROVE  LO!ToSet(LO!Without(l, X)) = LO!ToSet(l) \ X
<1> DEFINE G == {k \in Seq(Items) : LO!ToSet(LO!Without(k, X)) = LO!ToSet(k) \ X}
<1>1. <<>> \in G
  <2>1. LO!ToSet(<<>>) = {}
    BY DEF LO!ToSet
  <2> QED  BY <2>1, WithoutSteps
<1>2. ASSUME NEW k \in Seq(Items), NEW x \in Items, k \in G PROVE Append(k, x) \in G
  <2>1. LO!ToSet(Append(k, x)) = LO!ToSet(k) \cup {x} /\ Append(k, x) \in Seq(Items)
    BY Members
  <2>2. CASE x \in X
    <3>1. LO!Without(Append(k, x), X) = LO!Without(k, X)
      BY <2>2, WithoutSteps
    <3> QED  BY <1>2, <2>1, <2>2, <3>1
  <2>3. CASE x \notin X
    <3>1. LO!Without(Append(k, x), X) = Append(LO!Without(k, X), x)
      BY <2>3, WithoutSteps
    <3>2. LO!ToSet(Append(LO!Without(k, X), x)) = LO!ToSet(LO!Without(k, X)) \cup {x}
      BY WithoutTyped, Members
    <3> QED  BY <1>2, <2>1, <2>3, <3>1, <3>2
  <2> QED  BY <2>2, <2>3
<1> HIDE DEF G
<1>3. l \in G
  BY <1>1, <1>2, SequenceInduction
<1> QED  BY <1>3 DEF G

LEMMA WithoutSame ==
  ASSUME NEW l \in Seq(Items), NEW X, NEW Y, LO!ToSet(l) \cap X = LO!ToSet(l) \cap Y
  PROVE  LO!Without(l, X) = LO!Without(l, Y)
<1> DEFINE G == {k \in Seq(Items) : LO!ToSet(k) \cap X = LO!ToSet(k) \cap Y =>
                                      LO!Without(k, X) = LO!Without(k, Y)}
<1>1. <<>> \in G
  BY WithoutSteps
<1>2. ASSUME NEW k \in Seq(Items), NEW x \in Items, k \in G PROVE Append(k, x) \in G
  <2>0. Append(k, x) \in Seq(Items)
    OBVIOUS
  <2> SUFFICES ASSUME LO!ToSet(Append(k, x)) \cap X = LO!ToSet(Append(k, x)) \cap Y
               PROVE  LO!Without(Append(k, x), X) = LO!Without(Append(k, x), Y)
    BY <2>0
  <2>1. LO!ToSet(Append(k, x)) = LO!ToSet(k) \cup {x}
    BY Members
  <2>2. (x \in X <=> x \in Y) /\ LO!ToSet(k) \cap X = LO!ToSet(k) \cap Y
    BY <2>1
  <2>3. LO!Without(k, X) = LO!Without(k, Y)
    BY <1>2, <2>2
  <2>4. CASE x \in X
    BY <2>2, <2>3, <2>4, WithoutSteps
  <2>5. CASE x \notin X
    <3>1. /\ LO!Without(Append(k, x), X) = Append(LO!Without(k, X), x)
          /\ LO!Without(Append(k, x), Y) = Append(LO!Without(k, Y), x)
      BY <2>2, <2>5, WithoutSteps
    <3> QED  BY <2>3, <3>1
  <2> QED  BY <2>4, <2>5
<1> HIDE DEF G
<1>3. l \in G
  BY <1>1, <1>2, SequenceInduction
<1> QED  BY <1>3 DEF G

LEMMA WithoutNothing ==
  ASSUME NEW l \in Seq(Items), NEW X, LO!ToSet(l) \cap X = {}
  PROVE  LO!Without(l, X) = l
<1> DEFINE G == {k \in Seq(Items) : LO!ToSet(k) \cap X = {} => LO!Without(k, X) = k}
<1>1. <<>> \in G
  BY WithoutSteps
<1>2. ASSUME NEW k \in Seq(Items), NEW x \in Items, k \in G PROVE Append(k, x) \in G
  <2>0. Append(k, x) \in Seq(Items)
    OBVIOUS
  <2> SUFFICES ASSUME LO!ToSet(Append(k, x)) \cap X = {}
               PROVE  LO!Without(Append(k, x), X) = Append(k, x)
    BY <2>0
  <2>1. LO!ToSet(Append(k, x)) = LO!ToSet(k) \cup {x}
    BY Members
  <2>2. x \notin X /\ LO!ToSet(k) \cap X = {}
    BY <2>1
  <2>3. LO!Without(k, X) = k
    BY <1>2, <2>2
  <2> QED  BY <2>2, <2>3, WithoutSteps
<1> HIDE DEF G
<1>3. l \in G
  BY <1>1, <1>2, SequenceInduction
<1> QED  BY <1>3 DEF G

LEMMA WithoutAgain ==
  ASSUME NEW l \in Seq(Items), NEW X, NEW Y
  PROVE  LO!Without(LO!Without(l, X), Y) = LO!Without(l, X \cup Y)
<1> DEFINE G == {k \in Seq(Items) :
                   LO!Without(LO!Without(k, X), Y) = LO!Without(k, X \cup Y)}
<1>1. <<>> \in G
  BY WithoutSteps
<1>2. ASSUME NEW k \in Seq(Items), NEW x \in Items, k \in G PROVE Append(k, x) \in G
  <2>0. Append(k, x) \in Seq(Items)
    OBVIOUS
  <2>1. PICK w \in Seq(Items) : w = LO!Without(k, X)
    BY WithoutTyped
  <2>2. LO!Without(w, Y) = LO!Without(k, X \cup Y)
    BY <1>2, <2>1
  <2>3. CASE x \in X
    <3>1. LO!Without(Append(k, x), X) = w
      BY <2>1, <2>3, WithoutSteps
    <3>2. LO!Without(Append(k, x), X \cup Y) = LO!Without(k, X \cup Y)
      BY <2>3, WithoutSteps
    <3> QED  BY <2>0, <2>2, <3>1, <3>2
  <2>4. CASE x \notin X /\ x \in Y
    <3>1. LO!Without(Append(k, x), X) = Append(w, x)
      BY <2>1, <2>4, WithoutSteps
    <3>2. LO!Without(Append(w, x), Y) = LO!Without(w, Y)
      BY <2>4, WithoutSteps
    <3>3. LO!Without(Append(k, x), X \cup Y) = LO!Without(k, X \cup Y)
      BY <2>4, WithoutSteps
    <3> QED  BY <2>0, <2>2, <3>1, <3>2, <3>3
  <2>5. CASE x \notin X /\ x \notin Y
    <3>1. LO!Without(Append(k, x), X) = Append(w, x)
      BY <2>1, <2>5, WithoutSteps
    <3>2. LO!Without(Append(w, x), Y) = Append(LO!Without(w, Y), x)
      BY <2>5, WithoutSteps
    <3>3. LO!Without(Append(k, x), X \cup Y) = Append(LO!Without(k, X \cup Y), x)
      BY <2>5, WithoutSteps
    <3> QED  BY <2>0, <2>2, <3>1, <3>2, <3>3
  <2> QED  BY <2>3, <2>4, <2>5
<1> HIDE DEF G
<1>3. l \in G
  BY <1>1, <1>2, SequenceInduction
<1> QED  BY <1>3 DEF G

LEMMA WithoutConcat ==
  ASSUME NEW l \in Seq(Items), NEW m \in Seq(Items), NEW X
  PROVE  LO!Without(l \o m, X) = LO!Without(l, X) \o LO!Without(m, X)
<1> DEFINE G == {k \in Seq(Items) :
                   LO!Without(l \o k, X) = LO!Without(l, X) \o LO!Without(k, X)}
<1>0. PICK w \in Seq(Items) : w = LO!Without(l, X)
  BY WithoutTyped
<1>1. <<>> \in G
  <2>1. l \o <<>> = l /\ w \o <<>> = w
    OBVIOUS
  <2> QED  BY <1>0, <2>1, WithoutSteps
<1>2. ASSUME NEW k \in Seq(Items), NEW x \in Items, k \in G PROVE Append(k, x) \in G
  <2>0. Append(k, x) \in Seq(Items) /\ l \o k \in Seq(Items)
    OBVIOUS
  <2>1. PICK v \in Seq(Items) : v = LO!Without(k, X)
    BY WithoutTyped
  <2>2. l \o Append(k, x) = Append(l \o k, x) /\ w \o Append(v, x) = Append(w \o v, x)
    BY ConcatAppend, SMTT(30)
  <2>3. LO!Without(l \o k, X) = w \o v
    BY <1>0, <1>2, <2>1
  <2>4. CASE x \in X
    <3>1. LO!Without(Append(l \o k, x), X) = LO!Without(l \o k, X)
      BY <2>0, <2>4, WithoutSteps
    <3>2. LO!Without(Append(k, x), X) = v
      BY <2>1, <2>4, WithoutSteps
    <3> QED  BY <1>0, <2>0, <2>2, <2>3, <3>1, <3>2
  <2>5. CASE x \notin X
    <3>1. LO!Without(Append(l \o k, x), X) = Append(LO!Without(l \o k, X), x)
      BY <2>0, <2>5, WithoutSteps
    <3>2. LO!Without(Append(k, x), X) = Append(v, x)
      BY <2>1, <2>5, WithoutSteps
    <3> QED  BY <1>0, <2>0, <2>2, <2>3, <3>1, <3>2
  <2> QED  BY <2>4, <2>5
<1> HIDE DEF G
<1>3. m \in G
  BY <1>1, <1>2, SequenceInduction
<1> QED  BY <1>3 DEF G

LEMMA WithoutNoneTwice ==
  ASSUME NEW l \in Seq(Items), NEW X, NoneTwice(l)
  PROVE  NoneTwice(LO!Without(l, X))
<1> DEFINE G == {k \in Seq(Items) : NoneTwice(k) => NoneTwice(LO!Without(k, X))}
<1>1. <<>> \in G
  BY WithoutSteps, EmptyListed
<1>2. ASSUME NEW k \in Seq(Items), NEW x \in Items, k \in G PROVE Append(k, x) \in G
  <2>0. Append(k, x) \in Seq(Items)
    OBVIOUS
  <2> SUFFICES ASSUME NoneTwice(Append(k, x))
               PROVE  NoneTwice(LO!Without(Append(k, x), X))
    BY <2>0
  <2>1. NoneTwice(k) /\ x \notin LO!ToSet(k)
    BY NoneTwiceAppend
  <2>2. PICK w \in Seq(Items) : w = LO!Without(k, X)
    BY WithoutTyped
  <2>3. NoneTwice(w) /\ x \notin LO!ToSet(w)
    BY <1>2, <2>1, <2>2, WithoutMembers
  <2>4. NoneTwice(Append(w, x))
    BY <2>3, NoneTwiceAppend
  <2> QED  BY <2>2, <2>3, <2>4, WithoutSteps
<1> HIDE DEF G
<1>3. l \in G
  BY <1>1, <1>2, SequenceInduction
<1> QED  BY <1>3 DEF G

-----------------------------------------------------------------------------
(* What the keyed operations make of a list, in one expression.            *)

LEMMA ConcatOfThree ==
  \A l, m, k \in Seq(Items) : (l \o m) \o k = l \o (m \o k)
<1> TAKE l, m, k \in Seq(Items)
<1> QED  BY ConcatAssociative

LEMMA ReverseIs ==
  ASSUME NEW T, NEW l \in Seq(T)
  PROVE  /\ LO!Reverse(l) \in Seq(T)
         /\ LO!ToSet(LO!Reverse(l)) = LO!ToSet(l)
         /\ LO!Reverse(LO!Reverse(l)) = l
         /\ NoneTwice(l) => NoneTwice(LO!Reverse(l))
<1>1. PICK n, r : n = Len(l) /\ r = LO!Reverse(l)
  OBVIOUS
<1>2. n \in Nat /\ DOMAIN l = 1..n /\ \A i \in 1..n : l[i] \in T
  BY <1>1
<1>3. \A i \in 1..n : (n - i) + 1 \in 1..n /\ (n - ((n - i) + 1)) + 1 = i
  BY <1>2
<1>4. r = [i \in 1..n |-> l[(n - i) + 1]]
  BY <1>1 DEF LO!Reverse
<1>5. r \in Seq(T) /\ Len(r) = n /\ DOMAIN r = 1..n
  BY <1>2, <1>3, <1>4
<1>6. LO!ToSet(r) = LO!ToSet(l)
  <2>1. ASSUME NEW y \in LO!ToSet(r) PROVE y \in LO!ToSet(l)
    <3>1. PICK i \in 1..n : y = r[i]
      BY <1>5 DEF LO!ToSet
    <3> QED  BY <1>2, <1>3, <1>4, <3>1 DEF LO!ToSet
  <2>2. ASSUME NEW y \in LO!ToSet(l) PROVE y \in LO!ToSet(r)
    <3>1. PICK i \in 1..n : y = l[i]
      BY <1>2 DEF LO!ToSet
    <3>2. PICK j \in 1..n : (n - j) + 1 = i
      BY <1>3
    <3> QED  BY <1>4, <1>5, <3>1, <3>2 DEF LO!ToSet
  <2> QED  BY <2>1, <2>2
<1>7. LO!Reverse(r) = l
  <2>1. LO!Reverse(r) = [i \in 1..n |-> r[(n - i) + 1]]
    BY <1>5 DEF LO!Reverse
  <2>2. \A i \in 1..n : r[(n - i) + 1] = l[i]
    <3> SUFFICES ASSUME NEW i \in 1..n PROVE r[(n - i) + 1] = l[i]
      OBVIOUS
    <3>1. PICK j : j = (n - i) + 1
      OBVIOUS
    <3>2. j \in 1..n /\ (n - j) + 1 = i
      BY <1>3, <3>1
    <3>3. r[j] = l[(n - j) + 1]
      BY <1>4, <3>2
    <3> QED  BY <3>1, <3>2, <3>3
  <2>3. l = [i \in 1..n |-> l[i]]
    BY <1>2
  <2> QED  BY <2>1, <2>2, <2>3
<1>8. ASSUME NoneTwice(l) PROVE NoneTwice(r)
  <2> SUFFICES ASSUME NEW i \in 1..n, NEW j \in 1..n, r[i] = r[j] PROVE i = j
    BY <1>5 DEF NoneTwice
  <2>1. PICK a, b : a = (n - i) + 1 /\ b = (n - j) + 1
    OBVIOUS
  <2>2. a \in 1..n /\ b \in 1..n /\ l[a] = l[b]
    BY <1>3, <1>4, <2>1
  <2>3. a = b
    BY <1>1, <1>8, <2>2 DEF NoneTwice
  <2> QED  BY <1>2, <2>1, <2>3
<1> QED  BY <1>1, <1>5, <1>6, <1>7, <1>8

LEMMA ReverseAppend ==
  ASSUME NEW T, NEW l \in Seq(T), NEW x \in T
  PROVE  LO!Reverse(Append(l, x)) = <<x>> \o LO!Reverse(l)
<1>1. PICK n, r, q, t : /\ n = Len(l) /\ r = LO!Reverse(l) /\ q = LO!Reverse(Append(l, x))
                        /\ t = <<x>> \o r
  OBVIOUS
<1>2. n \in Nat /\ Len(Append(l, x)) = n + 1 /\ Append(l, x)[n + 1] = x
  BY <1>1
<1>3. \A i \in 1..n : Append(l, x)[i] = l[i]
  BY <1>1
<1>4. r \in Seq(T) /\ Len(r) = n /\ \A i \in 1..n : r[i] = l[(n - i) + 1]
  BY <1>1, <1>2, ReverseIs DEF LO!Reverse
<1>5. q = [i \in 1 .. n + 1 |-> Append(l, x)[((n + 1) - i) + 1]]
  BY <1>1, <1>2 DEF LO!Reverse
<1>6. t \in Seq(T) /\ Len(t) = n + 1 /\ \A i \in 1 .. n + 1 :
        t[i] = IF i = 1 THEN x ELSE r[i - 1]
  BY <1>1, <1>2, <1>4
<1>7. \A i \in 1 .. n + 1 : q[i] = t[i]
  <2> SUFFICES ASSUME NEW i \in 1 .. n + 1 PROVE q[i] = t[i]
    OBVIOUS
  <2>1. CASE i = 1
    <3>1. ((n + 1) - i) + 1 = n + 1
      BY <1>2, <2>1
    <3> QED  BY <1>2, <1>5, <1>6, <2>1, <3>1
  <2>2. CASE i # 1
    <3>1. PICK j : j = i - 1
      OBVIOUS
    <3>2. j \in 1..n /\ ((n + 1) - i) + 1 = (n - j) + 1 /\ (n - j) + 1 \in 1..n
      BY <1>2, <2>2, <3>1
    <3>3. q[i] = l[(n - j) + 1]
      BY <1>3, <1>5, <3>2
    <3> QED  BY <1>4, <1>6, <2>2, <3>1, <3>2, <3>3
  <2> QED  BY <2>1, <2>2
<1>8. q \in Seq(T) /\ Len(q) = n + 1
  <2>1. Append(l, x) \in Seq(T)
    OBVIOUS
  <2> QED  BY <1>1, <1>2, <1>5, <2>1, ReverseIs
<1>9. q = t
  BY <1>6, <1>7, <1>8, SeqEqual
<1> QED  BY <1>1, <1>9

LEMMA AddKeysAre ==
  ASSUME NEW l \in Seq(Items), NEW m \in Seq(Items), NoneTwice(m)
  PROVE  LO!AddKeys(l, m) = l \o LO!Without(m, LO!ToSet(l))
<1> DEFINE S == LO!ToSet(l)
           G == {k \in Seq(Items) : NoneTwice(k) => LO!AddKeys(l, k) = l \o LO!Without(k, S)}
<1>0. PICK st : st = InsertStep
  OBVIOUS
<1>1. st \in [Seq(Items) \X Items -> Seq(Items)] /\ \A v \in Seq(Items), x \in Items :
        st[<<v, x>>] = LO!InsertIfUnique(v, x)
  BY <1>0, InsertIfUniqueTyped DEF InsertStep
<1>2. <<>> \in G
  <2>1. LO!AddKeys(l, <<>>) = l
    <3>1. <<>> \in Seq(Items)
      OBVIOUS
    <3>2. IsFold(st, l, <<>>, LO!AddKeys(l, <<>>))
      BY <1>0, <3>1, AddKeysFolds
    <3> QED  BY <3>2, FoldOfEmpty
  <2>2. l \o <<>> = l
    OBVIOUS
  <2> QED  BY <2>1, <2>2, WithoutSteps
<1>3. ASSUME NEW k \in Seq(Items), NEW x \in Items, k \in G PROVE Append(k, x) \in G
  <2>0. Append(k, x) \in Seq(Items)
    OBVIOUS
  <2> SUFFICES ASSUME NoneTwice(Append(k, x))
               PROVE  LO!AddKeys(l, Append(k, x)) = l \o LO!Without(Append(k, x), S)
    BY <2>0
  <2>1. NoneTwice(k) /\ x \notin LO!ToSet(k)
    BY NoneTwiceAppend
  <2>2. PICK w \in Seq(Items) : w = LO!Without(k, S)
    BY WithoutTyped
  <2>3. PICK v, u : v = LO!AddKeys(l, k) /\ u = LO!AddKeys(l, Append(k, x))
    OBVIOUS
  <2>4. v = l \o w
    BY <1>3, <2>1, <2>2, <2>3
  <2>5. IsFold(st, l, k, v) /\ IsFold(st, l, Append(k, x), u)
    BY <1>0, <2>0, <2>3, AddKeysFolds
  <2>6. u = st[<<v, x>>]
    BY <1>1, <2>5, FoldOfAppend
  <2>7. u = LO!InsertIfUnique(v, x)
    <3>1. v \in Seq(Items)
      BY <2>3, AddKeysFolds
    <3> QED  BY <1>1, <2>6, <3>1
  <2>8. LO!ToSet(w) = LO!ToSet(k) \ S
    BY <2>2, WithoutMembers
  <2>9. LO!ToSet(v) = S \cup LO!ToSet(w)
    BY <2>4, Members
  <2>10. CASE x \in S
    <3>1. u = v
      BY <2>7, <2>9, <2>10 DEF LO!InsertIfUnique
    <3>2. LO!Without(Append(k, x), S) = w
      BY <2>2, <2>10, WithoutSteps
    <3> QED  BY <2>3, <2>4, <3>1, <3>2
  <2>11. CASE x \notin S
    <3>1. u = Append(v, x)
      BY <2>1, <2>7, <2>8, <2>9, <2>11 DEF LO!InsertIfUnique
    <3>2. LO!Without(Append(k, x), S) = Append(w, x)
      BY <2>2, <2>11, WithoutSteps
    <3>3. l \o Append(w, x) = Append(l \o w, x)
      BY ConcatAppend
    <3> QED  BY <2>3, <2>4, <3>1, <3>2, <3>3
  <2> QED  BY <2>10, <2>11
<1> HIDE DEF G
<1>4. m \in G
  BY <1>2, <1>3, SequenceInduction
<1> QED  BY <1>4 DEF G

LEMMA AppendKeysAre ==
  ASSUME NEW l \in Seq(Items), NEW m \in Seq(Items), NoneTwice(m)
  PROVE  LO!AppendKeys(l, m) = LO!Without(l, LO!ToSet(m)) \o m
<1> DEFINE G == {k \in Seq(Items) :
                   NoneTwice(k) => LO!AppendKeys(l, k) = LO!Without(l, LO!ToSet(k)) \o k}
<1>0. PICK st : st = ToBackStep
  OBVIOUS
<1>1. st \in [Seq(Items) \X Items -> Seq(Items)] /\ \A v \in Seq(Items), x \in Items :
        st[<<v, x>>] = LO!MoveToBack(v, x)
  BY <1>0, MoveToBackTyped DEF ToBackStep
<1>2. <<>> \in G
  <2>1. LO!AppendKeys(l, <<>>) = l
    <3>1. <<>> \in Seq(Items)
      OBVIOUS
    <3>2. IsFold(st, l, <<>>, LO!AppendKeys(l, <<>>))
      BY <1>0, <3>1, AppendKeysFolds
    <3> QED  BY <3>2, FoldOfEmpty
  <2>2. l \o <<>> = l /\ LO!ToSet(<<>>) = {}
    BY DEF LO!ToSet
  <2>3. LO!Without(l, LO!ToSet(<<>>)) = l
    BY <2>2, WithoutNothing
  <2>4. LO!AppendKeys(l, <<>>) = LO!Without(l, LO!ToSet(<<>>)) \o <<>>
    BY <2>1, <2>2, <2>3, Zenon
  <2>5. <<>> \in Seq(Items)
    OBVIOUS
  <2> QED  BY <2>4, <2>5, Zenon
<1>3. ASSUME NEW k \in Seq(Items), NEW x \in Items, k \in G PROVE Append(k, x) \in G
  <2>0. Append(k, x) \in Seq(Items)
    OBVIOUS
  <2> SUFFICES ASSUME NoneTwice(Append(k, x))
               PROVE  LO!AppendKeys(l, Append(k, x)) =
                        LO!Without(l, LO!ToSet(Append(k, x))) \o Append(k, x)
    BY <2>0
  <2>1. NoneTwice(k) /\ x \notin LO!ToSet(k)
    BY NoneTwiceAppend
  <2>2. PICK w \in Seq(Items) : w = LO!Without(l, LO!ToSet(k))
    BY WithoutTyped
  <2>3. PICK v, u : v = LO!AppendKeys(l, k) /\ u = LO!AppendKeys(l, Append(k, x))
    OBVIOUS
  <2>4. v = w \o k
    BY <1>3, <2>1, <2>2, <2>3
  <2>5. IsFold(st, l, k, v) /\ IsFold(st, l, Append(k, x), u)
    BY <1>0, <2>0, <2>3, AppendKeysFolds
  <2>6. u = st[<<v, x>>]
    BY <1>1, <2>5, FoldOfAppend
  <2>7. u = Append(LO!Without(v, {x}), x)
    <3>1. v \in Seq(Items)
      BY <2>3, AppendKeysFolds
    <3>2. u = LO!MoveToBack(v, x)
      BY <1>1, <2>6, <3>1
    <3> QED  BY <3>2, Zenon DEF LO!MoveToBack
  <2>8. LO!Without(v, {x}) = LO!Without(w, {x}) \o LO!Without(k, {x})
    <3>1. PICK X : X = {x}
      OBVIOUS
    <3>2. LO!Without(v, X) = LO!Without(w, X) \o LO!Without(k, X)
      BY <2>4, WithoutConcat, ZenonT(40)
    <3> QED  BY <3>1, <3>2, Zenon
  <2>9. LO!Without(k, {x}) = k
    BY <2>1, WithoutNothing
  <2>10. LO!Without(w, {x}) = LO!Without(l, LO!ToSet(Append(k, x)))
    <3>1. LO!ToSet(Append(k, x)) = LO!ToSet(k) \cup {x}
      BY Members
    <3> QED  BY <2>2, <3>1, WithoutAgain, SMTT(30)
  <2>11. LO!Without(w, {x}) \o Append(k, x) = Append(LO!Without(w, {x}) \o k, x)
    BY WithoutTyped, ConcatAppend, SMTT(30)
  <2> QED  BY <2>3, <2>7, <2>8, <2>9, <2>10, <2>11
<1> HIDE DEF G
<1>4. m \in G
  BY <1>2, <1>3, SequenceInduction
<1> QED  BY <1>4 DEF G

LEMMA FrontFoldIs ==
  ASSUME NEW l \in Seq(Items), NEW r \in Seq(Items), NoneTwice(r)
  PROVE  LO!FoldLeft(LO!MoveToFront, l, r) = LO!Reverse(r) \o LO!Without(l, LO!ToSet(r))
<1> DEFINE G == {k \in Seq(Items) :
                   NoneTwice(k) => LO!FoldLeft(LO!MoveToFront, l, k) =
                                     LO!Reverse(k) \o LO!Without(l, LO!ToSet(k))}
<1>0. PICK st : st = ToFrontStep
  OBVIOUS
<1>1. st \in [Seq(Items) \X Items -> Seq(Items)] /\ \A v \in Seq(Items), x \in Items :
        st[<<v, x>>] = LO!MoveToFront(v, x)
  BY <1>0, MoveToFrontTyped DEF ToFrontStep
<1>2. <<>> \in G
  <2>1. LO!FoldLeft(LO!MoveToFront, l, <<>>) = l
    <3>1. <<>> \in Seq(Items)
      OBVIOUS
    <3>2. IsFold(st, l, <<>>, LO!FoldLeft(LO!MoveToFront, l, <<>>))
      BY <1>0, <3>1, MoveToFrontFolds
    <3> QED  BY <3>2, FoldOfEmpty
  <2>2. <<>> \o l = l /\ LO!ToSet(<<>>) = {} /\ LO!Reverse(<<>>) = <<>>
    BY DEF LO!ToSet, LO!Reverse
  <2>3. LO!Without(l, LO!ToSet(<<>>)) = l
    BY <2>2, WithoutNothing
  <2>4. LO!FoldLeft(LO!MoveToFront, l, <<>>) =
          LO!Reverse(<<>>) \o LO!Without(l, LO!ToSet(<<>>))
    BY <2>1, <2>2, <2>3, Zenon
  <2>5. <<>> \in Seq(Items)
    OBVIOUS
  <2> QED  BY <2>4, <2>5, Zenon
<1>3. ASSUME NEW k \in Seq(Items), NEW x \in Items, k \in G PROVE Append(k, x) \in G
  <2>0. Append(k, x) \in Seq(Items)
    OBVIOUS
  <2> SUFFICES ASSUME NoneTwice(Append(k, x))
               PROVE  LO!FoldLeft(LO!MoveToFront, l, Append(k, x)) =
                        LO!Reverse(Append(k, x)) \o
                          LO!Without(l, LO!ToSet(Append(k, x)))
    BY <2>0
  <2>1. NoneTwice(k) /\ x \notin LO!ToSet(k)
    BY NoneTwiceAppend
  <2>2. PICK w \in Seq(Items) : w = LO!Without(l, LO!ToSet(k))
    BY WithoutTyped
  <2>3. PICK v, u : /\ v = LO!FoldLeft(LO!MoveToFront, l, k)
                    /\ u = LO!FoldLeft(LO!MoveToFront, l, Append(k, x))
    OBVIOUS
  <2>12. PICK b \in Seq(Items) : b = LO!Reverse(k) /\ LO!ToSet(b) = LO!ToSet(k)
    BY ReverseIs
  <2>4. v = b \o w
    BY <1>3, <2>1, <2>2, <2>3, <2>12
  <2>5. IsFold(st, l, k, v) /\ IsFold(st, l, Append(k, x), u)
    BY <1>0, <2>0, <2>3, MoveToFrontFolds
  <2>6. u = st[<<v, x>>]
    BY <1>1, <2>5, FoldOfAppend
  <2>7. u = <<x>> \o LO!Without(v, {x})
    <3>1. v \in Seq(Items)
      BY <2>3, MoveToFrontFolds
    <3>2. u = LO!MoveToFront(v, x)
      BY <1>1, <2>6, <3>1
    <3> QED  BY <3>2, Zenon DEF LO!MoveToFront
  <2>8. LO!Without(v, {x}) = LO!Without(b, {x}) \o LO!Without(w, {x})
    <3>1. PICK X : X = {x}
      OBVIOUS
    <3>2. LO!Without(v, X) = LO!Without(b, X) \o LO!Without(w, X)
      BY <2>4, WithoutConcat, ZenonT(40)
    <3> QED  BY <3>1, <3>2, Zenon
  <2>9. LO!Without(b, {x}) = b
    BY <2>1, <2>12, WithoutNothing
  <2>10. LO!Without(w, {x}) = LO!Without(l, LO!ToSet(Append(k, x)))
    <3>1. LO!ToSet(Append(k, x)) = LO!ToSet(k) \cup {x}
      BY Members
    <3> QED  BY <2>2, <3>1, WithoutAgain, SMTT(30)
  <2>11. PICK z \in Seq(Items) : z = LO!Without(w, {x})
    BY WithoutTyped
  <2>13. PICK o \in Seq(Items) : o = <<x>>
    <3>1. <<x>> \in Seq(Items)
      OBVIOUS
    <3> QED  BY <3>1, Zenon
  <2>14. <<x>> \o (b \o z) = (<<x>> \o b) \o z
    <3>1. o \o (b \o z) = (o \o b) \o z
      BY ConcatOfThree, Zenon
    <3> QED  BY <2>13, <3>1, Zenon
  <2>15. LO!Reverse(Append(k, x)) = <<x>> \o b
    BY <2>12, ReverseAppend
  <2> QED  BY <2>3, <2>7, <2>8, <2>9, <2>10, <2>11, <2>14, <2>15
<1> HIDE DEF G
<1>4. r \in G
  BY <1>2, <1>3, SequenceInduction
<1> QED  BY <1>4 DEF G

LEMMA PrependKeysAre ==
  ASSUME NEW l \in Seq(Items), NEW m \in Seq(Items), NoneTwice(m)
  PROVE  LO!PrependKeys(l, m) = m \o LO!Without(l, LO!ToSet(m))
<1>1. PICK r \in Seq(Items) : /\ r = LO!Reverse(m) /\ LO!ToSet(r) = LO!ToSet(m)
                              /\ LO!Reverse(r) = m /\ NoneTwice(r)
  BY ReverseIs
<1>2. LO!FoldLeft(LO!MoveToFront, l, r) = m \o LO!Without(l, LO!ToSet(m))
  BY <1>1, FrontFoldIs
<1> QED  BY <1>1, <1>2 DEF LO!PrependKeys

-----------------------------------------------------------------------------
(* List ops do what their composition does.                                *)

LEMMA ConcatTyped == \A l, m \in Seq(Items) : l \o m \in Seq(Items)
OBVIOUS

LEMMA WithoutParts ==
  \A l, m \in Seq(Items) : \A X :
    LO!Without(l \o m, X) = LO!Without(l, X) \o LO!Without(m, X)
BY WithoutConcat, Zenon

LEMMA MembersOfConcat ==
  \A l, m \in Seq(Items) : LO!ToSet(l \o m) = LO!ToSet(l) \cup LO!ToSet(m)
<1> TAKE l, m \in Seq(Items)
<1>1. CASE Items = {}
  <2>1. l = <<>> /\ m = <<>>
    BY <1>1
  <2> QED  BY <2>1
<1>2. CASE Items # {}
  BY <1>2, Members
<1> QED  BY <1>1, <1>2

LEMMA ListsAre == \A l : l \in LO!Lists <=> l \in Seq(Items) /\ NoneTwice(l)
<1>0. ASSUME NEW S \in SUBSET Items
      PROVE  LO!Cardinality(S) \in Nat /\ ExistsBijection(1..LO!Cardinality(S), S)
  <2>1. LO!Cardinality(S) = Cardinality(S)
    BY Zenon DEF LO!Cardinality, Cardinality
  <2>2. IsFiniteSet(Items)
    <3>1. LO!IsFiniteSet(Items)
      BY DataAssumptions DEF LO!ListOpAssumption
    <3> QED  BY <3>1, Zenon DEF LO!IsFiniteSet, IsFiniteSet
  <2> QED  BY <2>1, <2>2, FS_Subset, FS_CardinalityType
<1>1. ASSUME NEW l \in LO!Lists PROVE l \in Seq(Items) /\ NoneTwice(l)
  <2>1. PICK S \in SUBSET Items : l \in LO!SetToSeqs(S)
    BY DEF LO!Lists, LO!SetToAllKPermutations
  <2>2. PICK n \in Nat : n = LO!Cardinality(S)
    BY <1>0
  <2>3. l \in [1..n -> S] /\ \A i, j \in 1..n : i # j => l[i] # l[j]
    BY <2>1, <2>2 DEF LO!SetToSeqs
  <2>4. l \in Seq(Items) /\ Len(l) = n
    BY <2>3
  <2> QED  BY <2>3, <2>4 DEF NoneTwice
<1>2. ASSUME NEW l \in Seq(Items), NoneTwice(l) PROVE l \in LO!Lists
  <2>1. PICK S, n : S = LO!ToSet(l) /\ n = Len(l)
    OBVIOUS
  <2>2. S \in SUBSET Items /\ n \in Nat /\ DOMAIN l = 1..n
    BY <2>1 DEF LO!ToSet
  <2>3. /\ l \in [1..n -> S] /\ \A i, j \in 1..n : i # j => l[i] # l[j]
        /\ \A x \in S : \E i \in 1..n : l[i] = x
    BY <1>2, <2>1, <2>2 DEF LO!ToSet, NoneTwice
  <2>4. ExistsBijection(1..n, S)
    <3>1. l \in Bijection(1..n, S)
      BY <2>3 DEF Bijection, Injection, Surjection, IsInjective
    <3> QED  BY <3>1 DEF ExistsBijection
  <2>5. LO!Cardinality(S) = n
    <3>1. Cardinality(S) = n
      BY <2>2, <2>4, FS_CountingElements
    <3> QED  BY <3>1, Zenon DEF LO!Cardinality, Cardinality
  <2>6. l \in LO!SetToSeqs(S)
    BY <2>3, <2>5 DEF LO!SetToSeqs
  <2> QED  BY <2>2, <2>6 DEF LO!Lists, LO!SetToAllKPermutations
<1> QED  BY <1>1, <1>2

LEMMA EmptyIsList == <<>> \in LO!Lists
<1>1. <<>> \in Seq(Items)
  OBVIOUS
<1> QED  BY <1>1, ListsAre, EmptyListed

LEMMA WithoutIsList ==
  ASSUME NEW l \in LO!Lists, NEW X
  PROVE  LO!Without(l, X) \in LO!Lists
BY ListsAre, WithoutTyped, WithoutNoneTwice

LEMMA ConcatIsList ==
  ASSUME NEW l \in LO!Lists, NEW m \in LO!Lists, LO!ToSet(l) \cap LO!ToSet(m) = {}
  PROVE  l \o m \in LO!Lists
<1>1. /\ l \in Seq(Items) /\ m \in Seq(Items) /\ NoneTwice(l) /\ NoneTwice(m)
  BY ListsAre
<1>2. l \o m \in Seq(Items)
  BY <1>1
<1>3. NoneTwice(l \o m)
  BY <1>1, NoneTwiceConcat
<1> QED  BY <1>2, <1>3, ListsAre

LEMMA OpsAre ==
  ASSUME NEW o \in LO!ListOps
  PROVE  /\ o.explicit \in LO!Lists /\ o.deleted \in LO!Lists
         /\ o.prepended \in LO!Lists /\ o.appended \in LO!Lists
         /\ o.isExplicit \in BOOLEAN
BY EmptyIsList DEF LO!ListOps

(* What an op with these items makes of a list.                            *)
Placed(D, P, A, l) ==
  (LO!Without(P, LO!ToSet(A)) \o
     LO!Without(l, LO!ToSet(D) \cup LO!ToSet(P) \cup LO!ToSet(A))) \o A

LEMMA KeysArePlaced ==
  ASSUME NEW D \in LO!Lists, NEW P \in LO!Lists, NEW A \in LO!Lists, NEW l \in LO!Lists
  PROVE  /\ LO!AppendKeys(LO!PrependKeys(LO!DeleteKeys(l, D), P), A) = Placed(D, P, A, l)
         /\ Placed(D, P, A, l) \in LO!Lists
<1>1. PICK d, p, a : d = LO!ToSet(D) /\ p = LO!ToSet(P) /\ a = LO!ToSet(A)
  OBVIOUS
<1>2. /\ D \in Seq(Items) /\ P \in Seq(Items) /\ A \in Seq(Items) /\ l \in Seq(Items)
      /\ NoneTwice(P) /\ NoneTwice(A)
  BY ListsAre
<1>3. PICK r \in LO!Lists : r = LO!Without(l, d)
  BY WithoutIsList
<1>4. PICK s \in LO!Lists : s = LO!Without(l, d \cup p)
  BY WithoutIsList
<1>5. r \in Seq(Items) /\ s \in Seq(Items)
  BY ListsAre
<1>6. LO!DeleteKeys(l, D) = r
  BY <1>1, <1>3, Zenon DEF LO!DeleteKeys
<1>7. LO!PrependKeys(r, P) = P \o s
  <2>1. LO!PrependKeys(r, P) = P \o LO!Without(r, p)
    BY <1>1, <1>2, <1>5, PrependKeysAre
  <2>2. LO!Without(r, p) = s
    BY <1>2, <1>3, <1>4, WithoutAgain
  <2> QED  BY <2>1, <2>2, Zenon
<1>8. PICK u, v \in LO!Lists : u = LO!Without(P, a) /\ v = LO!Without(l, (d \cup p) \cup a)
  BY WithoutIsList
<1>9. LO!AppendKeys(P \o s, A) = (u \o v) \o A
  <2>1. P \o s \in Seq(Items)
    BY <1>2, <1>5
  <2>2. LO!AppendKeys(P \o s, A) = LO!Without(P \o s, a) \o A
    BY <1>1, <1>2, <2>1, AppendKeysAre, Zenon
  <2>3. LO!Without(P \o s, a) = LO!Without(P, a) \o LO!Without(s, a)
    <3>1. P \in Seq(Items) /\ s \in Seq(Items)
      BY <1>2, <1>5
    <3> QED  BY ONLY <3>1, WithoutConcat
  <2>4. LO!Without(s, a) = v
    BY <1>2, <1>4, <1>8, WithoutAgain
  <2> QED  BY <1>8, <2>2, <2>3, <2>4, Zenon
<1>10. Placed(D, P, A, l) = (u \o v) \o A
  BY <1>1, <1>8, Zenon DEF Placed
<1>11. (u \o v) \o A \in LO!Lists
  <2>1. LO!ToSet(u) = p \ a /\ LO!ToSet(v) = LO!ToSet(l) \ ((d \cup p) \cup a)
    BY <1>1, <1>2, <1>8, WithoutMembers
  <2>2. u \o v \in LO!Lists
    BY <2>1, ConcatIsList
  <2>3. u \in Seq(Items) /\ v \in Seq(Items)
    BY ListsAre
  <2>4. LO!ToSet(u \o v) = LO!ToSet(u) \cup LO!ToSet(v)
    BY <2>3, Members
  <2>5. LO!ToSet(u \o v) \cap a = {}
    BY <2>1, <2>4
  <2> QED  BY <1>1, <2>2, <2>5, ConcatIsList
<1> QED  BY <1>6, <1>7, <1>9, <1>10, <1>11, Zenon

LEMMA OpsApply ==
  ASSUME NEW o \in LO!ListOps, NEW l \in LO!Lists
  PROVE  /\ o.isExplicit => LO!ApplyOperations(o, l) = o.explicit
         /\ ~o.isExplicit => LO!ApplyOperations(o, l) =
                               Placed(o.deleted, o.prepended, o.appended, l)
         /\ LO!ApplyOperations(o, l) \in LO!Lists
<1>1. CASE o.isExplicit
  <2>1. PICK e \in LO!Lists : e = o.explicit
    BY OpsAre
  <2>2. e \in Seq(Items) /\ NoneTwice(e) /\ <<>> \in Seq(Items)
    BY ListsAre
  <2>3. LO!AddKeys(<<>>, e) = <<>> \o LO!Without(e, LO!ToSet(<<>>))
    BY <2>2, AddKeysAre
  <2>4. LO!Without(e, LO!ToSet(<<>>)) = e
    <3>1. LO!ToSet(<<>>) = {}
      BY DEF LO!ToSet
    <3> QED  BY <2>2, <3>1, WithoutNothing
  <2>5. <<>> \o e = e
    BY <2>2
  <2>6. LO!AddKeys(<<>>, e) = e
    BY <2>3, <2>4, <2>5, Zenon
  <2> QED  BY <1>1, <2>1, <2>6 DEF LO!ApplyOperations
<1>2. CASE ~o.isExplicit
  <2>1. PICK D, P, A : D = o.deleted /\ P = o.prepended /\ A = o.appended
    OBVIOUS
  <2>2. D \in LO!Lists /\ P \in LO!Lists /\ A \in LO!Lists
    BY <2>1, OpsAre
  <2>3. LO!ApplyOperations(o, l) =
          LO!AppendKeys(LO!PrependKeys(LO!DeleteKeys(l, D), P), A)
    BY <1>2, <2>1, Zenon DEF LO!ApplyOperations
  <2>4. LO!ApplyOperations(o, l) = Placed(D, P, A, l) /\ Placed(D, P, A, l) \in LO!Lists
    BY <2>2, <2>3, KeysArePlaced
  <2> QED  BY <1>2, <2>1, <2>4
<1> QED  BY <1>1, <1>2, OpsAre

(* Items placed twice are where the second op puts them, unless it says    *)
(* nothing about them.                                                     *)
Composes(Di, Pi, Ai, Do, Po, Ao, D, P, A) ==
  LET placed == LO!ToSet(Po) \cup LO!ToSet(Ao)
      gone   == LO!ToSet(Do) \cup placed
  IN  /\ {Di, Pi, Ai, Do, Po, Ao, D, P, A} \subseteq LO!Lists
      /\ LO!ToSet(D) = (LO!ToSet(Di) \cup LO!ToSet(Do)) \ placed
      /\ P = LO!Without(Po, LO!ToSet(Ao)) \o LO!Without(Pi, gone)
      /\ A = LO!Without(Ai, gone) \o Ao

LEMMA PlacedTwice ==
  ASSUME NEW Di, NEW Pi, NEW Ai, NEW Do, NEW Po, NEW Ao, NEW D, NEW P, NEW A,
         Composes(Di, Pi, Ai, Do, Po, Ao, D, P, A), NEW l \in LO!Lists
  PROVE  Placed(D, P, A, l) = Placed(Do, Po, Ao, Placed(Di, Pi, Ai, l))
<1>g. PICK g : g = LO!ToSet(Do) \cup (LO!ToSet(Po) \cup LO!ToSet(Ao))
  OBVIOUS
<1>c. /\ Di \in LO!Lists /\ Pi \in LO!Lists /\ Ai \in LO!Lists
      /\ Do \in LO!Lists /\ Po \in LO!Lists /\ Ao \in LO!Lists
      /\ D \in LO!Lists /\ P \in LO!Lists /\ A \in LO!Lists
      /\ LO!ToSet(D) = (LO!ToSet(Di) \cup LO!ToSet(Do)) \ (LO!ToSet(Po) \cup LO!ToSet(Ao))
      /\ P = LO!Without(Po, LO!ToSet(Ao)) \o LO!Without(Pi, g)
      /\ A = LO!Without(Ai, g) \o Ao
  BY <1>g, Zenon DEF Composes
<1>1. PICK di, pi, ai, do, po, ao :
        /\ di = LO!ToSet(Di) /\ pi = LO!ToSet(Pi) /\ ai = LO!ToSet(Ai)
        /\ do = LO!ToSet(Do) /\ po = LO!ToSet(Po) /\ ao = LO!ToSet(Ao)
  OBVIOUS
<1>2. /\ Pi \in Seq(Items) /\ Ai \in Seq(Items) /\ Po \in Seq(Items) /\ Ao \in Seq(Items)
      /\ l \in Seq(Items)
  BY <1>c, ListsAre
<1>3. PICK v, w, x, y, z :
        /\ v = LO!Without(Po, ao)
        /\ w = LO!Without(Pi, ai \cup g)
        /\ x = LO!Without(l, (di \cup pi \cup ai) \cup g)
        /\ y = LO!Without(Ai, g)
        /\ z = LO!Without(Pi, g)
  OBVIOUS
<1>4. PICK r, q : r = LO!Without(Pi, ai) /\ q = LO!Without(l, di \cup pi \cup ai)
  OBVIOUS
<1>v. v \in Seq(Items)
  BY <1>2, <1>3, WithoutTyped
<1>w. w \in Seq(Items)
  BY <1>2, <1>3, WithoutTyped
<1>x. x \in Seq(Items)
  BY <1>2, <1>3, WithoutTyped
<1>y. y \in Seq(Items)
  BY <1>2, <1>3, WithoutTyped
<1>z. z \in Seq(Items)
  BY <1>2, <1>3, WithoutTyped
<1>r. r \in Seq(Items)
  BY <1>2, <1>4, WithoutTyped
<1>q. q \in Seq(Items)
  BY <1>2, <1>4, WithoutTyped
<1>o. Ao \in Seq(Items)
  BY <1>2
<1>i. Ai \in Seq(Items)
  BY <1>2
<1>p. Pi \in Seq(Items)
  BY <1>2
<1>l. l \in Seq(Items)
  BY <1>2
<1>5. P = v \o z /\ A = y \o Ao
  BY <1>c, <1>1, <1>3, Zenon
<1>6. /\ LO!ToSet(y) = ai \ g /\ LO!ToSet(v) = po \ ao /\ LO!ToSet(z) = pi \ g
  BY <1>1, <1>2, <1>3, WithoutMembers
<1>7. PICK d, p, a : d = LO!ToSet(D) /\ p = LO!ToSet(P) /\ a = LO!ToSet(A)
  OBVIOUS
<1>8. a = (ai \ g) \cup ao /\ p = (po \ ao) \cup (pi \ g)
  <2>1. LO!ToSet(v \o z) = LO!ToSet(v) \cup LO!ToSet(z)
    BY <1>v, <1>z, MembersOfConcat, Zenon
  <2>2. LO!ToSet(y \o Ao) = LO!ToSet(y) \cup LO!ToSet(Ao)
    BY <1>y, <1>o, MembersOfConcat, Zenon
  <2> QED  BY <1>1, <1>5, <1>6, <1>7, <2>1, <2>2, Zenon
<1>9. g = do \cup po \cup ao /\ d = (di \cup do) \ (po \cup ao)
  <2>1. d = (di \cup do) \ (po \cup ao)
    BY <1>c, <1>1, <1>7, Zenon
  <2>2. g = do \cup (po \cup ao)
    BY <1>g, <1>1, Zenon
  <2> QED  BY <2>1, <2>2
<1>10. LO!Without(P, a) = v \o w
  <2>1. LO!Without(v \o z, a) = LO!Without(v, a) \o LO!Without(z, a)
    BY <1>v, <1>z, WithoutParts, Zenon
  <2>2. LO!Without(v, a) = v
    <3>1. LO!ToSet(v) \cap a = {}
      BY <1>6, <1>8, <1>9
    <3> QED  BY <1>v, <3>1, WithoutNothing
  <2>3. LO!Without(z, a) = w
    <3>1. LO!Without(LO!Without(Pi, g), a) = LO!Without(Pi, g \cup a)
      BY <1>p, WithoutAgain
    <3>2. g \cup a = ai \cup g
      BY <1>8, <1>9
    <3> QED  BY <1>3, <3>1, <3>2, Zenon
  <2> QED  BY <1>5, <2>1, <2>2, <2>3, Zenon
<1>11. LO!Without(l, d \cup p \cup a) = x
  <2>1. d \cup p \cup a = (di \cup pi \cup ai) \cup g
    BY <1>8, <1>9
  <2> QED  BY <1>3, <2>1, Zenon
<1>12. Placed(D, P, A, l) = ((v \o w) \o x) \o (y \o Ao)
  BY <1>5, <1>7, <1>10, <1>11, Zenon DEF Placed
<1>14. Placed(Di, Pi, Ai, l) = (r \o q) \o Ai
  BY <1>1, <1>4, Zenon DEF Placed
<1>15. LO!Without((r \o q) \o Ai, g) = (w \o x) \o y
  <2>1. (r \o q) \in Seq(Items)
    BY <1>r, <1>q, Zenon, ConcatTyped
  <2>2. LO!Without((r \o q) \o Ai, g) = LO!Without(r \o q, g) \o LO!Without(Ai, g)
    BY <1>i, <2>1, WithoutParts, Zenon
  <2>3. LO!Without(r \o q, g) = LO!Without(r, g) \o LO!Without(q, g)
    BY <1>r, <1>q, WithoutParts, Zenon
  <2>4. LO!Without(LO!Without(Pi, ai), g) = LO!Without(Pi, ai \cup g)
    BY <1>p, WithoutAgain
  <2>5. LO!Without(LO!Without(l, di \cup pi \cup ai), g) =
          LO!Without(l, (di \cup pi \cup ai) \cup g)
    BY <1>l, WithoutAgain
  <2>6. LO!Without(r, g) = w /\ LO!Without(q, g) = x
    BY <1>3, <1>4, <2>4, <2>5, Zenon
  <2> QED  BY <1>3, <2>2, <2>3, <2>6, Zenon
<1>16. Placed(Do, Po, Ao, (r \o q) \o Ai) = (v \o ((w \o x) \o y)) \o Ao
  <2>1. do \cup po \cup ao = g
    BY <1>9
  <2> QED  BY <1>1, <1>3, <1>15, <2>1, Zenon DEF Placed
<1>17. ((v \o w) \o x) \o (y \o Ao) = (v \o ((w \o x) \o y)) \o Ao
  <2>1. (v \o w) \o x = v \o (w \o x)
    BY <1>v, <1>w, <1>x, ConcatOfThree, Zenon
  <2>2. PICK e, f : e = w \o x /\ f = v \o e
    OBVIOUS
  <2>e. e \in Seq(Items)
    BY <1>w, <1>x, <2>2, ConcatTyped, Zenon
  <2>f. f \in Seq(Items)
    BY <1>v, <2>2, <2>e, ConcatTyped, Zenon
  <2>3. f \o (y \o Ao) = (f \o y) \o Ao
    BY <1>y, <1>o, <2>f, ConcatOfThree, Zenon
  <2>4. (v \o e) \o y = v \o (e \o y)
    BY <1>v, <1>y, <2>e, ConcatOfThree, Zenon
  <2> QED  BY <2>1, <2>2, <2>3, <2>4, Zenon
<1> QED  BY <1>12, <1>14, <1>16, <1>17, Zenon

LEMMA OpsCompose ==
  ASSUME NEW outer \in LO!ListOps, NEW inner \in LO!ListOps
  PROVE  /\ LO!ApplyOver(outer, inner) \in LO!ListOps
         /\ \A l \in LO!Lists :
              LO!ApplyOperations(LO!ApplyOver(outer, inner), l) =
                LO!ApplyOperations(outer, LO!ApplyOperations(inner, l))
<1>0. PICK o : o = LO!ApplyOver(outer, inner)
  OBVIOUS
<1>1. CASE outer.isExplicit
  <2>1. o = outer
    BY <1>0, <1>1 DEF LO!ApplyOver
  <2>2. \A l \in LO!Lists :
          LO!ApplyOperations(outer, l) =
            LO!ApplyOperations(outer, LO!ApplyOperations(inner, l))
    BY <1>1, OpsApply
  <2> QED  BY <1>0, <2>1, <2>2
<1>2. CASE ~outer.isExplicit /\ inner.isExplicit
  <2>1. PICK e \in LO!Lists : e = LO!ApplyOperations(outer, inner.explicit)
    BY OpsAre, OpsApply
  <2>2. o = [inner EXCEPT !.explicit = e]
    BY <1>0, <1>2, <2>1, Zenon DEF LO!ApplyOver
  <2>3. o \in LO!ListOps /\ o.isExplicit /\ o.explicit = e
    BY <1>2, <2>2 DEF LO!ListOps
  <2>4. ASSUME NEW l \in LO!Lists
        PROVE  LO!ApplyOperations(o, l) =
                 LO!ApplyOperations(outer, LO!ApplyOperations(inner, l))
    <3>1. LO!ApplyOperations(o, l) = e
      BY <2>3, OpsApply
    <3>2. LO!ApplyOperations(inner, l) = inner.explicit
      BY <1>2, OpsApply
    <3> QED  BY <2>1, <3>1, <3>2, Zenon
  <2> QED  BY <1>0, <2>3, <2>4
<1>3. CASE ~outer.isExplicit /\ ~inner.isExplicit
  <2>1. PICK Do, Po, Ao \in LO!Lists :
          Do = outer.deleted /\ Po = outer.prepended /\ Ao = outer.appended
    BY OpsAre
  <2>2. PICK Di, Pi, Ai \in LO!Lists :
          Di = inner.deleted /\ Pi = inner.prepended /\ Ai = inner.appended
    BY OpsAre
  <2>3. PICK n, g : /\ n = LO!ToSet(Po) \cup LO!ToSet(Ao)
                    /\ g = LO!ToSet(Do) \cup n
    OBVIOUS
  <2>4. /\ Do \in Seq(Items) /\ Po \in Seq(Items) /\ Ao \in Seq(Items)
        /\ Di \in Seq(Items) /\ Pi \in Seq(Items) /\ Ai \in Seq(Items)
        /\ NoneTwice(Do)
    BY ListsAre
  <2>5. PICK k \in LO!Lists : k = LO!AddKeys(Di, Do) /\
                              LO!ToSet(k) = LO!ToSet(Di) \cup LO!ToSet(Do)
    <3>1. PICK r \in LO!Lists : r = LO!Without(Do, LO!ToSet(Di))
      BY WithoutIsList
    <3>2. LO!ToSet(r) = LO!ToSet(Do) \ LO!ToSet(Di) /\ r \in Seq(Items)
      BY <2>4, <3>1, WithoutMembers, ListsAre
    <3>3. Di \o r \in LO!Lists
      BY <3>2, ConcatIsList
    <3>4. LO!ToSet(Di \o r) = LO!ToSet(Di) \cup LO!ToSet(r)
      BY <2>4, <3>2, MembersOfConcat, Zenon
    <3>5. LO!AddKeys(Di, Do) = Di \o r
      BY <2>4, <3>1, AddKeysAre
    <3>6. LO!ToSet(Di \o r) = LO!ToSet(Di) \cup LO!ToSet(Do)
      BY <3>2, <3>4
    <3> QED  BY <3>3, <3>5, <3>6
  <2>6. PICK D \in LO!Lists : /\ D = LO!Without(LO!AddKeys(Di, Do), n)
                              /\ LO!ToSet(D) = (LO!ToSet(Di) \cup LO!ToSet(Do)) \ n
    <3>1. k \in Seq(Items)
      BY ListsAre
    <3> QED  BY <2>5, <3>1, WithoutIsList, WithoutMembers
  <2>7. PICK P \in LO!Lists : P = LO!Without(Po, LO!ToSet(Ao)) \o LO!Without(Pi, g)
    <3>1. PICK r, q \in LO!Lists : r = LO!Without(Po, LO!ToSet(Ao)) /\ q = LO!Without(Pi, g)
      BY WithoutIsList
    <3>2. LO!ToSet(r) = LO!ToSet(Po) \ LO!ToSet(Ao) /\ LO!ToSet(q) = LO!ToSet(Pi) \ g
      BY <2>4, <3>1, WithoutMembers
    <3>3. LO!ToSet(r) \cap LO!ToSet(q) = {}
      BY <2>3, <3>2
    <3>4. r \o q \in LO!Lists
      BY <3>1, <3>3, ConcatIsList
    <3> QED  BY <3>1, <3>4, Zenon
  <2>8. PICK A \in LO!Lists : A = LO!Without(Ai, g) \o Ao
    <3>1. PICK r \in LO!Lists : r = LO!Without(Ai, g)
      BY WithoutIsList
    <3>2. LO!ToSet(r) = LO!ToSet(Ai) \ g
      BY <2>4, <3>1, WithoutMembers
    <3>3. LO!ToSet(r) \cap LO!ToSet(Ao) = {}
      BY <2>3, <3>2
    <3>4. r \o Ao \in LO!Lists
      BY <3>1, <3>3, ConcatIsList
    <3> QED  BY <3>1, <3>4, Zenon
  <2>9. o = [inner EXCEPT !.deleted = D, !.prepended = P, !.appended = A]
    BY <1>0, <1>3, <2>1, <2>2, <2>3, <2>6, <2>7, <2>8, Zenon DEF LO!ApplyOver
  <2>10. /\ o \in LO!ListOps /\ ~o.isExplicit
         /\ o.deleted = D /\ o.prepended = P /\ o.appended = A
    BY <1>3, <2>9 DEF LO!ListOps
  <2>11. ASSUME NEW l \in LO!Lists
         PROVE  LO!ApplyOperations(o, l) =
                  LO!ApplyOperations(outer, LO!ApplyOperations(inner, l))
    <3>1. PICK m \in LO!Lists : m = Placed(Di, Pi, Ai, l) /\ m = LO!ApplyOperations(inner, l)
      BY <1>3, <2>2, OpsApply
    <3>2. LO!ApplyOperations(outer, m) = Placed(Do, Po, Ao, m)
      BY <1>3, <2>1, OpsApply
    <3>3. LO!ApplyOperations(o, l) = Placed(D, P, A, l)
      BY <2>10, OpsApply
    <3>4. Composes(Di, Pi, Ai, Do, Po, Ao, D, P, A)
      <4>1. {Di, Pi, Ai, Do, Po, Ao, D, P, A} \subseteq LO!Lists
        OBVIOUS
      <4> QED  BY <2>3, <2>6, <2>7, <2>8, <4>1, Zenon DEF Composes
    <3>5. Placed(D, P, A, l) = Placed(Do, Po, Ao, Placed(Di, Pi, Ai, l))
      BY <3>4, PlacedTwice
    <3> QED  BY <3>1, <3>2, <3>3, <3>5, Zenon
  <2> QED  BY <1>0, <2>10, <2>11
<1> QED  BY <1>1, <1>2, <1>3

-----------------------------------------------------------------------------
(***************************************************************************)
(* The population mask.                                                    *)
(***************************************************************************)
(* p comes before q and is not above it.                                   *)
Before(p, q) ==
  \E i \in DOMAIN p \cap DOMAIN q : p[i] < q[i] /\ \A j \in 1 .. i - 1 : p[j] = q[j]

LEMMA PrefixIs ==
  ASSUME NEW a \in Seq(Nat), NEW b \in Seq(Nat)
  PROVE  PM!IsPrefix(a, b) <=> Len(a) <= Len(b) /\ \A i \in 1..Len(a) : a[i] = b[i]
<1>1. ASSUME Len(a) <= Len(b)
      PROVE  SubSeq(b, 1, Len(a)) = a <=> \A i \in 1..Len(a) : a[i] = b[i]
  <2>1. PICK n : n = Len(a)
    OBVIOUS
  <2>2. n \in Nat /\ n <= Len(b) /\ Len(b) \in Nat
    BY <1>1, <2>1
  <2>3. PICK c : c = SubSeq(b, 1, n)
    OBVIOUS
  <2>4. c \in Seq(Nat) /\ Len(c) = n /\ \A i \in 1..n : c[i] = b[i]
    <3>1. \A i \in 1..n : b[i] \in Nat
      BY <2>2
    <3>2. /\ SubSeq(b, 1, n) \in Seq(Nat)
          /\ Len(SubSeq(b, 1, n)) = IF 1 <= n THEN n - 1 + 1 ELSE 0
          /\ \A i \in 1 .. n - 1 + 1 : SubSeq(b, 1, n)[i] = b[1 + i - 1]
      BY <2>2, <3>1, SubSeqProperties
    <3> QED  BY <2>2, <2>3, <3>2
  <2>5. (\A i \in 1..n : c[i] = a[i]) => c = a
    BY <2>1, <2>4, SeqEqual
  <2> QED  BY <2>1, <2>3, <2>4, <2>5
<1> QED  BY <1>1, SubSeqFull DEF PM!IsPrefix

LEMMA PathsAreOrdered ==
  ASSUME NEW a \in Seq(Nat), NEW b \in Seq(Nat)
  PROVE  /\ PM!IsPrefix(a, a)
         /\ PM!IsPrefix(a, b) /\ PM!IsPrefix(b, a) => a = b
         /\ PM!LessThan(a, b) <=> Before(a, b) \/ (PM!IsPrefix(a, b) /\ a # b)
         /\ PM!IsPrefix(a, b) \/ PM!IsPrefix(b, a) \/ Before(a, b) \/ Before(b, a)
         /\ Before(a, b) => ~Before(b, a) /\ ~PM!IsPrefix(a, b) /\ ~PM!IsPrefix(b, a)
<1>0. Len(a) \in Nat /\ Len(b) \in Nat /\ DOMAIN a = 1..Len(a) /\ DOMAIN b = 1..Len(b)
      /\ (\A i \in 1..Len(a) : a[i] \in Nat) /\ (\A i \in 1..Len(b) : b[i] \in Nat)
  OBVIOUS
<1>1. PM!IsPrefix(a, a)
  BY <1>0, PrefixIs
<1>2. PM!IsPrefix(a, b) /\ PM!IsPrefix(b, a) => a = b
  <2>1. PM!IsPrefix(a, b) => Len(a) <= Len(b) /\ \A i \in 1..Len(a) : a[i] = b[i]
    BY PrefixIs
  <2>2. PM!IsPrefix(b, a) => Len(b) <= Len(a)
    BY PrefixIs
  <2>3. ASSUME PM!IsPrefix(a, b), PM!IsPrefix(b, a) PROVE a = b
    <3>1. Len(a) \in Int /\ Len(b) \in Int
      OBVIOUS
    <3>2. Len(a) <= Len(b) /\ Len(b) <= Len(a)
      BY <2>1, <2>2, <2>3
    <3>3. Len(a) = Len(b)
      BY <3>1, <3>2
    <3>4. \A i \in 1..Len(a) : a[i] = b[i]
      BY <2>1, <2>3
    <3> QED  BY <3>3, <3>4, SeqEqual
  <2> QED  BY <2>3
<1>3. PM!LessThan(a, b) <=> Before(a, b) \/ (PM!IsPrefix(a, b) /\ a # b)
  BY DEF PM!LessThan, PM!IsStrictPrefix, Before
<1>4. PM!IsPrefix(a, b) \/ PM!IsPrefix(b, a) \/ Before(a, b) \/ Before(b, a)
  <2> DEFINE Apart == {i \in DOMAIN a \cap DOMAIN b : a[i] # b[i]}
             Less == {ss \in Nat \X Nat : ss[1] < ss[2]}
  <2>1. CASE Apart = {}
    <3>1. \A i \in 1..Len(a) : i \in 1..Len(b) => a[i] = b[i]
      BY <1>0, <2>1
    <3>2. CASE Len(a) <= Len(b)
      <4>1. \A i \in 1..Len(a) : a[i] = b[i]
        BY <1>0, <3>1, <3>2
      <4> QED  BY <3>2, <4>1, PrefixIs
    <3>3. CASE Len(b) <= Len(a)
      <4>1. \A i \in 1..Len(b) : b[i] = a[i]
        BY <1>0, <3>1, <3>3
      <4> QED  BY <3>3, <4>1, PrefixIs
    <3> QED  BY <1>0, <3>2, <3>3
  <2>2. CASE Apart # {}
    <3>1. IsWellFoundedOn(Less, Nat)
      BY NatLessThanWellFounded DEF OpToRel
    <3>2. Apart \subseteq Nat
      BY <1>0
    <3>3. PICK m \in Apart : \A n \in Apart : ~(<<n, m>> \in Less)
      BY <2>2, <3>1, <3>2, WFMin
    <3>4. ASSUME NEW j \in 1 .. m - 1 PROVE a[j] = b[j]
      <4>0. m \in Nat
        BY <3>2
      <4>1. j \in Nat /\ j < m /\ <<j, m>> \in Less
        BY <4>0
      <4>2. j \notin Apart
        BY <3>3, <4>1
      <4>3. m \in 1..Len(a) /\ m \in 1..Len(b)
        BY <1>0
      <4>4. j \in DOMAIN a \cap DOMAIN b
        BY <1>0, <4>1, <4>3, SMTT(30)
      <4> QED  BY <4>2, <4>4
    <3>5. a[m] < b[m] \/ b[m] < a[m]
      BY <1>0, <3>2, <3>3
    <3> QED  BY <3>3, <3>4, <3>5 DEF Before
  <2> QED  BY <2>1, <2>2
<1>5. ASSUME Before(a, b) PROVE ~Before(b, a) /\ ~PM!IsPrefix(a, b) /\ ~PM!IsPrefix(b, a)
  <2>1. PICK i \in DOMAIN a \cap DOMAIN b : a[i] < b[i] /\ \A j \in 1 .. i - 1 : a[j] = b[j]
    BY <1>5 DEF Before
  <2>2. ~PM!IsPrefix(a, b) /\ ~PM!IsPrefix(b, a)
    <3>1. i \in 1..Len(a) /\ i \in 1..Len(b) /\ a[i] \in Nat /\ b[i] \in Nat
      BY <1>0
    <3>2. a[i] # b[i]
      BY <2>1, <3>1
    <3> QED  BY <3>1, <3>2, PrefixIs
  <2>3. ASSUME Before(b, a) PROVE FALSE
    <3>1. PICK k \in DOMAIN a \cap DOMAIN b : b[k] < a[k] /\ \A j \in 1 .. k - 1 : b[j] = a[j]
      BY <2>3 DEF Before
    <3>2. /\ i \in 1..Len(a) /\ k \in 1..Len(a) /\ i \in Nat /\ k \in Nat
          /\ a[i] \in Nat /\ b[i] \in Nat /\ a[k] \in Nat /\ b[k] \in Nat
      BY <1>0
    <3>3. CASE i < k
      <4>1. i \in 1 .. k - 1
        BY <3>2, <3>3
      <4> QED  BY <2>1, <3>1, <3>2, <4>1
    <3>4. CASE k < i
      <4>1. k \in 1 .. i - 1
        BY <3>2, <3>4
      <4> QED  BY <2>1, <3>1, <3>2, <4>1
    <3>5. CASE i = k
      BY <2>1, <3>1, <3>2, <3>5
    <3> QED  BY <3>2, <3>3, <3>4, <3>5
  <2> QED  BY <2>2, <2>3
<1> QED  BY <1>1, <1>2, <1>3, <1>4, <1>5

LEMMA PathsAreOrderedThrough ==
  ASSUME NEW a \in Seq(Nat), NEW b \in Seq(Nat), NEW c \in Seq(Nat)
  PROVE  /\ PM!IsPrefix(a, b) /\ PM!IsPrefix(b, c) => PM!IsPrefix(a, c)
         /\ PM!IsPrefix(a, c) /\ PM!IsPrefix(b, c) => PM!IsPrefix(a, b) \/ PM!IsPrefix(b, a)
         /\ Before(a, b) /\ Before(b, c) => Before(a, c)
         /\ Before(a, b) /\ PM!IsPrefix(a, c) => Before(c, b)
         /\ Before(a, b) /\ PM!IsPrefix(b, c) => Before(a, c)
         /\ Before(a, b) /\ PM!IsPrefix(c, a) => Before(c, b) \/ PM!IsPrefix(c, b)
         /\ Before(a, b) /\ PM!IsPrefix(c, b) => Before(a, c) \/ PM!IsPrefix(c, a)
<1>0. /\ Len(a) \in Nat /\ Len(b) \in Nat /\ Len(c) \in Nat
      /\ DOMAIN a = 1..Len(a) /\ DOMAIN b = 1..Len(b) /\ DOMAIN c = 1..Len(c)
      /\ \A i \in 1..Len(a) : a[i] \in Nat
      /\ \A i \in 1..Len(b) : b[i] \in Nat
      /\ \A i \in 1..Len(c) : c[i] \in Nat
  OBVIOUS
<1>1. PM!IsPrefix(a, b) /\ PM!IsPrefix(b, c) => PM!IsPrefix(a, c)
  BY <1>0, PrefixIs
<1>2. ASSUME PM!IsPrefix(a, c), PM!IsPrefix(b, c)
      PROVE  PM!IsPrefix(a, b) \/ PM!IsPrefix(b, a)
  BY <1>0, <1>2, PrefixIs, SMTT(30)
<1>3. ASSUME Before(a, b), Before(b, c) PROVE Before(a, c)
  <2>1. PICK i \in DOMAIN a \cap DOMAIN b : a[i] < b[i] /\ \A j \in 1 .. i - 1 : a[j] = b[j]
    BY <1>3 DEF Before
  <2>2. PICK k \in DOMAIN b \cap DOMAIN c : b[k] < c[k] /\ \A j \in 1 .. k - 1 : b[j] = c[j]
    BY <1>3 DEF Before
  <2>3. CASE i <= k
    <3>1. i \in 1..Len(c)
      BY <1>0, <2>3, k \in 1..Len(c), i \in 1..Len(a)
    <3>2. a[i] \in Nat /\ b[i] \in Nat /\ c[i] \in Nat /\ b[k] \in Nat /\ c[k] \in Nat
      BY <1>0, <3>1
    <3>3. b[i] < c[i] \/ b[i] = c[i]
      <4>1. CASE i = k
        BY <2>2, <3>2, <4>1
      <4>2. CASE i # k
        <5>1. i \in 1 .. k - 1
          BY <1>0, <2>3, <4>2
        <5> QED  BY <2>2, <5>1
      <4> QED  BY <4>1, <4>2
    <3>4. a[i] < c[i]
      <4>1. \A x, y, z \in Nat : x < y /\ (y < z \/ y = z) => x < z
        OBVIOUS
      <4> QED  BY <2>1, <3>2, <3>3, <4>1
    <3>5. ASSUME NEW j \in 1 .. i - 1 PROVE a[j] = c[j]
      <4>1. j \in 1 .. k - 1
        BY <1>0, <2>3
      <4> QED  BY <2>1, <2>2, <4>1
    <3> QED  BY <1>0, <3>1, <3>4, <3>5 DEF Before
  <2>4. CASE k < i
    <3>1. k \in 1..Len(a) /\ k \in 1 .. i - 1
      BY <1>0, <2>4, k \in 1..Len(c), i \in 1..Len(a), SMTT(30)
    <3>2. a[k] < c[k]
      BY <2>1, <2>2, <3>1
    <3>3. ASSUME NEW j \in 1 .. k - 1 PROVE a[j] = c[j]
      <4>1. j \in 1 .. i - 1
        BY <1>0, <2>4
      <4> QED  BY <2>1, <2>2, <4>1
    <3> QED  BY <1>0, <3>1, <3>2, <3>3 DEF Before
  <2>5. i \in Int /\ k \in Int
    BY <1>0
  <2> QED  BY <2>3, <2>4, <2>5
<1>4. ASSUME Before(a, b), PM!IsPrefix(a, c) PROVE Before(c, b)
  <2>1. PICK i \in DOMAIN a \cap DOMAIN b : a[i] < b[i] /\ \A j \in 1 .. i - 1 : a[j] = b[j]
    BY <1>4 DEF Before
  <2>2. Len(a) <= Len(c) /\ \A j \in 1..Len(a) : a[j] = c[j]
    BY <1>4, PrefixIs
  <2>3. i \in DOMAIN c /\ c[i] < b[i] /\ \A j \in 1 .. i - 1 : c[j] = b[j]
    BY <1>0, <2>1, <2>2
  <2> QED  BY <2>1, <2>3 DEF Before
<1>5. ASSUME Before(a, b), PM!IsPrefix(b, c) PROVE Before(a, c)
  <2>1. PICK i \in DOMAIN a \cap DOMAIN b : a[i] < b[i] /\ \A j \in 1 .. i - 1 : a[j] = b[j]
    BY <1>5 DEF Before
  <2>2. Len(b) <= Len(c) /\ \A j \in 1..Len(b) : b[j] = c[j]
    BY <1>5, PrefixIs
  <2>3. i \in DOMAIN c /\ a[i] < c[i] /\ \A j \in 1 .. i - 1 : a[j] = c[j]
    BY <1>0, <2>1, <2>2
  <2> QED  BY <2>1, <2>3 DEF Before
<1>6. ASSUME Before(a, b), PM!IsPrefix(c, a) PROVE Before(c, b) \/ PM!IsPrefix(c, b)
  <2>1. PICK i \in DOMAIN a \cap DOMAIN b : a[i] < b[i] /\ \A j \in 1 .. i - 1 : a[j] = b[j]
    BY <1>6 DEF Before
  <2>2. Len(c) <= Len(a) /\ \A j \in 1..Len(c) : c[j] = a[j]
    BY <1>6, PrefixIs
  <2>3. CASE i <= Len(c)
    <3>1. i \in DOMAIN c /\ c[i] < b[i] /\ \A j \in 1 .. i - 1 : c[j] = b[j]
      BY <1>0, <2>1, <2>2, <2>3
    <3> QED  BY <2>1, <3>1 DEF Before
  <2>4. CASE Len(c) < i
    <3>1. i \in 1..Len(b) /\ Len(c) <= Len(b)
      BY <1>0, <2>4
    <3>2. ASSUME NEW j \in 1..Len(c) PROVE c[j] = b[j]
      <4>1. j \in 1 .. i - 1
        BY <1>0, <2>4
      <4> QED  BY <2>1, <2>2, <4>1
    <3> QED  BY <3>1, <3>2, PrefixIs
  <2> QED  BY <1>0, <2>1, <2>3, <2>4
<1>7. ASSUME Before(a, b), PM!IsPrefix(c, b) PROVE Before(a, c) \/ PM!IsPrefix(c, a)
  <2>1. PICK i \in DOMAIN a \cap DOMAIN b : a[i] < b[i] /\ \A j \in 1 .. i - 1 : a[j] = b[j]
    BY <1>7 DEF Before
  <2>2. Len(c) <= Len(b) /\ \A j \in 1..Len(c) : c[j] = b[j]
    BY <1>7, PrefixIs
  <2>3. CASE i <= Len(c)
    <3>1. i \in DOMAIN c /\ a[i] < c[i] /\ \A j \in 1 .. i - 1 : a[j] = c[j]
      BY <1>0, <2>1, <2>2, <2>3
    <3> QED  BY <2>1, <3>1 DEF Before
  <2>4. CASE Len(c) < i
    <3>1. i \in 1..Len(a) /\ Len(c) <= Len(a)
      BY <1>0, <2>4
    <3>2. ASSUME NEW j \in 1..Len(c) PROVE c[j] = a[j]
      <4>1. j \in 1 .. i - 1
        BY <1>0, <2>4
      <4> QED  BY <2>1, <2>2, <4>1
    <3> QED  BY <3>1, <3>2, PrefixIs
  <2> QED  BY <1>0, <2>1, <2>3, <2>4
<1> QED  BY <1>1, <1>2, <1>3, <1>4, <1>5, <1>6, <1>7

(***************************************************************************)
(* What the mask's paths are for each other: for paths of the stage.       *)
(***************************************************************************)
LEMMA MaskPathsAreOrdered ==
  /\ \A a, b \in MaskPaths :
       /\ PM!IsPrefix(a, a)
       /\ PM!IsPrefix(a, b) /\ PM!IsPrefix(b, a) => a = b
       /\ PM!LessThan(a, b) <=> Before(a, b) \/ (PM!IsPrefix(a, b) /\ a # b)
       /\ PM!IsPrefix(a, b) \/ PM!IsPrefix(b, a) \/ Before(a, b) \/ Before(b, a)
       /\ Before(a, b) => ~Before(b, a) /\ ~PM!IsPrefix(a, b) /\ ~PM!IsPrefix(b, a)
  /\ \A a, b, c \in MaskPaths :
       /\ PM!IsPrefix(a, b) /\ PM!IsPrefix(b, c) => PM!IsPrefix(a, c)
       /\ PM!IsPrefix(a, c) /\ PM!IsPrefix(b, c) => PM!IsPrefix(a, b) \/ PM!IsPrefix(b, a)
       /\ Before(a, b) /\ Before(b, c) => Before(a, c)
       /\ Before(a, b) /\ PM!IsPrefix(a, c) => Before(c, b)
       /\ Before(a, b) /\ PM!IsPrefix(b, c) => Before(a, c)
       /\ Before(a, b) /\ PM!IsPrefix(c, a) => Before(c, b) \/ PM!IsPrefix(c, b)
       /\ Before(a, b) /\ PM!IsPrefix(c, b) => Before(a, c) \/ PM!IsPrefix(c, a)
<1>1. \A a \in MaskPaths : a \in Seq(Nat)
  BY DataAssumptions DEF PM!MaskAssumption
<1>2. ASSUME NEW a \in MaskPaths, NEW b \in MaskPaths
      PROVE  /\ PM!IsPrefix(a, a)
             /\ PM!IsPrefix(a, b) /\ PM!IsPrefix(b, a) => a = b
             /\ PM!LessThan(a, b) <=> Before(a, b) \/ (PM!IsPrefix(a, b) /\ a # b)
             /\ PM!IsPrefix(a, b) \/ PM!IsPrefix(b, a) \/ Before(a, b) \/ Before(b, a)
             /\ Before(a, b) => ~Before(b, a) /\ ~PM!IsPrefix(a, b) /\ ~PM!IsPrefix(b, a)
  BY <1>1, PathsAreOrdered
<1>3. ASSUME NEW a \in MaskPaths, NEW b \in MaskPaths, NEW c \in MaskPaths
      PROVE  /\ PM!IsPrefix(a, b) /\ PM!IsPrefix(b, c) => PM!IsPrefix(a, c)
             /\ PM!IsPrefix(a, c) /\ PM!IsPrefix(b, c) => PM!IsPrefix(a, b) \/ PM!IsPrefix(b, a)
             /\ Before(a, b) /\ Before(b, c) => Before(a, c)
             /\ Before(a, b) /\ PM!IsPrefix(a, c) => Before(c, b)
             /\ Before(a, b) /\ PM!IsPrefix(b, c) => Before(a, c)
             /\ Before(a, b) /\ PM!IsPrefix(c, a) => Before(c, b) \/ PM!IsPrefix(c, b)
             /\ Before(a, b) /\ PM!IsPrefix(c, b) => Before(a, c) \/ PM!IsPrefix(c, a)
  BY <1>1, PathsAreOrderedThrough
<1> QED  BY <1>2, <1>3

(* A mask: sorted, and without what is below another.                      *)
IsMask(m) ==
  /\ m \in Seq(MaskPaths)
  /\ \A i, j \in DOMAIN m : i < j => Before(m[i], m[j])

(* The paths of m from the i-th to the k-th.                               *)
Part(m, i, k) == {m[n] : n \in i..k}

PathsOf(m) == Part(m, 1, Len(m))

Cover(S) == {q \in MaskPaths : \E p \in S : PM!IsPrefix(p, q)}

LEMMA SeqFacts ==
  ASSUME NEW m \in Seq(MaskPaths)
  PROVE  /\ Len(m) \in Nat /\ DOMAIN m = 1..Len(m)
         /\ \A i \in 1..Len(m) : m[i] \in MaskPaths /\ m[i] \in PathsOf(m)
         /\ PathsOf(m) \subseteq MaskPaths
         /\ PathsOf(m) = PM!ToSet(m)
         /\ \A i \in Nat \ {0} : Part(m, i, Len(m)) \subseteq MaskPaths
<1>1. Len(m) \in Nat /\ DOMAIN m = 1..Len(m) /\ \A i \in 1..Len(m) : m[i] \in MaskPaths
  OBVIOUS
<1> QED  BY <1>1 DEF Part, PathsOf, PM!ToSet

LEMMA MasksJoin ==
  ASSUME NEW s, IsMask(s), NEW t, IsMask(t),
         \A x \in PathsOf(s), y \in PathsOf(t) : Before(x, y)
  PROVE  IsMask(s \o t) /\ PathsOf(s \o t) = PathsOf(s) \cup PathsOf(t)
<1> DEFINE u == s \o t
<1>1. s \in Seq(MaskPaths) /\ t \in Seq(MaskPaths) /\ Len(s) \in Nat /\ Len(t) \in Nat
  BY DEF IsMask
<1>2. /\ u \in Seq(MaskPaths) /\ Len(u) = Len(s) + Len(t)
      /\ \A i \in 1 .. Len(s) + Len(t) :
           u[i] = IF i <= Len(s) THEN s[i] ELSE t[i - Len(s)]
  BY <1>1, ConcatProperties
<1> HIDE DEF u
<1>3. DOMAIN u = 1..(Len(s) + Len(t)) /\ DOMAIN s = 1..Len(s) /\ DOMAIN t = 1..Len(t)
  BY <1>1, <1>2
<1>4. ASSUME NEW i \in 1..Len(s) PROVE i \in 1..Len(u) /\ u[i] = s[i] /\ s[i] \in PathsOf(s)
  BY <1>1, <1>2, SeqFacts
<1>5. ASSUME NEW i \in 1..Len(t)
      PROVE  Len(s) + i \in 1..Len(u) /\ u[Len(s) + i] = t[i] /\ t[i] \in PathsOf(t)
  <2>1. Len(s) + i \in 1 .. Len(s) + Len(t) /\ ~(Len(s) + i <= Len(s)) /\ (Len(s) + i) - Len(s) = i
    BY <1>1
  <2>2. t[i] \in PathsOf(t)
    BY <1>1, SeqFacts
  <2> QED  BY <1>2, <2>1, <2>2
<1>6. ASSUME NEW k \in 1..Len(u)
      PROVE  \/ k \in 1..Len(s)
             \/ \E i \in 1..Len(t) : k = Len(s) + i
  <2>1. CASE k <= Len(s)
    BY <1>1, <2>1
  <2>2. CASE ~(k <= Len(s))
    <3>1. k - Len(s) \in 1..Len(t) /\ k = Len(s) + (k - Len(s))
      BY <1>1, <1>2, <2>2
    <3> QED  BY <3>1
  <2> QED  BY <2>1, <2>2
<1>7. ASSUME NEW k \in 1..Len(u), NEW l \in 1..Len(u), k < l PROVE Before(u[k], u[l])
  <2>1. CASE l \in 1..Len(s)
    <3>1. k \in 1..Len(s)
      BY <1>1, <1>7, <2>1
    <3> QED  BY <1>3, <1>4, <1>7, <2>1, <3>1 DEF IsMask
  <2>2. CASE \E j \in 1..Len(t) : l = Len(s) + j
    <3>1. PICK j \in 1..Len(t) : l = Len(s) + j
      BY <2>2
    <3>2. CASE k \in 1..Len(s)
      BY <1>4, <1>5, <3>1, <3>2
    <3>3. CASE \E i \in 1..Len(t) : k = Len(s) + i
      <4>1. PICK i \in 1..Len(t) : k = Len(s) + i
        BY <3>3
      <4>2. i < j
        BY <1>1, <1>7, <3>1, <4>1
      <4> QED  BY <1>3, <1>5, <3>1, <4>1, <4>2 DEF IsMask
    <3> QED  BY <1>6, <3>2, <3>3
  <2> QED  BY <1>6, <2>1, <2>2
<1>8. PathsOf(u) = PathsOf(s) \cup PathsOf(t)
  <2>1. ASSUME NEW x \in PathsOf(u) PROVE x \in PathsOf(s) \cup PathsOf(t)
    <3>1. PICK k \in 1..Len(u) : x = u[k]
      BY DEF PathsOf, Part
    <3>2. CASE k \in 1..Len(s)
      BY <1>4, <3>1, <3>2
    <3>3. CASE \E i \in 1..Len(t) : k = Len(s) + i
      BY <1>5, <3>1, <3>3
    <3> QED  BY <1>6, <3>2, <3>3
  <2>2. \A x \in PathsOf(s) \cup PathsOf(t) : x \in PathsOf(u)
    BY <1>4, <1>5 DEF PathsOf, Part
  <2> QED  BY <2>1, <2>2
<1>9. DOMAIN u = 1..Len(u)
  BY <1>2, <1>3
<1> QED  BY <1>2, <1>7, <1>8, <1>9 DEF u, IsMask

LEMMA MaskParts ==
  ASSUME NEW m, IsMask(m), NEW i \in Nat, i >= 1, NEW k \in Nat, k <= Len(m)
  PROVE  IsMask(SubSeq(m, i, k)) /\ PathsOf(SubSeq(m, i, k)) = Part(m, i, k)
<1> DEFINE u == SubSeq(m, i, k)
<1>1. m \in Seq(MaskPaths) /\ Len(m) \in Nat /\ DOMAIN m = 1..Len(m)
  BY DEF IsMask
<1>2. \A n \in i..k : m[n] \in MaskPaths /\ n \in 1..Len(m)
  BY <1>1
<1>3. /\ u \in Seq(MaskPaths) /\ Len(u) = IF i <= k THEN k - i + 1 ELSE 0
      /\ \A n \in 1 .. k - i + 1 : u[n] = m[i + n - 1]
  BY <1>2, SubSeqProperties
<1> HIDE DEF u
<1>4. DOMAIN u = 1..Len(u) /\ Len(u) \in Nat
  BY <1>3
<1>5. ASSUME NEW n \in 1..Len(u)
      PROVE  i + n - 1 \in i..k /\ u[n] = m[i + n - 1] /\ n \in Nat
  <2>1. n \in 1 .. k - i + 1 /\ i + n - 1 \in i..k
    BY <1>3
  <2> QED  BY <1>3, <2>1
<1>6. ASSUME NEW n \in i..k PROVE n - i + 1 \in 1..Len(u) /\ u[n - i + 1] = m[n]
  <2>1. n - i + 1 \in 1..Len(u) /\ n - i + 1 \in 1 .. k - i + 1 /\ i + (n - i + 1) - 1 = n
    BY <1>3
  <2> QED  BY <1>3, <2>1
<1>7. ASSUME NEW a \in 1..Len(u), NEW b \in 1..Len(u), a < b PROVE Before(u[a], u[b])
  <2>1. i + a - 1 < i + b - 1
    BY <1>5, <1>7
  <2>2. i + a - 1 \in DOMAIN m /\ i + b - 1 \in DOMAIN m
    BY <1>1, <1>2, <1>5
  <2> QED  BY <1>5, <2>1, <2>2 DEF IsMask
<1>8. PathsOf(u) = Part(m, i, k)
  <2>1. \A x \in PathsOf(u) : x \in Part(m, i, k)
    BY <1>5 DEF PathsOf, Part
  <2>2. \A x \in Part(m, i, k) : x \in PathsOf(u)
    BY <1>6 DEF PathsOf, Part
  <2> QED  BY <2>1, <2>2
<1> QED  BY <1>3, <1>4, <1>7, <1>8 DEF u, IsMask

LEMMA SmallMasks ==
  /\ IsMask(<<>>) /\ PathsOf(<<>>) = {}
  /\ \A p \in MaskPaths : IsMask(<<p>>) /\ PathsOf(<<p>>) = {p}
<1>1. IsMask(<<>>) /\ PathsOf(<<>>) = {}
  BY DEF IsMask, PathsOf, Part
<1>2. ASSUME NEW p \in MaskPaths PROVE IsMask(<<p>>) /\ PathsOf(<<p>>) = {p}
  BY DEF IsMask, PathsOf, Part
<1> QED  BY <1>1, <1>2

LEMMA PastIs ==
  ASSUME NEW m, NEW i \in Nat, Len(m) \in Nat, i <= Len(m) + 1, NEW p
  PROVE  /\ PM!Past(m, i, p) \in i .. Len(m) + 1
         /\ PM!Past(m, i, p) <= Len(m) => ~PM!IsPrefix(p, m[PM!Past(m, i, p)])
         /\ \A n \in i .. PM!Past(m, i, p) - 1 : PM!IsPrefix(p, m[n])
<1> DEFINE Stops == {k \in i .. Len(m) + 1 : k <= Len(m) => ~PM!IsPrefix(p, m[k])}
           Less == {ss \in Nat \X Nat : ss[1] < ss[2]}
<1>1. IsWellFoundedOn(Less, Nat)
  BY NatLessThanWellFounded DEF OpToRel
<1>2. Stops \subseteq Nat /\ Len(m) + 1 \in Stops
  OBVIOUS
<1>3. PICK k \in Stops : \A n \in Stops : ~(<<n, k>> \in Less)
  BY <1>1, <1>2, WFMin
<1>4. k \in i .. Len(m) + 1 /\ (k <= Len(m) => ~PM!IsPrefix(p, m[k]))
  OBVIOUS
<1>5. ASSUME NEW n \in i .. k - 1 PROVE PM!IsPrefix(p, m[n])
  <2>1. n \in Nat /\ k \in Nat /\ n < k /\ n <= Len(m) /\ n \in i .. Len(m) + 1
    BY <1>4
  <2>2. n \notin Stops
    BY <1>3, <2>1
  <2> QED  BY <2>1, <2>2
<1> QED  BY <1>4, <1>5 DEF PM!Past

(* A recursive function exists if what it is at a place is said by what it *)
(* is at smaller places.                                                   *)
Recurses(D, V, M, bound, E) ==
  /\ M \in [D -> Nat] /\ bound \in Nat
  /\ \A x \in D : M[x] < bound
  /\ E \in [[D -> V] -> [D -> V]]
  /\ \A f, g \in [D -> V] : \A x \in D :
       (\A y \in D : M[y] < M[x] => f[y] = g[y]) => E[f][x] = E[g][x]

LEMMA RecursionExists ==
  ASSUME NEW D, NEW V, NEW v \in V, NEW M, NEW bound, NEW E, Recurses(D, V, M, bound, E)
  PROVE  \E f \in [D -> V] : f = E[f]
<1> USE DEF Recurses
<1> DEFINE Good(n) == \E f \in [D -> V] : \A x \in D : M[x] < n => E[f][x] = f[x]
           G == {n \in Nat : Good(n)}
<1>1. 0 \in G
  <2>1. [x \in D |-> v] \in [D -> V] /\ \A x \in D : ~(M[x] < 0)
    OBVIOUS
  <2> QED  BY <2>1
<1>2. ASSUME NEW n \in Nat, n \in G PROVE n + 1 \in G
  <2>1. PICK f \in [D -> V] : \A x \in D : M[x] < n => E[f][x] = f[x]
    BY <1>2
  <2>2. PICK g : g = E[f]
    OBVIOUS
  <2>3. g \in [D -> V]
    BY <2>2
  <2>4. ASSUME NEW x \in D, M[x] < n + 1 PROVE E[g][x] = g[x]
    <3>1. ASSUME NEW y \in D, M[y] < M[x] PROVE g[y] = f[y]
      <4>1. M[y] \in Nat /\ M[x] \in Nat
        OBVIOUS
      <4>2. M[y] < n
        BY <2>4, <3>1, <4>1
      <4> QED  BY <2>1, <2>2, <4>2
    <3> QED  BY <2>2, <2>3, <3>1
  <2> QED  BY <2>3, <2>4
<1> HIDE DEF G
<1>3. bound \in G
  BY <1>1, <1>2, Induction
<1>4. PICK f \in [D -> V] : \A x \in D : M[x] < bound => E[f][x] = f[x]
  BY <1>3 DEF G
<1>5. E[f] \in [D -> V] /\ \A x \in D : E[f][x] = f[x]
  BY <1>4
<1> QED  BY <1>5

From(m, i) == Part(m, i, Len(m))

LEMMA MaskSplits ==
  ASSUME NEW m, IsMask(m), NEW i \in 1..Len(m) + 1, NEW k \in i..Len(m) + 1
  PROVE  /\ From(m, i) \subseteq MaskPaths
         /\ From(m, i) = Part(m, i, k - 1) \cup From(m, k)
         /\ \A x \in Part(m, i, k - 1), y \in From(m, k) : Before(x, y)
<1>1. Len(m) \in Nat /\ DOMAIN m = 1..Len(m) /\ \A n \in 1..Len(m) : m[n] \in MaskPaths
  BY DEF IsMask
<1>2. From(m, i) \subseteq MaskPaths
  BY <1>1 DEF From, Part
<1>3. From(m, i) = Part(m, i, k - 1) \cup From(m, k)
  <2>1. i..Len(m) = (i..k - 1) \cup (k..Len(m))
    BY <1>1
  <2> QED  BY <2>1 DEF From, Part
<1>4. ASSUME NEW x \in Part(m, i, k - 1), NEW y \in From(m, k) PROVE Before(x, y)
  <2>1. PICK a \in i..k - 1 : x = m[a]
    BY DEF Part
  <2>2. PICK b \in k..Len(m) : y = m[b]
    BY DEF Part, From
  <2>3. a \in DOMAIN m /\ b \in DOMAIN m /\ a < b
    BY <1>1
  <2> QED  BY <2>1, <2>2, <2>3 DEF IsMask
<1> QED  BY <1>2, <1>3, <1>4

(* The first path of the rest of a mask.                                   *)
LEMMA MaskHead ==
  ASSUME NEW m, IsMask(m), NEW i \in 1..Len(m)
  PROVE  /\ m[i] \in MaskPaths /\ m[i] \in From(m, i)
         /\ i + 1 \in 1..Len(m) + 1 /\ i \in 1..Len(m) + 1
         /\ From(m, i) \subseteq MaskPaths
         /\ From(m, i) = {m[i]} \cup From(m, i + 1)
         /\ \A y \in From(m, i + 1) : Before(m[i], y)
         /\ \A p \in MaskPaths : Before(p, m[i]) => \A y \in From(m, i) : Before(p, y)
<1>1. Len(m) \in Nat /\ DOMAIN m = 1..Len(m) /\ m[i] \in MaskPaths
  BY DEF IsMask
<1>2. i \in 1..Len(m) + 1 /\ i + 1 \in i..Len(m) + 1 /\ i + 1 \in 1..Len(m) + 1 /\ i + 1 - 1 = i
  BY <1>1
<1>3. Part(m, i, i) = {m[i]}
  BY <1>1 DEF Part
<1>4. /\ From(m, i) \subseteq MaskPaths
      /\ From(m, i) = {m[i]} \cup From(m, i + 1)
      /\ \A y \in From(m, i + 1) : Before(m[i], y)
  BY <1>2, <1>3, MaskSplits
<1>5. ASSUME NEW p \in MaskPaths, Before(p, m[i]), NEW y \in From(m, i) PROVE Before(p, y)
  BY <1>1, <1>4, <1>5, MaskPathsAreOrdered
<1> QED  BY <1>1, <1>2, <1>4, <1>5

(* What is below p is left behind.                                         *)
LEMMA PastMask ==
  ASSUME NEW m, IsMask(m), NEW i \in 1..Len(m), NEW p \in MaskPaths, PM!IsPrefix(p, m[i])
  PROVE  LET k == PM!Past(m, i, p)
         IN  /\ k \in i + 1..Len(m) + 1 /\ k \in i..Len(m) + 1
             /\ \A x \in Part(m, i, k - 1) : PM!IsPrefix(p, x)
             /\ \A y \in From(m, k) : Before(p, y)
<1>1. Len(m) \in Nat /\ DOMAIN m = 1..Len(m) /\ \A n \in 1..Len(m) : m[n] \in MaskPaths
  BY DEF IsMask
<1>2. PICK k : k = PM!Past(m, i, p)
  OBVIOUS
<1>3. /\ k \in i .. Len(m) + 1
      /\ k <= Len(m) => ~PM!IsPrefix(p, m[k])
      /\ \A n \in i .. k - 1 : PM!IsPrefix(p, m[n])
  BY <1>1, <1>2, PastIs
<1>4. k # i
  BY <1>1, <1>3
<1>5. k \in i + 1..Len(m) + 1
  BY <1>1, <1>3, <1>4
<1>6. \A x \in Part(m, i, k - 1) : PM!IsPrefix(p, x)
  BY <1>3 DEF Part
<1>7. ASSUME NEW y \in From(m, k) PROVE Before(p, y)
  <2>1. k \in 1..Len(m)
    BY <1>1, <1>5 DEF From, Part
  <2>2. Before(m[i], m[k])
    BY <1>1, <1>5, <2>1 DEF IsMask
  <2>3. ~PM!IsPrefix(p, m[k])
    BY <1>3, <2>1
  <2>4. Before(p, m[k])
    BY <1>1, <2>1, <2>2, <2>3, MaskPathsAreOrdered
  <2> QED  BY <2>1, <2>4, MaskHead
<1> QED  BY <1>2, <1>3, <1>5, <1>6, <1>7

LEMMA CoverIs ==
  /\ \A S, T : Cover(S \cup T) = Cover(S) \cup Cover(T)
  /\ \A S, T, U : Cover(S \cup T \cup U) = Cover(S) \cup Cover(T) \cup Cover(U)
  /\ \A S, T : (S \subseteq MaskPaths /\ T \subseteq MaskPaths
                  /\ \A x \in S : \E p \in T : PM!IsPrefix(p, x)) => Cover(S) \subseteq Cover(T)
  /\ \A S : S \subseteq MaskPaths => S \subseteq Cover(S)
<1>1. /\ \A S, T : Cover(S \cup T) = Cover(S) \cup Cover(T)
      /\ \A S, T, U : Cover(S \cup T \cup U) = Cover(S) \cup Cover(T) \cup Cover(U)
  BY DEF Cover
<1>2. ASSUME NEW S, NEW T, S \subseteq MaskPaths, T \subseteq MaskPaths,
             \A x \in S : \E p \in T : PM!IsPrefix(p, x),
             NEW q \in Cover(S)
      PROVE  q \in Cover(T)
  <2>1. q \in MaskPaths
    BY DEF Cover
  <2>2. PICK x \in S : PM!IsPrefix(x, q)
    BY DEF Cover
  <2>3. PICK p \in T : PM!IsPrefix(p, x)
    BY <1>2
  <2>4. PM!IsPrefix(p, q)
    BY <1>2, <2>1, <2>2, <2>3, MaskPathsAreOrdered
  <2> QED  BY <2>1, <2>4 DEF Cover
<1>3. ASSUME NEW S, S \subseteq MaskPaths, NEW x \in S PROVE x \in Cover(S)
  BY <1>3, MaskPathsAreOrdered DEF Cover
<1> QED  BY <1>1, <1>2, <1>3

(***************************************************************************)
(* Union.                                                                  *)
(***************************************************************************)
(* s is taken before the merging goes on at i2 and j2.                     *)
TakenFirst(l, r, i, j, s, i2, j2) ==
  /\ IsMask(s) /\ PathsOf(s) \subseteq From(l, i) \cup From(r, j)
  /\ i2 \in i..Len(l) + 1 /\ j2 \in j..Len(r) + 1 /\ i + j < i2 + j2
  /\ From(l, i2) \subseteq From(l, i) /\ From(r, j2) \subseteq From(r, j)
  /\ \A x \in PathsOf(s), y \in From(l, i2) \cup From(r, j2) : Before(x, y)

UnionEndsWith(l, r, i, j, s) ==
  /\ \A f : PM!UnionFrom(l, r, f, i, j) = s
  /\ IsMask(s) /\ PathsOf(s) = From(l, i) \cup From(r, j)

UnionGoesOn(l, r, i, j, s, i2, j2) ==
  /\ \A f : PM!UnionFrom(l, r, f, i, j) = s \o f[<<i2, j2>>]
  /\ TakenFirst(l, r, i, j, s, i2, j2)
  /\ Cover(From(l, i) \cup From(r, j)) =
       Cover(PathsOf(s) \cup From(l, i2) \cup From(r, j2))

LEMMA UnionEnds ==
  ASSUME NEW l, IsMask(l), NEW r, IsMask(r),
         NEW i \in 1..Len(l) + 1, NEW j \in 1..Len(r) + 1, i > Len(l) \/ j > Len(r)
  PROVE  \E s : UnionEndsWith(l, r, i, j, s)
<1> USE DEF UnionEndsWith
<1>1. Len(l) \in Nat /\ Len(r) \in Nat
  BY DEF IsMask
<1>2. CASE i > Len(l)
  <2>1. From(l, i) = {}
    BY <1>1, <1>2 DEF From, Part
  <2>2. ASSUME NEW f PROVE PM!UnionFrom(l, r, f, i, j) = SubSeq(r, j, Len(r))
    <3>1. ~(i <= Len(l))
      BY <1>1, <1>2
    <3> QED  BY <1>2, <3>1 DEF PM!UnionFrom
  <2>3. IsMask(SubSeq(r, j, Len(r))) /\ PathsOf(SubSeq(r, j, Len(r))) = From(r, j)
    BY <1>1, MaskParts DEF From
  <2> QED  BY <2>1, <2>2, <2>3
<1>3. CASE ~(i > Len(l)) /\ j > Len(r)
  <2>1. From(r, j) = {}
    BY <1>1, <1>3 DEF From, Part
  <2>2. ASSUME NEW f PROVE PM!UnionFrom(l, r, f, i, j) = SubSeq(l, i, Len(l))
    <3>1. i <= Len(l) /\ ~(i > Len(l))
      BY <1>1, <1>3
    <3> QED  BY <1>3, <3>1 DEF PM!UnionFrom
  <2>3. IsMask(SubSeq(l, i, Len(l))) /\ PathsOf(SubSeq(l, i, Len(l))) = From(l, i)
    BY <1>1, MaskParts DEF From
  <2> QED  BY <2>1, <2>2, <2>3
<1> QED  BY <1>2, <1>3

LEMMA UnionStep ==
  ASSUME NEW l, IsMask(l), NEW r, IsMask(r), NEW i \in 1..Len(l), NEW j \in 1..Len(r)
  PROVE  \E s, i2, j2 : UnionGoesOn(l, r, i, j, s, i2, j2)
<1> USE DEF UnionGoesOn
<1> DEFINE p == l[i]
           q == r[j]
<1>1. Len(l) \in Nat /\ Len(r) \in Nat /\ ~(i > Len(l)) /\ ~(j > Len(r))
  BY DEF IsMask
<1>2. /\ p \in MaskPaths /\ p \in From(l, i) /\ From(l, i) \subseteq MaskPaths
      /\ i + 1 \in 1..Len(l) + 1 /\ i \in 1..Len(l) + 1
      /\ From(l, i) = {p} \cup From(l, i + 1)
      /\ \A y \in From(l, i + 1) : Before(p, y)
      /\ \A x \in MaskPaths : Before(x, p) => \A y \in From(l, i) : Before(x, y)
  BY MaskHead
<1>3. /\ q \in MaskPaths /\ q \in From(r, j) /\ From(r, j) \subseteq MaskPaths
      /\ j + 1 \in 1..Len(r) + 1 /\ j \in 1..Len(r) + 1
      /\ From(r, j) = {q} \cup From(r, j + 1)
      /\ \A y \in From(r, j + 1) : Before(q, y)
      /\ \A x \in MaskPaths : Before(x, q) => \A y \in From(r, j) : Before(x, y)
  BY MaskHead
<1>4. IsMask(<<p>>) /\ PathsOf(<<p>>) = {p} /\ IsMask(<<q>>) /\ PathsOf(<<q>>) = {q}
  BY <1>2, <1>3, SmallMasks
<1>5. CASE PM!IsPrefix(p, q)
  <2>1. PICK k : k = PM!Past(r, j, p)
    OBVIOUS
  <2>2. /\ k \in j + 1..Len(r) + 1 /\ k \in j..Len(r) + 1
        /\ \A x \in Part(r, j, k - 1) : PM!IsPrefix(p, x)
        /\ \A y \in From(r, k) : Before(p, y)
    BY <1>2, <1>5, <2>1, PastMask
  <2>3. From(r, j) = Part(r, j, k - 1) \cup From(r, k)
    BY <1>3, <2>2, MaskSplits
  <2>4. ASSUME NEW f PROVE PM!UnionFrom(l, r, f, i, j) = <<p>> \o f[<<i + 1, k>>]
    <3>1. ~PM!IsStrictPrefix(q, p)
      BY <1>2, <1>3, <1>5, MaskPathsAreOrdered DEF PM!IsStrictPrefix
    <3> QED  BY <1>1, <1>5, <2>1, <3>1 DEF PM!UnionFrom
  <2>5. i + 1 \in i..Len(l) + 1 /\ i + j < (i + 1) + k
    BY <1>1, <2>2
  <2>6. TakenFirst(l, r, i, j, <<p>>, i + 1, k)
    BY <1>2, <1>4, <2>2, <2>3, <2>5 DEF TakenFirst
  <2>7. Cover(Part(r, j, k - 1)) \subseteq Cover({p})
    <3>1. Part(r, j, k - 1) \subseteq MaskPaths /\ {p} \subseteq MaskPaths
      BY <1>2, <1>3, <2>3
    <3> QED  BY <2>2, <3>1, CoverIs, ZenonT(40)
  <2>8. Cover(From(l, i) \cup From(r, j)) = Cover(PathsOf(<<p>>) \cup From(l, i + 1) \cup From(r, k))
    <3>1. Cover(From(l, i)) = Cover({p}) \cup Cover(From(l, i + 1))
      BY <1>2, CoverIs
    <3>2. Cover(From(r, j)) = Cover(Part(r, j, k - 1)) \cup Cover(From(r, k))
      BY <2>3, CoverIs
    <3>3. Cover(PathsOf(<<p>>) \cup From(l, i + 1) \cup From(r, k)) =
            Cover({p}) \cup Cover(From(l, i + 1)) \cup Cover(From(r, k))
      BY <1>4, CoverIs, SMTT(30)
    <3>4. Cover(From(l, i) \cup From(r, j)) = Cover(From(l, i)) \cup Cover(From(r, j))
      BY CoverIs
    <3> QED  BY <2>7, <3>1, <3>2, <3>3, <3>4
  <2> QED  BY <2>4, <2>6, <2>8
<1>6. CASE PM!IsPrefix(q, p) /\ ~PM!IsPrefix(p, q)
  <2>1. PICK k : k = PM!Past(l, i, q)
    OBVIOUS
  <2>2. /\ k \in i + 1..Len(l) + 1 /\ k \in i..Len(l) + 1
        /\ \A x \in Part(l, i, k - 1) : PM!IsPrefix(q, x)
        /\ \A y \in From(l, k) : Before(q, y)
    BY <1>3, <1>6, <2>1, PastMask
  <2>3. From(l, i) = Part(l, i, k - 1) \cup From(l, k)
    BY <1>2, <2>2, MaskSplits
  <2>4. PM!IsStrictPrefix(q, p)
    BY <1>6 DEF PM!IsStrictPrefix
  <2>5. \A f : PM!UnionFrom(l, r, f, i, j) = <<q>> \o f[<<k, j + 1>>]
    BY <1>1, <1>6, <2>1, <2>4 DEF PM!UnionFrom
  <2>6. j + 1 \in j..Len(r) + 1 /\ i + j < k + (j + 1)
    BY <1>1, <2>2
  <2>7. TakenFirst(l, r, i, j, <<q>>, k, j + 1)
    BY <1>3, <1>4, <2>2, <2>3, <2>6 DEF TakenFirst
  <2>8. Cover(Part(l, i, k - 1)) \subseteq Cover({q})
    <3>1. Part(l, i, k - 1) \subseteq MaskPaths /\ {q} \subseteq MaskPaths
      BY <1>2, <1>3, <2>3
    <3> QED  BY <2>2, <3>1, CoverIs, ZenonT(40)
  <2>9. Cover(From(l, i) \cup From(r, j)) = Cover(PathsOf(<<q>>) \cup From(l, k) \cup From(r, j + 1))
    <3>1. Cover(From(r, j)) = Cover({q}) \cup Cover(From(r, j + 1))
      BY <1>3, CoverIs
    <3>2. Cover(From(l, i)) = Cover(Part(l, i, k - 1)) \cup Cover(From(l, k))
      BY <2>3, CoverIs
    <3>3. Cover(PathsOf(<<q>>) \cup From(l, k) \cup From(r, j + 1)) =
            Cover({q}) \cup Cover(From(l, k)) \cup Cover(From(r, j + 1))
      BY <1>4, CoverIs
    <3>4. Cover(From(l, i) \cup From(r, j)) = Cover(From(l, i)) \cup Cover(From(r, j))
      BY CoverIs
    <3> QED  BY <2>8, <3>1, <3>2, <3>3, <3>4
  <2> QED  BY <2>5, <2>7, <2>9
<1>7. CASE Before(p, q)
  <2>1. PM!LessThan(p, q) /\ ~PM!IsPrefix(p, q) /\ ~PM!IsPrefix(q, p) /\ ~PM!IsStrictPrefix(q, p)
    BY <1>2, <1>3, <1>7, MaskPathsAreOrdered DEF PM!IsStrictPrefix
  <2>2. \A f : PM!UnionFrom(l, r, f, i, j) = <<p>> \o f[<<i + 1, j>>]
    BY <1>1, <2>1 DEF PM!UnionFrom
  <2>3. /\ i + 1 \in i..Len(l) + 1 /\ i + j < (i + 1) + j
        /\ j \in j..Len(r) + 1
    BY <1>1
  <2>4. TakenFirst(l, r, i, j, <<p>>, i + 1, j)
    BY <1>2, <1>3, <1>4, <1>7, <2>3 DEF TakenFirst
  <2>5. From(l, i) \cup From(r, j) = PathsOf(<<p>>) \cup From(l, i + 1) \cup From(r, j)
    BY <1>2, <1>4
  <2> QED  BY <2>2, <2>4, <2>5
<1>8. CASE Before(q, p)
  <2>1. /\ ~PM!LessThan(p, q) /\ ~PM!IsPrefix(p, q) /\ ~PM!IsPrefix(q, p)
        /\ ~PM!IsStrictPrefix(q, p)
    BY <1>2, <1>3, <1>8, MaskPathsAreOrdered DEF PM!IsStrictPrefix
  <2>2. \A f : PM!UnionFrom(l, r, f, i, j) = <<q>> \o f[<<i, j + 1>>]
    BY <1>1, <2>1 DEF PM!UnionFrom
  <2>3. /\ j + 1 \in j..Len(r) + 1 /\ i + j < i + (j + 1)
        /\ i \in i..Len(l) + 1
    BY <1>1
  <2>4. TakenFirst(l, r, i, j, <<q>>, i, j + 1)
    BY <1>2, <1>3, <1>4, <1>8, <2>3 DEF TakenFirst
  <2>5. From(l, i) \cup From(r, j) = PathsOf(<<q>>) \cup From(l, i) \cup From(r, j + 1)
    BY <1>3, <1>4
  <2> QED  BY <2>2, <2>4, <2>5
<1> QED  BY <1>2, <1>3, <1>5, <1>6, <1>7, <1>8, MaskPathsAreOrdered

LEMMA UnionIs ==
  ASSUME NEW l, IsMask(l), NEW r, IsMask(r)
  PROVE  /\ IsMask(PM!Union(l, r))
         /\ PathsOf(PM!Union(l, r)) \subseteq PathsOf(l) \cup PathsOf(r)
         /\ Cover(PathsOf(PM!Union(l, r))) = Cover(PathsOf(l)) \cup Cover(PathsOf(r))
<1> DEFINE D == PM!Places(l, r)
           V == Seq(MaskPaths)
           M == [x \in D |-> (Len(l) + 1 - x[1]) + (Len(r) + 1 - x[2])]
           E == [f \in [D -> V] |-> [x \in D |-> PM!UnionFrom(l, r, f, x[1], x[2])]]
           bound == Len(l) + Len(r) + 1
<1>1. Len(l) \in Nat /\ Len(r) \in Nat
  BY DEF IsMask
<1>2. /\ \A x \in D : x[1] \in 1..Len(l) + 1 /\ x[2] \in 1..Len(r) + 1 /\ x = <<x[1], x[2]>>
      /\ \A i \in 1..Len(l) + 1, j \in 1..Len(r) + 1 :
           <<i, j>> \in D /\ <<i, j>>[1] = i /\ <<i, j>>[2] = j
  BY DEF PM!Places
<1>3. M \in [D -> Nat] /\ bound \in Nat /\ \A x \in D : M[x] < bound
  BY <1>1, <1>2
<1>4. ASSUME NEW x \in D
      PROVE  \/ \E s \in V : \A f : PM!UnionFrom(l, r, f, x[1], x[2]) = s
             \/ \E s \in V, y \in D :
                  M[y] < M[x] /\ \A f : PM!UnionFrom(l, r, f, x[1], x[2]) = s \o f[y]
  <2>1. x[1] \in 1..Len(l) + 1 /\ x[2] \in 1..Len(r) + 1
    BY <1>2
  <2>2. CASE x[1] > Len(l) \/ x[2] > Len(r)
    <3>1. PICK s : UnionEndsWith(l, r, x[1], x[2], s)
      BY <2>1, <2>2, UnionEnds
    <3> QED  BY <3>1 DEF UnionEndsWith, IsMask
  <2>3. CASE ~(x[1] > Len(l) \/ x[2] > Len(r))
    <3>1. x[1] \in 1..Len(l) /\ x[2] \in 1..Len(r)
      BY <1>1, <2>1, <2>3
    <3>0. PICK s, i2, j2 : UnionGoesOn(l, r, x[1], x[2], s, i2, j2)
      BY <3>1, UnionStep
    <3>2. /\ \A f : PM!UnionFrom(l, r, f, x[1], x[2]) = s \o f[<<i2, j2>>]
          /\ TakenFirst(l, r, x[1], x[2], s, i2, j2)
      BY <3>0 DEF UnionGoesOn
    <3>3. /\ i2 \in 1..Len(l) + 1 /\ j2 \in 1..Len(r) + 1 /\ x[1] + x[2] < i2 + j2
          /\ s \in V
      BY <1>1, <2>1, <3>2 DEF TakenFirst, IsMask
    <3>4. <<i2, j2>> \in D /\ <<i2, j2>>[1] = i2 /\ <<i2, j2>>[2] = j2
      BY <1>2, <3>3
    <3>5. /\ M[<<i2, j2>>] = (Len(l) + 1 - i2) + (Len(r) + 1 - j2)
          /\ M[x] = (Len(l) + 1 - x[1]) + (Len(r) + 1 - x[2])
      BY <3>4
    <3>6. i2 \in Int /\ j2 \in Int /\ x[1] \in Int /\ x[2] \in Int
      BY <2>1, <3>3
    <3>7. M[<<i2, j2>>] < M[x]
      BY <1>1, <3>3, <3>5, <3>6, SMTT(30)
    <3> QED  BY <3>2, <3>3, <3>4, <3>7
  <2> QED  BY <2>2, <2>3
<1>5. \E f \in [D -> V] : f = [x \in D |-> PM!UnionFrom(l, r, f, x[1], x[2])]
  <2>1. ASSUME NEW f \in [D -> V], NEW x \in D PROVE PM!UnionFrom(l, r, f, x[1], x[2]) \in V
    <3>1. CASE \E s \in V : \A g : PM!UnionFrom(l, r, g, x[1], x[2]) = s
      BY <3>1
    <3>2. CASE \E s \in V, y \in D :
                 M[y] < M[x] /\ \A g : PM!UnionFrom(l, r, g, x[1], x[2]) = s \o g[y]
      <4>1. PICK s \in V, y \in D : \A g : PM!UnionFrom(l, r, g, x[1], x[2]) = s \o g[y]
        BY <3>2
      <4>2. s \o f[y] \in V
        BY ConcatProperties
      <4> QED  BY <4>1, <4>2
    <3> QED  BY <1>4, <3>1, <3>2
  <2>2. E \in [[D -> V] -> [D -> V]]
    BY <2>1
  <2>3. ASSUME NEW f \in [D -> V], NEW g \in [D -> V], NEW x \in D,
               \A y \in D : M[y] < M[x] => f[y] = g[y]
        PROVE  E[f][x] = E[g][x]
    <3>1. PM!UnionFrom(l, r, f, x[1], x[2]) = PM!UnionFrom(l, r, g, x[1], x[2])
      BY <1>4, <2>3, ZenonT(40)
    <3> QED  BY <3>1
  <2>4. <<>> \in V
    OBVIOUS
  <2>5. \E f \in [D -> V] : f = E[f]
    <3> HIDE DEF D, M, V, bound, E
    <3>1. \A f, g \in [D -> V] : \A x \in D :
            (\A y \in D : M[y] < M[x] => f[y] = g[y]) => E[f][x] = E[g][x]
      BY <2>3
    <3>2. Recurses(D, V, M, bound, E)
      BY <1>3, <2>2, <3>1 DEF Recurses
    <3> QED  BY <2>4, <3>2, RecursionExists
  <2> QED  BY <2>5
<1>6. PICK h : /\ h = [x \in D |-> PM!UnionFrom(l, r, h, x[1], x[2])]
               /\ PM!Union(l, r) = h[<<1, 1>>]
  BY <1>5 DEF PM!Union
<1> DEFINE Done(i, j) ==
             /\ IsMask(h[<<i, j>>])
             /\ PathsOf(h[<<i, j>>]) \subseteq From(l, i) \cup From(r, j)
             /\ Cover(PathsOf(h[<<i, j>>])) = Cover(From(l, i) \cup From(r, j))
           Low(n) == \A i \in 1..Len(l) + 1, j \in 1..Len(r) + 1 :
                       (Len(l) + 1 - i) + (Len(r) + 1 - j) < n => Done(i, j)
           G == {n \in Nat : Low(n)}
<1>7. \A i \in 1..Len(l) + 1, j \in 1..Len(r) + 1 :
        h[<<i, j>>] = PM!UnionFrom(l, r, h, i, j)
  BY <1>2, <1>6, ZenonT(40)
<1> HIDE DEF D, V, M, E
<1>8. 0 \in G
  <2> HIDE DEF Done
  <2>1. \A i \in 1..Len(l) + 1, j \in 1..Len(r) + 1 :
          ~((Len(l) + 1 - i) + (Len(r) + 1 - j) < 0)
    BY <1>1
  <2> QED  BY <2>1
<1>9. ASSUME NEW n \in Nat, n \in G PROVE n + 1 \in G
  <2>0. ASSUME NEW i \in 1..Len(l) + 1, NEW j \in 1..Len(r) + 1,
               (Len(l) + 1 - i) + (Len(r) + 1 - j) < n + 1
        PROVE  Done(i, j)
    <3> HIDE DEF Low, G, Done, bound
    <3>1. CASE i > Len(l) \/ j > Len(r)
      <4>1. PICK s : UnionEndsWith(l, r, i, j, s)
        BY <3>1, UnionEnds
      <4>2. h[<<i, j>>] = s
        BY <1>7, <4>1 DEF UnionEndsWith
      <4> QED  BY <4>1, <4>2 DEF Done, UnionEndsWith
    <3>2. CASE ~(i > Len(l) \/ j > Len(r))
      <4>1. i \in 1..Len(l) /\ j \in 1..Len(r)
        BY <1>1, <3>2
      <4>0. PICK s, i2, j2 : UnionGoesOn(l, r, i, j, s, i2, j2)
        BY <4>1, UnionStep
      <4>2. /\ \A f : PM!UnionFrom(l, r, f, i, j) = s \o f[<<i2, j2>>]
            /\ TakenFirst(l, r, i, j, s, i2, j2)
            /\ Cover(From(l, i) \cup From(r, j)) =
                 Cover(PathsOf(s) \cup From(l, i2) \cup From(r, j2))
        BY <4>0 DEF UnionGoesOn
      <4>3. /\ i2 \in 1..Len(l) + 1 /\ j2 \in 1..Len(r) + 1 /\ i + j < i2 + j2
            /\ i2 \in Int /\ j2 \in Int /\ i \in Int /\ j \in Int
        BY <1>1, <4>2 DEF TakenFirst
      <4>4. Done(i2, j2)
        <5>1. (Len(l) + 1 - i2) + (Len(r) + 1 - j2) < n
          BY <1>1, <2>0, <4>3
        <5> QED  BY <1>9, <4>3, <5>1 DEF Low, G
      <4>5. /\ IsMask(h[<<i2, j2>>])
            /\ PathsOf(h[<<i2, j2>>]) \subseteq From(l, i2) \cup From(r, j2)
            /\ Cover(PathsOf(h[<<i2, j2>>])) = Cover(From(l, i2) \cup From(r, j2))
        BY <4>4 DEF Done
      <4>6. \A x \in PathsOf(s), y \in PathsOf(h[<<i2, j2>>]) : Before(x, y)
        BY <4>2, <4>5 DEF TakenFirst
      <4>7. h[<<i, j>>] = s \o h[<<i2, j2>>]
        BY <1>7, <4>2
      <4>8. /\ IsMask(h[<<i, j>>])
            /\ PathsOf(h[<<i, j>>]) = PathsOf(s) \cup PathsOf(h[<<i2, j2>>])
        BY <4>2, <4>5, <4>6, <4>7, MasksJoin DEF TakenFirst
      <4>9. PathsOf(h[<<i, j>>]) \subseteq From(l, i) \cup From(r, j)
        BY <4>2, <4>5, <4>8 DEF TakenFirst
      <4>10. Cover(PathsOf(h[<<i, j>>])) = Cover(From(l, i) \cup From(r, j))
        <5>1. Cover(PathsOf(s) \cup PathsOf(h[<<i2, j2>>])) =
                Cover(PathsOf(s)) \cup Cover(PathsOf(h[<<i2, j2>>]))
          BY CoverIs
        <5>2. Cover(From(l, i2) \cup From(r, j2)) = Cover(From(l, i2)) \cup Cover(From(r, j2))
          BY CoverIs
        <5>3. Cover(PathsOf(s) \cup From(l, i2) \cup From(r, j2)) =
                Cover(PathsOf(s)) \cup Cover(From(l, i2)) \cup Cover(From(r, j2))
          BY CoverIs
        <5> QED  BY <4>2, <4>5, <4>8, <5>1, <5>2, <5>3
      <4> QED  BY <4>8, <4>9, <4>10 DEF Done
    <3> QED  BY <3>1, <3>2
  <2> HIDE DEF Done
  <2> QED  BY <2>0
<1>10. bound + 2 \in G
  <2> HIDE DEF G
  <2>1. bound + 2 \in Nat
    BY <1>1
  <2> QED  BY <1>8, <1>9, <2>1, Induction
<1>11. Done(1, 1)
  <2>1. 1 \in 1..Len(l) + 1 /\ 1 \in 1..Len(r) + 1
    BY <1>1
  <2>2. (Len(l) + 1 - 1) + (Len(r) + 1 - 1) < bound + 2
    BY <1>1
  <2> HIDE DEF bound, Done
  <2> QED  BY <1>10, <2>1, <2>2
<1> QED  BY <1>6, <1>11, CoverIs DEF PathsOf, From

(***************************************************************************)
(* Intersection.                                                           *)
(***************************************************************************)
LEMMA CoversApart ==
  ASSUME NEW S \in SUBSET MaskPaths, NEW T \in SUBSET MaskPaths,
         \A x \in S, y \in T : Before(x, y)
  PROVE  Cover(S) \cap Cover(T) = {}
<1> SUFFICES ASSUME NEW q \in Cover(S), q \in Cover(T) PROVE FALSE
  OBVIOUS
<1>1. q \in MaskPaths
  BY DEF Cover
<1>2. PICK x \in S : PM!IsPrefix(x, q)
  BY DEF Cover
<1>3. PICK y \in T : PM!IsPrefix(y, q)
  BY DEF Cover
<1>4. x \in MaskPaths /\ y \in MaskPaths /\ Before(x, y)
  OBVIOUS
<1>5. ~PM!IsPrefix(x, y) /\ ~PM!IsPrefix(y, x)
  BY <1>4, MaskPathsAreOrdered
<1> QED  BY <1>1, <1>2, <1>3, <1>4, <1>5, MaskPathsAreOrdered

IntersectionEndsWith(l, r, i, j, s) ==
  /\ \A f : PM!IntersectionFrom(l, r, f, i, j) = s
  /\ IsMask(s) /\ PathsOf(s) = {}
  /\ Cover(PathsOf(s)) = Cover(From(l, i)) \cap Cover(From(r, j))

IntersectionGoesOn(l, r, i, j, s, i2, j2) ==
  /\ \A f : f[<<i2, j2>>] \in Seq(MaskPaths) =>
       PM!IntersectionFrom(l, r, f, i, j) = s \o f[<<i2, j2>>]
  /\ TakenFirst(l, r, i, j, s, i2, j2)
  /\ Cover(From(l, i)) \cap Cover(From(r, j)) =
       Cover(PathsOf(s)) \cup (Cover(From(l, i2)) \cap Cover(From(r, j2)))

LEMMA IntersectionEnds ==
  ASSUME NEW l, IsMask(l), NEW r, IsMask(r),
         NEW i \in 1..Len(l) + 1, NEW j \in 1..Len(r) + 1, i > Len(l) \/ j > Len(r)
  PROVE  \E s : IntersectionEndsWith(l, r, i, j, s)
<1>1. Len(l) \in Nat /\ Len(r) \in Nat
  BY DEF IsMask
<1>2. ASSUME NEW f PROVE PM!IntersectionFrom(l, r, f, i, j) = <<>>
  BY DEF PM!IntersectionFrom
<1>3. From(l, i) = {} \/ From(r, j) = {}
  BY <1>1 DEF From, Part
<1>4. Cover({}) = {}
  BY DEF Cover
<1>5. Cover(From(l, i)) \cap Cover(From(r, j)) = {}
  BY <1>3, <1>4
<1> QED  BY <1>2, <1>4, <1>5, SmallMasks DEF IntersectionEndsWith

LEMMA IntersectionStep ==
  ASSUME NEW l, IsMask(l), NEW r, IsMask(r), NEW i \in 1..Len(l), NEW j \in 1..Len(r)
  PROVE  \E s, i2, j2 : IntersectionGoesOn(l, r, i, j, s, i2, j2)
<1> DEFINE p == l[i]
           q == r[j]
<1>1. /\ Len(l) \in Nat /\ Len(r) \in Nat /\ ~(i > Len(l)) /\ ~(j > Len(r))
      /\ i \in Int /\ j \in Int
  BY DEF IsMask
<1>2. /\ p \in MaskPaths /\ p \in From(l, i) /\ From(l, i) \subseteq MaskPaths
      /\ i + 1 \in 1..Len(l) + 1 /\ i \in 1..Len(l) + 1
      /\ From(l, i) = {p} \cup From(l, i + 1)
      /\ \A y \in From(l, i + 1) : Before(p, y)
      /\ \A x \in MaskPaths : Before(x, p) => \A y \in From(l, i) : Before(x, y)
  BY MaskHead
<1>3. /\ q \in MaskPaths /\ q \in From(r, j) /\ From(r, j) \subseteq MaskPaths
      /\ j + 1 \in 1..Len(r) + 1 /\ j \in 1..Len(r) + 1
      /\ From(r, j) = {q} \cup From(r, j + 1)
      /\ \A y \in From(r, j + 1) : Before(q, y)
      /\ \A x \in MaskPaths : Before(x, q) => \A y \in From(r, j) : Before(x, y)
  BY MaskHead
<1>4. /\ Cover(From(l, i)) = Cover({p}) \cup Cover(From(l, i + 1))
      /\ Cover(From(r, j)) = Cover({q}) \cup Cover(From(r, j + 1))
  BY <1>2, <1>3, CoverIs
<1>5. IsMask(<<>>) /\ PathsOf(<<>>) = {} /\ Cover({}) = {}
  BY SmallMasks DEF Cover
<1>6. \A s \in Seq(MaskPaths) : <<>> \o s = s
  BY ConcatEmptySeq
<1>7. CASE PM!IsPrefix(p, q)
  <2>1. PICK k : k = PM!Past(r, j, p)
    OBVIOUS
  <2>2. /\ k \in j + 1..Len(r) + 1 /\ k \in j..Len(r) + 1
        /\ \A x \in Part(r, j, k - 1) : PM!IsPrefix(p, x)
        /\ \A y \in From(r, k) : Before(p, y)
    BY <1>2, <1>7, <2>1, PastMask
  <2>3. /\ From(r, j) = Part(r, j, k - 1) \cup From(r, k)
        /\ \A x \in Part(r, j, k - 1), y \in From(r, k) : Before(x, y)
    BY <1>3, <2>2, MaskSplits
  <2>4. ~PM!IsStrictPrefix(q, p)
    BY <1>2, <1>3, <1>7, MaskPathsAreOrdered DEF PM!IsStrictPrefix
  <2>5. ASSUME NEW f
        PROVE  PM!IntersectionFrom(l, r, f, i, j) = SubSeq(r, j, k - 1) \o f[<<i + 1, k>>]
    BY <1>1, <1>7, <2>1, <2>4 DEF PM!IntersectionFrom
  <2>6. /\ i + 1 \in i..Len(l) + 1 /\ i + j < (i + 1) + k
        /\ j \in Nat /\ j >= 1 /\ k - 1 \in Nat /\ k - 1 <= Len(r)
    BY <1>1, <2>2
  <2>7. /\ IsMask(SubSeq(r, j, k - 1))
        /\ PathsOf(SubSeq(r, j, k - 1)) = Part(r, j, k - 1)
    BY <2>6, MaskParts
  <2>8. ASSUME NEW x \in Part(r, j, k - 1), NEW y \in From(l, i + 1) PROVE Before(x, y)
    <3>1. x \in MaskPaths /\ y \in MaskPaths
      BY <1>2, <1>3, <2>3
    <3>2. Before(p, y) /\ PM!IsPrefix(p, x)
      BY <1>2, <2>2
    <3> QED  BY <1>2, <3>1, <3>2, MaskPathsAreOrdered
  <2>9. TakenFirst(l, r, i, j, SubSeq(r, j, k - 1), i + 1, k)
    BY <1>2, <2>2, <2>3, <2>6, <2>7, <2>8 DEF TakenFirst
  <2>10. Cover(Part(r, j, k - 1)) \subseteq Cover({p})
    <3>1. Part(r, j, k - 1) \subseteq MaskPaths /\ {p} \subseteq MaskPaths
      BY <1>2, <1>3, <2>3
    <3> QED  BY <2>2, <3>1, CoverIs, ZenonT(40)
  <2>11. Cover(From(r, j)) = Cover(Part(r, j, k - 1)) \cup Cover(From(r, k))
    BY <2>3, CoverIs
  <2>12. Cover({p}) \cap Cover(From(r, k)) = {}
    <3>1. From(r, k) \subseteq MaskPaths /\ {p} \subseteq MaskPaths
      BY <1>2, <1>3, <2>3
    <3> QED  BY <2>2, <3>1, CoversApart
  <2>13. Cover({p}) \cap Cover(From(l, i + 1)) = {}
    <3>1. From(l, i + 1) \subseteq MaskPaths /\ {p} \subseteq MaskPaths
      BY <1>2
    <3> QED  BY <1>2, <3>1, CoversApart
  <2>14. Cover(From(l, i)) \cap Cover(From(r, j)) =
           Cover(Part(r, j, k - 1)) \cup (Cover(From(l, i + 1)) \cap Cover(From(r, k)))
    BY <1>4, <2>10, <2>11, <2>12, <2>13
  <2>15. IntersectionGoesOn(l, r, i, j, SubSeq(r, j, k - 1), i + 1, k)
    BY <2>5, <2>7, <2>9, <2>14 DEF IntersectionGoesOn
  <2> QED  BY <2>15
<1>8. CASE PM!IsPrefix(q, p) /\ ~PM!IsPrefix(p, q)
  <2>1. PICK k : k = PM!Past(l, i, q)
    OBVIOUS
  <2>2. /\ k \in i + 1..Len(l) + 1 /\ k \in i..Len(l) + 1
        /\ \A x \in Part(l, i, k - 1) : PM!IsPrefix(q, x)
        /\ \A y \in From(l, k) : Before(q, y)
    BY <1>3, <1>8, <2>1, PastMask
  <2>3. /\ From(l, i) = Part(l, i, k - 1) \cup From(l, k)
        /\ \A x \in Part(l, i, k - 1), y \in From(l, k) : Before(x, y)
    BY <1>2, <2>2, MaskSplits
  <2>4. PM!IsStrictPrefix(q, p)
    BY <1>8 DEF PM!IsStrictPrefix
  <2>5. ASSUME NEW f
        PROVE  PM!IntersectionFrom(l, r, f, i, j) = SubSeq(l, i, k - 1) \o f[<<k, j + 1>>]
    BY <1>1, <1>8, <2>1, <2>4 DEF PM!IntersectionFrom
  <2>6. /\ j + 1 \in j..Len(r) + 1 /\ i + j < k + (j + 1)
        /\ i \in Nat /\ i >= 1 /\ k - 1 \in Nat /\ k - 1 <= Len(l)
    BY <1>1, <2>2
  <2>7. /\ IsMask(SubSeq(l, i, k - 1))
        /\ PathsOf(SubSeq(l, i, k - 1)) = Part(l, i, k - 1)
    BY <2>6, MaskParts
  <2>8. ASSUME NEW x \in Part(l, i, k - 1), NEW y \in From(r, j + 1) PROVE Before(x, y)
    <3>1. x \in MaskPaths /\ y \in MaskPaths
      BY <1>2, <1>3, <2>3
    <3>2. Before(q, y) /\ PM!IsPrefix(q, x)
      BY <1>3, <2>2
    <3> QED  BY <1>3, <3>1, <3>2, MaskPathsAreOrdered
  <2>9. TakenFirst(l, r, i, j, SubSeq(l, i, k - 1), k, j + 1)
    BY <1>3, <2>2, <2>3, <2>6, <2>7, <2>8 DEF TakenFirst
  <2>10. Cover(Part(l, i, k - 1)) \subseteq Cover({q})
    <3>1. Part(l, i, k - 1) \subseteq MaskPaths /\ {q} \subseteq MaskPaths
      BY <1>2, <1>3, <2>3
    <3> QED  BY <2>2, <3>1, CoverIs, ZenonT(40)
  <2>11. Cover(From(l, i)) = Cover(Part(l, i, k - 1)) \cup Cover(From(l, k))
    BY <2>3, CoverIs
  <2>12. Cover({q}) \cap Cover(From(l, k)) = {}
    <3>1. From(l, k) \subseteq MaskPaths /\ {q} \subseteq MaskPaths
      BY <1>2, <1>3, <2>3
    <3> QED  BY <2>2, <3>1, CoversApart
  <2>13. Cover({q}) \cap Cover(From(r, j + 1)) = {}
    <3>1. From(r, j + 1) \subseteq MaskPaths /\ {q} \subseteq MaskPaths
      BY <1>3
    <3> QED  BY <1>3, <3>1, CoversApart
  <2>14. Cover(From(l, i)) \cap Cover(From(r, j)) =
           Cover(Part(l, i, k - 1)) \cup (Cover(From(l, k)) \cap Cover(From(r, j + 1)))
    BY <1>4, <2>10, <2>11, <2>12, <2>13
  <2>15. IntersectionGoesOn(l, r, i, j, SubSeq(l, i, k - 1), k, j + 1)
    BY <2>5, <2>7, <2>9, <2>14 DEF IntersectionGoesOn
  <2> QED  BY <2>15
<1>9. CASE Before(p, q)
  <2>1. PM!LessThan(p, q) /\ ~PM!IsPrefix(p, q) /\ ~PM!IsPrefix(q, p) /\ ~PM!IsStrictPrefix(q, p)
    BY <1>2, <1>3, <1>9, MaskPathsAreOrdered DEF PM!IsStrictPrefix
  <2>2. ASSUME NEW f PROVE PM!IntersectionFrom(l, r, f, i, j) = f[<<i + 1, j>>]
    BY <1>1, <2>1 DEF PM!IntersectionFrom
  <2>3. /\ i + 1 \in i..Len(l) + 1 /\ i + j < (i + 1) + j
        /\ j \in j..Len(r) + 1
    BY <1>1
  <2>4. TakenFirst(l, r, i, j, <<>>, i + 1, j)
    BY <1>2, <1>3, <1>5, <2>3 DEF TakenFirst
  <2>5. Cover({p}) \cap Cover(From(r, j)) = {}
    <3>1. \A y \in From(r, j) : Before(p, y)
      BY <1>2, <1>3, <1>9
    <3> QED  BY <1>2, <1>3, <3>1, CoversApart
  <2>6. IntersectionGoesOn(l, r, i, j, <<>>, i + 1, j)
    BY <1>4, <1>5, <1>6, <2>2, <2>4, <2>5 DEF IntersectionGoesOn
  <2> QED  BY <2>6
<1>10. CASE Before(q, p)
  <2>1. /\ ~PM!LessThan(p, q) /\ ~PM!IsPrefix(p, q) /\ ~PM!IsPrefix(q, p)
        /\ ~PM!IsStrictPrefix(q, p)
    BY <1>2, <1>3, <1>10, MaskPathsAreOrdered DEF PM!IsStrictPrefix
  <2>2. ASSUME NEW f PROVE PM!IntersectionFrom(l, r, f, i, j) = f[<<i, j + 1>>]
    BY <1>1, <2>1 DEF PM!IntersectionFrom
  <2>3. /\ j + 1 \in j..Len(r) + 1 /\ i + j < i + (j + 1)
        /\ i \in i..Len(l) + 1
    BY <1>1
  <2>4. TakenFirst(l, r, i, j, <<>>, i, j + 1)
    BY <1>2, <1>3, <1>5, <2>3 DEF TakenFirst
  <2>5. Cover({q}) \cap Cover(From(l, i)) = {}
    <3>1. \A y \in From(l, i) : Before(q, y)
      BY <1>2, <1>3, <1>10
    <3> QED  BY <1>2, <1>3, <3>1, CoversApart
  <2>6. IntersectionGoesOn(l, r, i, j, <<>>, i, j + 1)
    BY <1>4, <1>5, <1>6, <2>2, <2>4, <2>5 DEF IntersectionGoesOn
  <2> QED  BY <2>6
<1> QED  BY <1>2, <1>3, <1>7, <1>8, <1>9, <1>10, MaskPathsAreOrdered

LEMMA IntersectionIs ==
  ASSUME NEW l, IsMask(l), NEW r, IsMask(r)
  PROVE  /\ IsMask(PM!Intersection(l, r))
         /\ PathsOf(PM!Intersection(l, r)) \subseteq PathsOf(l) \cup PathsOf(r)
         /\ Cover(PathsOf(PM!Intersection(l, r))) = Cover(PathsOf(l)) \cap Cover(PathsOf(r))
<1> DEFINE D == PM!Places(l, r)
           V == Seq(MaskPaths)
           M == [x \in D |-> (Len(l) + 1 - x[1]) + (Len(r) + 1 - x[2])]
           E == [f \in [D -> V] |-> [x \in D |-> PM!IntersectionFrom(l, r, f, x[1], x[2])]]
           bound == Len(l) + Len(r) + 1
<1>1. Len(l) \in Nat /\ Len(r) \in Nat
  BY DEF IsMask
<1>2. /\ \A x \in D : x[1] \in 1..Len(l) + 1 /\ x[2] \in 1..Len(r) + 1 /\ x = <<x[1], x[2]>>
      /\ \A i \in 1..Len(l) + 1, j \in 1..Len(r) + 1 :
           <<i, j>> \in D /\ <<i, j>>[1] = i /\ <<i, j>>[2] = j
  BY DEF PM!Places
<1>3. M \in [D -> Nat] /\ bound \in Nat /\ \A x \in D : M[x] < bound
  BY <1>1, <1>2
<1>4. ASSUME NEW x \in D
      PROVE  \/ \E s \in V : \A f : PM!IntersectionFrom(l, r, f, x[1], x[2]) = s
             \/ \E s \in V, y \in D :
                  /\ M[y] < M[x]
                  /\ \A f : f[y] \in V =>
                       PM!IntersectionFrom(l, r, f, x[1], x[2]) = s \o f[y]
  <2>1. x[1] \in 1..Len(l) + 1 /\ x[2] \in 1..Len(r) + 1
    BY <1>2
  <2>2. CASE x[1] > Len(l) \/ x[2] > Len(r)
    <3>1. PICK s : IntersectionEndsWith(l, r, x[1], x[2], s)
      BY <2>1, <2>2, IntersectionEnds
    <3> QED  BY <3>1 DEF IntersectionEndsWith, IsMask
  <2>3. CASE ~(x[1] > Len(l) \/ x[2] > Len(r))
    <3>1. x[1] \in 1..Len(l) /\ x[2] \in 1..Len(r)
      BY <1>1, <2>1, <2>3
    <3>0. PICK s, i2, j2 : IntersectionGoesOn(l, r, x[1], x[2], s, i2, j2)
      BY <3>1, IntersectionStep
    <3>2. /\ \A f : f[<<i2, j2>>] \in V =>
                 PM!IntersectionFrom(l, r, f, x[1], x[2]) = s \o f[<<i2, j2>>]
          /\ TakenFirst(l, r, x[1], x[2], s, i2, j2)
      BY <3>0 DEF IntersectionGoesOn
    <3>3. /\ i2 \in 1..Len(l) + 1 /\ j2 \in 1..Len(r) + 1 /\ x[1] + x[2] < i2 + j2
          /\ s \in V
      BY <1>1, <2>1, <3>2 DEF TakenFirst, IsMask
    <3>4. <<i2, j2>> \in D /\ <<i2, j2>>[1] = i2 /\ <<i2, j2>>[2] = j2
      BY <1>2, <3>3
    <3>5. /\ M[<<i2, j2>>] = (Len(l) + 1 - i2) + (Len(r) + 1 - j2)
          /\ M[x] = (Len(l) + 1 - x[1]) + (Len(r) + 1 - x[2])
      BY <3>4
    <3>6. i2 \in Int /\ j2 \in Int /\ x[1] \in Int /\ x[2] \in Int
      BY <2>1, <3>3
    <3>7. M[<<i2, j2>>] < M[x]
      BY <1>1, <3>3, <3>5, <3>6, SMTT(30)
    <3> QED  BY <3>2, <3>3, <3>4, <3>7
  <2> QED  BY <2>2, <2>3
<1>5. \E f \in [D -> V] : f = [x \in D |-> PM!IntersectionFrom(l, r, f, x[1], x[2])]
  <2>1. ASSUME NEW f \in [D -> V], NEW x \in D PROVE PM!IntersectionFrom(l, r, f, x[1], x[2]) \in V
    <3>1. CASE \E s \in V : \A g : PM!IntersectionFrom(l, r, g, x[1], x[2]) = s
      BY <3>1
    <3>2. CASE \E s \in V, y \in D :
                 /\ M[y] < M[x]
                 /\ \A g : g[y] \in V =>
                      PM!IntersectionFrom(l, r, g, x[1], x[2]) = s \o g[y]
      <4>1. PICK s \in V, y \in D :
              \A g : g[y] \in V => PM!IntersectionFrom(l, r, g, x[1], x[2]) = s \o g[y]
        BY <3>2
      <4>2. s \o f[y] \in V
        BY ConcatProperties
      <4> QED  BY <4>1, <4>2
    <3> QED  BY <1>4, <3>1, <3>2
  <2>2. E \in [[D -> V] -> [D -> V]]
    BY <2>1
  <2>3. ASSUME NEW f \in [D -> V], NEW g \in [D -> V], NEW x \in D,
               \A y \in D : M[y] < M[x] => f[y] = g[y]
        PROVE  E[f][x] = E[g][x]
    <3>1. PM!IntersectionFrom(l, r, f, x[1], x[2]) = PM!IntersectionFrom(l, r, g, x[1], x[2])
      BY <1>4, <2>3, ZenonT(40)
    <3> QED  BY <3>1
  <2>4. <<>> \in V
    OBVIOUS
  <2>5. \E f \in [D -> V] : f = E[f]
    <3> HIDE DEF D, M, V, bound, E
    <3>1. \A f, g \in [D -> V] : \A x \in D :
            (\A y \in D : M[y] < M[x] => f[y] = g[y]) => E[f][x] = E[g][x]
      BY <2>3
    <3>2. Recurses(D, V, M, bound, E)
      BY <1>3, <2>2, <3>1 DEF Recurses
    <3> QED  BY <2>4, <3>2, RecursionExists
  <2> QED  BY <2>5
<1>6. PICK h : /\ h = [x \in D |-> PM!IntersectionFrom(l, r, h, x[1], x[2])]
               /\ PM!Intersection(l, r) = h[<<1, 1>>]
  BY <1>5 DEF PM!Intersection
<1> DEFINE Done(i, j) ==
             /\ IsMask(h[<<i, j>>])
             /\ PathsOf(h[<<i, j>>]) \subseteq From(l, i) \cup From(r, j)
             /\ Cover(PathsOf(h[<<i, j>>])) = Cover(From(l, i)) \cap Cover(From(r, j))
           Low(n) == \A i \in 1..Len(l) + 1, j \in 1..Len(r) + 1 :
                       (Len(l) + 1 - i) + (Len(r) + 1 - j) < n => Done(i, j)
           G == {n \in Nat : Low(n)}
<1>7. \A i \in 1..Len(l) + 1, j \in 1..Len(r) + 1 :
        h[<<i, j>>] = PM!IntersectionFrom(l, r, h, i, j)
  BY <1>2, <1>6, ZenonT(40)
<1> HIDE DEF D, V, M, E
<1>8. 0 \in G
  <2> HIDE DEF Done
  <2>1. \A i \in 1..Len(l) + 1, j \in 1..Len(r) + 1 :
          ~((Len(l) + 1 - i) + (Len(r) + 1 - j) < 0)
    BY <1>1
  <2> QED  BY <2>1
<1>9. ASSUME NEW n \in Nat, n \in G PROVE n + 1 \in G
  <2>0. ASSUME NEW i \in 1..Len(l) + 1, NEW j \in 1..Len(r) + 1,
               (Len(l) + 1 - i) + (Len(r) + 1 - j) < n + 1
        PROVE  Done(i, j)
    <3> HIDE DEF Low, G, Done, bound
    <3>1. CASE i > Len(l) \/ j > Len(r)
      <4>1. PICK s : IntersectionEndsWith(l, r, i, j, s)
        BY <3>1, IntersectionEnds
      <4>2. h[<<i, j>>] = s
        BY <1>7, <4>1 DEF IntersectionEndsWith
      <4> QED  BY <4>1, <4>2 DEF Done, IntersectionEndsWith
    <3>2. CASE ~(i > Len(l) \/ j > Len(r))
      <4>1. i \in 1..Len(l) /\ j \in 1..Len(r)
        BY <1>1, <3>2
      <4>0. PICK s, i2, j2 : IntersectionGoesOn(l, r, i, j, s, i2, j2)
        BY <4>1, IntersectionStep
      <4>2. /\ \A f : f[<<i2, j2>>] \in Seq(MaskPaths) =>
                   PM!IntersectionFrom(l, r, f, i, j) = s \o f[<<i2, j2>>]
            /\ TakenFirst(l, r, i, j, s, i2, j2)
            /\ Cover(From(l, i)) \cap Cover(From(r, j)) =
                 Cover(PathsOf(s)) \cup (Cover(From(l, i2)) \cap Cover(From(r, j2)))
        BY <4>0 DEF IntersectionGoesOn
      <4>3. /\ i2 \in 1..Len(l) + 1 /\ j2 \in 1..Len(r) + 1 /\ i + j < i2 + j2
            /\ i2 \in Int /\ j2 \in Int /\ i \in Int /\ j \in Int
        BY <1>1, <4>2 DEF TakenFirst
      <4>4. Done(i2, j2)
        <5>1. (Len(l) + 1 - i2) + (Len(r) + 1 - j2) < n
          BY <1>1, <2>0, <4>3
        <5> QED  BY <1>9, <4>3, <5>1 DEF Low, G
      <4>5. /\ IsMask(h[<<i2, j2>>])
            /\ PathsOf(h[<<i2, j2>>]) \subseteq From(l, i2) \cup From(r, j2)
            /\ Cover(PathsOf(h[<<i2, j2>>])) = Cover(From(l, i2)) \cap Cover(From(r, j2))
        BY <4>4 DEF Done
      <4>6. \A x \in PathsOf(s), y \in PathsOf(h[<<i2, j2>>]) : Before(x, y)
        BY <4>2, <4>5 DEF TakenFirst
      <4>7. h[<<i, j>>] = s \o h[<<i2, j2>>]
        BY <1>7, <4>2, <4>5 DEF IsMask
      <4>8. /\ IsMask(h[<<i, j>>])
            /\ PathsOf(h[<<i, j>>]) = PathsOf(s) \cup PathsOf(h[<<i2, j2>>])
        BY <4>2, <4>5, <4>6, <4>7, MasksJoin DEF TakenFirst
      <4>9. PathsOf(h[<<i, j>>]) \subseteq From(l, i) \cup From(r, j)
        BY <4>2, <4>5, <4>8 DEF TakenFirst
      <4>10. Cover(PathsOf(h[<<i, j>>])) = Cover(From(l, i)) \cap Cover(From(r, j))
        <5>1. Cover(PathsOf(s) \cup PathsOf(h[<<i2, j2>>])) =
                Cover(PathsOf(s)) \cup Cover(PathsOf(h[<<i2, j2>>]))
          BY CoverIs
        <5> QED  BY <4>2, <4>5, <4>8, <5>1
      <4> QED  BY <4>8, <4>9, <4>10 DEF Done
    <3> QED  BY <3>1, <3>2
  <2> HIDE DEF Done
  <2> QED  BY <2>0
<1>10. bound + 2 \in G
  <2> HIDE DEF G
  <2>1. bound + 2 \in Nat
    BY <1>1
  <2> QED  BY <1>8, <1>9, <2>1, Induction
<1>11. Done(1, 1)
  <2>1. 1 \in 1..Len(l) + 1 /\ 1 \in 1..Len(r) + 1
    BY <1>1
  <2>2. (Len(l) + 1 - 1) + (Len(r) + 1 - 1) < bound + 2
    BY <1>1
  <2> HIDE DEF bound, Done
  <2> QED  BY <1>10, <2>1, <2>2
<1> QED  BY <1>6, <1>11, CoverIs DEF PathsOf, From

(***************************************************************************)
(* Masks are known by what they cover.                                     *)
(***************************************************************************)
LEMMA MaskPlaces ==
  ASSUME NEW m, IsMask(m)
  PROVE  /\ m \in Seq(MaskPaths) /\ Len(m) \in Nat /\ DOMAIN m = 1..Len(m)
         /\ PathsOf(m) = PM!ToSet(m) /\ PathsOf(m) \subseteq MaskPaths
         /\ \A i \in 1..Len(m) : m[i] \in MaskPaths /\ m[i] \in PathsOf(m)
         /\ \A p \in PathsOf(m) : \E i \in 1..Len(m) : p = m[i]
         /\ \A i, j \in 1..Len(m) : i < j =>
              Before(m[i], m[j]) /\ ~PM!IsPrefix(m[i], m[j]) /\ ~PM!IsPrefix(m[j], m[i])
         /\ \A i, j \in 1..Len(m) : i # j => m[i] # m[j]
         /\ \A p, q \in PathsOf(m) : PM!IsPrefix(p, q) => p = q
<1>1. m \in Seq(MaskPaths) /\ Len(m) \in Nat /\ DOMAIN m = 1..Len(m)
  BY DEF IsMask
<1>2. /\ PathsOf(m) = PM!ToSet(m) /\ PathsOf(m) \subseteq MaskPaths
      /\ \A i \in 1..Len(m) : m[i] \in MaskPaths /\ m[i] \in PathsOf(m)
      /\ \A p \in PathsOf(m) : \E i \in 1..Len(m) : p = m[i]
  BY <1>1, SeqFacts DEF PathsOf, Part
<1>3. ASSUME NEW i \in 1..Len(m), NEW j \in 1..Len(m), i < j
      PROVE  Before(m[i], m[j]) /\ ~PM!IsPrefix(m[i], m[j]) /\ ~PM!IsPrefix(m[j], m[i])
  <2>1. Before(m[i], m[j])
    BY <1>1, <1>3 DEF IsMask
  <2> QED  BY <1>2, <2>1, MaskPathsAreOrdered
<1>4. ASSUME NEW i \in 1..Len(m), NEW j \in 1..Len(m), i # j
      PROVE  m[i] # m[j] /\ ~PM!IsPrefix(m[i], m[j])
  <2>1. i < j \/ j < i
    BY <1>1, <1>4
  <2>2. ~PM!IsPrefix(m[i], m[j])
    BY <1>3, <2>1
  <2> QED  BY <1>2, <2>2, MaskPathsAreOrdered
<1>5. ASSUME NEW p \in PathsOf(m), NEW q \in PathsOf(m), PM!IsPrefix(p, q) PROVE p = q
  <2>1. PICK i \in 1..Len(m) : p = m[i]
    BY <1>2
  <2>2. PICK j \in 1..Len(m) : q = m[j]
    BY <1>2
  <2> QED  BY <1>4, <1>5, <2>1, <2>2
<1> QED  BY <1>1, <1>2, <1>3, <1>4, <1>5

LEMMA MasksAgree ==
  ASSUME NEW s, IsMask(s), NEW t, IsMask(t), PathsOf(s) = PathsOf(t)
  PROVE  Len(s) <= Len(t) /\ \A i \in 1..Len(s) : s[i] = t[i]
<1> DEFINE Agree(n) == n <= Len(s) => n <= Len(t) /\ \A i \in 1..n : s[i] = t[i]
           G == {n \in Nat : Agree(n)}
<1>1. Len(s) \in Nat /\ Len(t) \in Nat
  BY MaskPlaces
<1>2. 0 \in G
  BY <1>1
<1>3. ASSUME NEW n \in Nat, n \in G PROVE n + 1 \in G
  <2>1. ASSUME n + 1 <= Len(s) PROVE n + 1 <= Len(t) /\ \A i \in 1..n + 1 : s[i] = t[i]
    <3>0. n <= Len(s)
      BY <1>1, <2>1
    <3>1. n <= Len(t) /\ \A i \in 1..n : s[i] = t[i]
      BY <1>3, <3>0
    <3>2. n + 1 \in 1..Len(s)
      BY <1>1, <2>1
    <3>3. PICK j \in 1..Len(t) : s[n + 1] = t[j]
      BY <3>2, MaskPlaces
    <3>4. j \notin 1..n
      <4>1. ASSUME j \in 1..n PROVE FALSE
        <5>1. j \in 1..Len(s) /\ j # n + 1
          BY <1>1, <3>0, <4>1
        <5>2. s[j] = s[n + 1]
          BY <3>1, <3>3, <4>1
        <5> QED  BY <3>2, <5>1, <5>2, MaskPlaces
      <4> QED  BY <4>1
    <3>5. j >= n + 1 /\ n + 1 \in 1..Len(t) /\ n + 1 <= Len(t)
      BY <1>1, <3>4
    <3>6. PICK k \in 1..Len(s) : t[n + 1] = s[k]
      BY <3>5, MaskPlaces
    <3>7. k \notin 1..n
      <4>1. ASSUME k \in 1..n PROVE FALSE
        <5>1. k \in 1..Len(t) /\ k # n + 1
          BY <1>1, <3>1, <4>1
        <5>2. t[k] = t[n + 1]
          BY <3>1, <3>6, <4>1
        <5> QED  BY <3>5, <5>1, <5>2, MaskPlaces
      <4> QED  BY <4>1
    <3>8. k = n + 1 \/ n + 1 < k
      BY <1>1, <3>7
    <3>9. j = n + 1 \/ n + 1 < j
      BY <1>1, <3>4
    <3>10. s[n + 1] = t[n + 1]
      <4>1. CASE k = n + 1 \/ j = n + 1
        BY <3>3, <3>6, <4>1
      <4>2. CASE n + 1 < k /\ n + 1 < j
        <5>1. Before(s[n + 1], s[k])
          BY <3>2, <4>2, MaskPlaces
        <5>2. Before(t[n + 1], t[j])
          BY <3>5, <4>2, MaskPlaces
        <5>3. s[n + 1] \in MaskPaths /\ s[k] \in MaskPaths
          BY <3>2, MaskPlaces
        <5> QED  BY <3>3, <3>6, <5>1, <5>2, <5>3, MaskPathsAreOrdered
      <4> QED  BY <3>8, <3>9, <4>1, <4>2
    <3>11. ASSUME NEW i \in 1..n + 1 PROVE s[i] = t[i]
      <4>1. i \in 1..n \/ i = n + 1
        BY <1>1
      <4> QED  BY <3>1, <3>10, <4>1
    <3> QED  BY <3>5, <3>11
  <2> QED  BY <2>1
<1> HIDE DEF G
<1>4. Len(s) \in G
  BY <1>1, <1>2, <1>3, Induction
<1> QED  BY <1>1, <1>4 DEF G

LEMMA MasksAreUnique ==
  ASSUME NEW s, IsMask(s), NEW t, IsMask(t)
  PROVE  /\ PathsOf(s) = PathsOf(t) => s = t
         /\ Cover(PathsOf(s)) = Cover(PathsOf(t)) => s = t
<1>1. ASSUME PathsOf(s) = PathsOf(t) PROVE s = t
  <2>1. /\ Len(s) \in Nat /\ Len(t) \in Nat
        /\ Len(s) <= Len(t) /\ Len(t) <= Len(s) /\ \A i \in 1..Len(s) : s[i] = t[i]
    BY <1>1, MasksAgree, MaskPlaces
  <2>2. Len(s) = Len(t)
    BY <2>1
  <2>3. s \in Seq(MaskPaths) /\ t \in Seq(MaskPaths)
    BY MaskPlaces
  <2> QED  BY <2>1, <2>2, <2>3, SeqEqual
<1>2. ASSUME NEW a, IsMask(a), NEW b, IsMask(b), Cover(PathsOf(a)) = Cover(PathsOf(b)),
             NEW p \in PathsOf(a)
      PROVE  p \in PathsOf(b)
  <2>1. p \in MaskPaths /\ PathsOf(a) \subseteq MaskPaths /\ PathsOf(b) \subseteq MaskPaths
    BY <1>2, MaskPlaces
  <2>2. p \in Cover(PathsOf(b))
    BY <1>2, <2>1, CoverIs
  <2>3. PICK q \in PathsOf(b) : PM!IsPrefix(q, p)
    BY <2>2 DEF Cover
  <2>4. q \in Cover(PathsOf(a))
    BY <1>2, <2>1, CoverIs
  <2>5. PICK o \in PathsOf(a) : PM!IsPrefix(o, q)
    BY <2>4 DEF Cover
  <2>6. PM!IsPrefix(o, p)
    BY <2>1, <2>3, <2>5, MaskPathsAreOrdered
  <2>7. o = p
    BY <1>2, <2>6, MaskPlaces
  <2> QED  BY <2>1, <2>3, <2>5, <2>7, MaskPathsAreOrdered
<1>3. ASSUME Cover(PathsOf(s)) = Cover(PathsOf(t)) PROVE s = t
  <2>1. PathsOf(s) = PathsOf(t)
    BY <1>2, <1>3
  <2> QED  BY <1>1, <2>1
<1> QED  BY <1>1, <1>3

(***************************************************************************)
(* Normalization.                                                          *)
(***************************************************************************)
Apart(T) == \A p, q \in T : PM!IsPrefix(p, q) => p = q

LEMMA SortedExists ==
  ASSUME NEW S \in SUBSET MaskPaths, Apart(S)
  PROVE  \E s : IsMask(s) /\ PathsOf(s) = S
<1> DEFINE Sorts(n) == \A T \in SUBSET MaskPaths :
             Apart(T) /\ Cardinality(T) = n => \E s : IsMask(s) /\ PathsOf(s) = T
           G == {n \in Nat : Sorts(n)}
<1>1. \A T \in SUBSET MaskPaths : IsFiniteSet(T) /\ Cardinality(T) \in Nat
  <2>1. IsFiniteSet(MaskPaths)
    BY DataAssumptions DEF PM!MaskAssumption, PM!IsFiniteSet, IsFiniteSet
  <2>2. ASSUME NEW T \in SUBSET MaskPaths PROVE IsFiniteSet(T)
    BY <2>1, FS_Subset
  <2> QED  BY <2>2, FS_CardinalityType
<1>2. 0 \in G
  <2>1. ASSUME NEW T \in SUBSET MaskPaths, Cardinality(T) = 0
        PROVE  \E s : IsMask(s) /\ PathsOf(s) = T
    <3>1. T = {}
      BY <1>1, <2>1, FS_EmptySet
    <3> QED  BY <3>1, SmallMasks
  <2> QED  BY <2>1
<1>3. ASSUME NEW n \in Nat, n \in G PROVE n + 1 \in G
  <2>1. ASSUME NEW T \in SUBSET MaskPaths, Apart(T), Cardinality(T) = n + 1
        PROVE  \E s : IsMask(s) /\ PathsOf(s) = T
    <3>1. PICK x : x \in T
      <4>1. T # {}
        BY <2>1, FS_EmptySet
      <4> QED  BY <4>1
    <3>2. /\ T \ {x} \in SUBSET MaskPaths /\ Apart(T \ {x})
          /\ Cardinality(T \ {x}) = n
      BY <1>1, <2>1, <3>1, FS_RemoveElement DEF Apart
    <3>3. PICK s : IsMask(s) /\ PathsOf(s) = T \ {x}
      BY <1>3, <3>2
    <3>4. x \in MaskPaths /\ IsMask(<<x>>) /\ PathsOf(<<x>>) = {x}
      BY <3>1, SmallMasks
    <3>5. PICK u : u = PM!Union(s, <<x>>)
      OBVIOUS
    <3>6. IsMask(u) /\ PathsOf(u) \subseteq T /\ Cover(PathsOf(u)) = Cover(T \ {x}) \cup Cover({x})
      BY <3>1, <3>3, <3>4, <3>5, UnionIs
    <3>7. Cover(PathsOf(u)) = Cover(T)
      <4>1. T = (T \ {x}) \cup {x}
        BY <3>1
      <4> QED  BY <3>6, <4>1, CoverIs
    <3>8. ASSUME NEW p \in T PROVE p \in PathsOf(u)
      <4>1. p \in Cover(PathsOf(u))
        BY <3>7, CoverIs
      <4>2. PICK q \in PathsOf(u) : PM!IsPrefix(q, p)
        BY <4>1 DEF Cover
      <4> QED  BY <2>1, <3>6, <4>2 DEF Apart
    <3> QED  BY <3>6, <3>8
  <2> QED  BY <2>1
<1> HIDE DEF G
<1>4. Cardinality(S) \in G
  BY <1>1, <1>2, <1>3, Induction
<1> QED  BY <1>1, <1>4 DEF G

(* Every path of a set has a topmost one above it.                         *)
LEMMA TopExists ==
  ASSUME NEW S \in SUBSET MaskPaths, NEW p \in S
  PROVE  \E q \in S : PM!IsPrefix(q, p) /\ ~\E o \in S : PM!IsStrictPrefix(o, q)
<1> DEFINE A == {q \in S : PM!IsPrefix(q, p)}
           Lens == {Len(q) : q \in A}
           Less == {ss \in Nat \X Nat : ss[1] < ss[2]}
<1>1. \A q \in MaskPaths : q \in Seq(Nat) /\ Len(q) \in Nat
  BY DataAssumptions DEF PM!MaskAssumption
<1>2. p \in A
  BY MaskPathsAreOrdered
<1>3. Lens \subseteq Nat /\ Lens # {}
  BY <1>1, <1>2
<1>4. IsWellFoundedOn(Less, Nat)
  BY NatLessThanWellFounded DEF OpToRel
<1>5. PICK n \in Lens : \A k \in Lens : ~(<<k, n>> \in Less)
  BY <1>3, <1>4, WFMin
<1>6. PICK q \in A : n = Len(q)
  OBVIOUS
<1>7. ASSUME NEW o \in S, PM!IsStrictPrefix(o, q) PROVE FALSE
  <2>1. PM!IsPrefix(o, q) /\ o # q
    BY <1>7 DEF PM!IsStrictPrefix
  <2>2. o \in A
    BY <1>6, <2>1, MaskPathsAreOrdered
  <2>3. Len(o) \in Lens /\ Len(o) \in Nat /\ Len(q) \in Nat
    BY <1>1, <2>2
  <2>4. ~(Len(o) < Len(q))
    BY <1>5, <1>6, <2>3
  <2>5. Len(o) <= Len(q) /\ \A i \in 1..Len(o) : o[i] = q[i]
    BY <1>1, <2>1, PrefixIs
  <2>6. Len(o) = Len(q)
    BY <2>3, <2>4, <2>5
  <2>7. o = q
    BY <1>1, <2>5, <2>6, SeqEqual
  <2> QED  BY <2>1, <2>7
<1> QED  BY <1>7

Tops(S) == {p \in S : ~\E q \in S : PM!IsStrictPrefix(q, p)}

LEMMA NormalizedIs ==
  ASSUME NEW S \in SUBSET MaskPaths
  PROVE  /\ IsMask(PM!Normalized(S)) /\ PathsOf(PM!Normalized(S)) = Tops(S)
         /\ Cover(PathsOf(PM!Normalized(S))) = Cover(S)
<1> DEFINE T == Tops(S)
           IsSorted(s) == /\ PM!ToSet(s) = T
                          /\ \A i, j \in DOMAIN s : i < j => PM!LessThan(s[i], s[j])
<1>1. T \in SUBSET MaskPaths /\ Apart(T)
  BY DEF Tops, Apart, PM!IsStrictPrefix
<1> HIDE DEF T
<1>2. PICK s : IsMask(s) /\ PathsOf(s) = T
  BY <1>1, SortedExists
<1>3. /\ s \in Seq(MaskPaths) /\ Len(s) \in Nat /\ DOMAIN s = 1..Len(s)
      /\ \A i \in 1..Len(s) : s[i] \in T /\ s[i] \in MaskPaths
      /\ \A p \in T : \E i \in 1..Len(s) : p = s[i]
      /\ \A i, j \in 1..Len(s) : i # j => s[i] # s[j]
      /\ \A i, j \in 1..Len(s) : i < j => Before(s[i], s[j])
      /\ PM!ToSet(s) = T
  BY <1>2, MaskPlaces
<1>4. Cardinality(T) = Len(s)
  <2>1. s \in [1..Len(s) -> T]
    BY <1>3
  <2>2. s \in Bijection(1..Len(s), T)
    BY <1>3, <2>1 DEF Bijection, Injection, Surjection, IsInjective
  <2>3. IsFiniteSet(1..Len(s)) /\ Cardinality(1..Len(s)) = Len(s)
    BY <1>3, FS_Interval
  <2> QED  BY <2>2, <2>3, FS_Bijection DEF ExistsBijection
<1>5. s \in [1..Cardinality(T) -> T] /\ IsSorted(s)
  <2>1. \A i, j \in 1..Len(s) : i < j => PM!LessThan(s[i], s[j])
    BY <1>3, MaskPathsAreOrdered
  <2> QED  BY <1>3, <1>4, <2>1
<1>7. PICK m : m = PM!Normalized(S)
  OBVIOUS
<1>8. m \in [1..Cardinality(T) -> T] /\ IsSorted(m)
  <2>1. m = CHOOSE c \in [1..Cardinality(T) -> T] : IsSorted(c)
    <3>1. PM!Cardinality(T) = Cardinality(T)
      BY Zenon DEF PM!Cardinality, Cardinality
    <3>2. m = CHOOSE c \in [1..PM!Cardinality(T) -> T] : IsSorted(c)
      BY <1>7 DEF PM!Normalized, T, Tops
    <3> QED  BY <3>1, <3>2
  <2> HIDE DEF IsSorted
  <2> QED  BY <1>5, <2>1
<1>9. m \in Seq(MaskPaths) /\ Len(m) \in Nat /\ DOMAIN m = 1..Len(m)
  BY <1>1, <1>3, <1>4, <1>8
<1>10. ASSUME NEW i \in DOMAIN m, NEW j \in DOMAIN m, i < j PROVE Before(m[i], m[j])
  <2>1. PM!LessThan(m[i], m[j]) /\ m[i] \in T /\ m[j] \in T
    BY <1>8, <1>10
  <2>2. m[i] \in MaskPaths /\ m[j] \in MaskPaths
    BY <1>1, <2>1
  <2> QED  BY <1>1, <2>1, <2>2, MaskPathsAreOrdered DEF Apart
<1>11. IsMask(m) /\ PathsOf(m) = T
  <2>1. IsMask(m)
    BY <1>9, <1>10 DEF IsMask
  <2> QED  BY <1>8, <2>1, MaskPlaces
<1>12. Cover(T) = Cover(S)
  <2>1. T \subseteq S
    BY DEF T, Tops
  <2>2. \A p \in S : \E q \in T : PM!IsPrefix(q, p)
    BY TopExists DEF T, Tops
  <2>3. Cover(S) \subseteq Cover(T)
    BY <1>1, <2>2, CoverIs
  <2>4. Cover(T) \subseteq Cover(S)
    BY <2>1 DEF Cover
  <2> QED  BY <2>3, <2>4
<1> QED  BY <1>7, <1>11, <1>12 DEF T

(***************************************************************************)
(* The queries.                                                            *)
(***************************************************************************)
LEMMA LowerBoundIs ==
  ASSUME NEW m, IsMask(m), NEW p \in MaskPaths
  PROVE  LET k == PM!LowerBound(m, p)
         IN  /\ k \in 1..Len(m) + 1
             /\ \A i \in 1..Len(m) : i < k =>
                  Before(m[i], p) \/ (PM!IsPrefix(m[i], p) /\ m[i] # p)
             /\ \A i \in 1..Len(m) : i >= k => Before(p, m[i]) \/ PM!IsPrefix(p, m[i])
<1> DEFINE Stops == {k \in 1..Len(m) + 1 : k <= Len(m) => ~PM!LessThan(m[k], p)}
           Less == {ss \in Nat \X Nat : ss[1] < ss[2]}
<1>1. /\ Len(m) \in Nat /\ \A i \in 1..Len(m) : m[i] \in MaskPaths
      /\ \A i, j \in 1..Len(m) : i < j => Before(m[i], m[j])
  BY MaskPlaces
<1>2. IsWellFoundedOn(Less, Nat)
  BY NatLessThanWellFounded DEF OpToRel
<1>3. Stops \subseteq Nat /\ Len(m) + 1 \in Stops
  BY <1>1
<1>4. PICK n \in Stops : \A k \in Stops : ~(<<k, n>> \in Less)
  BY <1>2, <1>3, WFMin
<1>5. n \in 1..Len(m) + 1 /\ (n <= Len(m) => ~PM!LessThan(m[n], p))
  OBVIOUS
<1>6. ASSUME NEW i \in 1..n - 1 PROVE PM!LessThan(m[i], p)
  <2>1. i \in Nat /\ n \in Nat /\ i < n /\ i <= Len(m) /\ i \in 1..Len(m) + 1
    BY <1>1, <1>5
  <2>2. i \notin Stops
    BY <1>4, <2>1
  <2> QED  BY <2>1, <2>2
<1>7. PICK k : k = PM!LowerBound(m, p)
  OBVIOUS
<1>8. /\ k \in 1..Len(m) + 1
      /\ \A i \in 1..k - 1 : PM!LessThan(m[i], p)
      /\ k <= Len(m) => ~PM!LessThan(m[k], p)
  BY <1>5, <1>6, <1>7 DEF PM!LowerBound
<1>9. ASSUME NEW i \in 1..Len(m), i < k
      PROVE  Before(m[i], p) \/ (PM!IsPrefix(m[i], p) /\ m[i] # p)
  <2>1. i \in 1..k - 1
    BY <1>8, <1>9
  <2> QED  BY <1>1, <1>8, <2>1, MaskPathsAreOrdered
<1>10. ASSUME NEW i \in 1..Len(m), i >= k PROVE Before(p, m[i]) \/ PM!IsPrefix(p, m[i])
  <2>1. k \in 1..Len(m) /\ k <= Len(m)
    BY <1>1, <1>8, <1>10
  <2>2. m[k] \in MaskPaths /\ m[i] \in MaskPaths /\ ~PM!LessThan(m[k], p)
    BY <1>1, <1>8, <2>1
  <2>3. Before(p, m[k]) \/ PM!IsPrefix(p, m[k])
    BY <2>2, MaskPathsAreOrdered
  <2>4. k = i \/ Before(m[k], m[i])
    <3>1. k = i \/ k < i
      BY <1>8, <1>10
    <3> QED  BY <1>1, <2>1, <3>1
  <2>5. CASE k = i
    BY <2>3, <2>5
  <2>6. CASE Before(m[k], m[i]) /\ Before(p, m[k])
    BY <2>2, <2>6, MaskPathsAreOrdered
  <2>7. CASE Before(m[k], m[i]) /\ PM!IsPrefix(p, m[k])
    BY <2>2, <2>7, MaskPathsAreOrdered
  <2> QED  BY <2>3, <2>4, <2>5, <2>6, <2>7
<1> QED  BY <1>7, <1>8, <1>9, <1>10

LEMMA IncludesSubtreeIs ==
  ASSUME NEW m, IsMask(m), NEW p \in MaskPaths
  PROVE  PM!IncludesSubtree(m, p) <=> p \in Cover(PathsOf(m))
<1>1. /\ Len(m) \in Nat /\ \A i \in 1..Len(m) : m[i] \in MaskPaths /\ m[i] \in PathsOf(m)
      /\ \A i, j \in 1..Len(m) : i < j => Before(m[i], m[j])
      /\ \A q \in PathsOf(m) : \E i \in 1..Len(m) : q = m[i]
  BY MaskPlaces
<1>2. PICK k : k = PM!LowerBound(m, p)
  OBVIOUS
<1>3. /\ k \in 1..Len(m) + 1
      /\ \A i \in 1..Len(m) : i < k =>
           Before(m[i], p) \/ (PM!IsPrefix(m[i], p) /\ m[i] # p)
      /\ \A i \in 1..Len(m) : i >= k => Before(p, m[i]) \/ PM!IsPrefix(p, m[i])
  BY <1>2, LowerBoundIs
<1>4. ASSUME PM!IncludesSubtree(m, p) PROVE p \in Cover(PathsOf(m))
  <2>1. \/ k <= Len(m) /\ m[k] = p
        \/ k > 1 /\ PM!IsPrefix(m[k - 1], p)
    BY <1>2, <1>4 DEF PM!IncludesSubtree
  <2>2. CASE k <= Len(m) /\ m[k] = p
    <3>1. k \in 1..Len(m)
      BY <1>1, <1>3, <2>2
    <3> QED  BY <1>1, <2>2, <3>1, MaskPathsAreOrdered DEF Cover
  <2>3. CASE k > 1 /\ PM!IsPrefix(m[k - 1], p)
    <3>1. k - 1 \in 1..Len(m)
      BY <1>1, <1>3, <2>3
    <3> QED  BY <1>1, <2>3, <3>1 DEF Cover
  <2> QED  BY <2>1, <2>2, <2>3
<1>5. ASSUME p \in Cover(PathsOf(m)) PROVE PM!IncludesSubtree(m, p)
  <2>1. PICK q \in PathsOf(m) : PM!IsPrefix(q, p)
    BY <1>5 DEF Cover
  <2>2. PICK i \in 1..Len(m) : q = m[i]
    BY <1>1
  <2>3. m[i] \in MaskPaths /\ PM!IsPrefix(m[i], p) /\ ~Before(m[i], p) /\ ~Before(p, m[i])
    BY <1>1, <2>1, <2>2, MaskPathsAreOrdered
  <2>4. CASE i >= k
    <3>1. m[i] = p
      BY <1>3, <2>3, <2>4, MaskPathsAreOrdered
    <3>2. k \in 1..Len(m) /\ k <= Len(m)
      BY <1>1, <1>3, <2>4
    <3>3. i = k
      <4>1. ASSUME k < i PROVE FALSE
        <5>1. Before(m[k], m[i])
          BY <1>1, <3>2, <4>1
        <5>2. Before(p, m[k]) \/ PM!IsPrefix(p, m[k])
          BY <1>3, <3>2
        <5> QED  BY <1>1, <3>1, <3>2, <5>1, <5>2, MaskPathsAreOrdered
      <4> QED  BY <1>3, <2>4, <4>1
    <3> QED  BY <1>2, <3>1, <3>2, <3>3 DEF PM!IncludesSubtree
  <2>5. CASE i < k
    <3>1. k - 1 \in 1..Len(m) /\ k > 1 /\ k - 1 < k
      BY <1>1, <1>3, <2>5
    <3>2. i = k - 1
      <4>1. ASSUME i < k - 1 PROVE FALSE
        <5>1. Before(m[i], m[k - 1])
          BY <1>1, <3>1, <4>1
        <5>2. Before(m[k - 1], p) \/ PM!IsPrefix(m[k - 1], p)
          BY <1>3, <3>1
        <5>3. m[k - 1] \in MaskPaths
          BY <1>1, <3>1
        <5>4. Before(m[i], p)
          BY <2>3, <5>1, <5>2, <5>3, MaskPathsAreOrdered
        <5> QED  BY <2>3, <5>4
      <4> QED  BY <1>3, <2>5, <4>1
    <3> QED  BY <1>2, <2>3, <3>1, <3>2 DEF PM!IncludesSubtree
  <2> QED  BY <1>3, <2>4, <2>5
<1> QED  BY <1>4, <1>5

LEMMA IncludesIs ==
  ASSUME NEW m, IsMask(m), NEW p \in MaskPaths
  PROVE  PM!Includes(m, p) <=> PM!Below(p) \cap Cover(PathsOf(m)) # {}
<1>1. /\ Len(m) \in Nat /\ \A i \in 1..Len(m) : m[i] \in MaskPaths /\ m[i] \in PathsOf(m)
      /\ \A i, j \in 1..Len(m) : i < j => Before(m[i], m[j])
      /\ \A q \in PathsOf(m) : \E i \in 1..Len(m) : q = m[i]
  BY MaskPlaces
<1>2. PICK k : k = PM!LowerBound(m, p)
  OBVIOUS
<1>3. /\ k \in 1..Len(m) + 1
      /\ \A i \in 1..Len(m) : i < k =>
           Before(m[i], p) \/ (PM!IsPrefix(m[i], p) /\ m[i] # p)
      /\ \A i \in 1..Len(m) : i >= k => Before(p, m[i]) \/ PM!IsPrefix(p, m[i])
  BY <1>2, LowerBoundIs
<1>4. ASSUME PM!Includes(m, p) PROVE \E q \in PM!Below(p) : q \in Cover(PathsOf(m))
  <2>1. \/ k > 1 /\ PM!IsPrefix(m[k - 1], p)
        \/ k <= Len(m) /\ PM!IsPrefix(p, m[k])
    BY <1>2, <1>4 DEF PM!Includes
  <2>2. CASE k > 1 /\ PM!IsPrefix(m[k - 1], p)
    <3>1. k - 1 \in 1..Len(m)
      BY <1>1, <1>3, <2>2
    <3>2. p \in PM!Below(p)
      BY MaskPathsAreOrdered DEF PM!Below
    <3> QED  BY <1>1, <2>2, <3>1, <3>2 DEF Cover
  <2>3. CASE k <= Len(m) /\ PM!IsPrefix(p, m[k])
    <3>1. k \in 1..Len(m)
      BY <1>1, <1>3, <2>3
    <3>2. m[k] \in PM!Below(p) /\ m[k] \in Cover(PathsOf(m))
      BY <1>1, <2>3, <3>1, MaskPathsAreOrdered DEF PM!Below, Cover
    <3> QED  BY <3>2
  <2> QED  BY <2>1, <2>2, <2>3
<1>5. ASSUME NEW q \in PM!Below(p), q \in Cover(PathsOf(m)) PROVE PM!Includes(m, p)
  <2>1. q \in MaskPaths /\ PM!IsPrefix(p, q)
    BY DEF PM!Below
  <2>2. PICK o \in PathsOf(m) : PM!IsPrefix(o, q)
    BY <1>5 DEF Cover
  <2>3. PICK i \in 1..Len(m) : o = m[i]
    BY <1>1
  <2>4. m[i] \in MaskPaths /\ (PM!IsPrefix(m[i], p) \/ PM!IsPrefix(p, m[i]))
    BY <1>1, <2>1, <2>2, <2>3, MaskPathsAreOrdered
  <2>5. CASE PM!IsPrefix(m[i], p)
    <3>1. p \in Cover(PathsOf(m))
      BY <1>1, <2>5 DEF Cover
    <3>2. \/ k <= Len(m) /\ m[k] = p
          \/ k > 1 /\ PM!IsPrefix(m[k - 1], p)
      BY <1>2, <3>1, IncludesSubtreeIs DEF PM!IncludesSubtree
    <3> QED  BY <1>2, <3>2, MaskPathsAreOrdered DEF PM!Includes
  <2>6. CASE PM!IsPrefix(p, m[i]) /\ ~PM!IsPrefix(m[i], p)
    <3>1. i >= k
      <4>1. ASSUME i < k PROVE FALSE
        BY <1>3, <2>4, <2>6, <4>1, MaskPathsAreOrdered
      <4> QED  BY <1>3, <4>1
    <3>2. k \in 1..Len(m) /\ k <= Len(m)
      BY <1>1, <1>3, <3>1
    <3>3. PM!IsPrefix(p, m[k])
      <4>1. CASE i = k
        BY <2>6, <4>1
      <4>2. CASE k < i
        <5>1. Before(m[k], m[i]) /\ m[k] \in MaskPaths
          BY <1>1, <3>2, <4>2
        <5>2. Before(p, m[k]) \/ PM!IsPrefix(p, m[k])
          BY <1>3, <3>2
        <5>3. ~Before(p, m[i])
          BY <2>4, <2>6, MaskPathsAreOrdered
        <5> QED  BY <2>4, <5>1, <5>2, <5>3, MaskPathsAreOrdered
      <4> QED  BY <1>3, <3>1, <4>1, <4>2
    <3> QED  BY <1>2, <3>2, <3>3 DEF PM!Includes
  <2> QED  BY <2>4, <2>5, <2>6
<1> QED  BY <1>4, <1>5

LEMMA PathsCut ==
  ASSUME NEW a \in Seq(Nat), NEW n \in Nat, n <= Len(a)
  PROVE  /\ SubSeq(a, 1, n) \in Seq(Nat) /\ Len(SubSeq(a, 1, n)) = n
         /\ \A i \in 1..n : SubSeq(a, 1, n)[i] = a[i]
<1>1. \A i \in 1..n : a[i] \in Nat
  BY LenProperties
<1>2. /\ SubSeq(a, 1, n) \in Seq(Nat)
      /\ Len(SubSeq(a, 1, n)) = IF 1 <= n THEN n - 1 + 1 ELSE 0
      /\ \A i \in 1 .. n - 1 + 1 : SubSeq(a, 1, n)[i] = a[1 + i - 1]
  BY <1>1, SubSeqProperties
<1> QED  BY <1>2

(* All that is above a path of the mask's is one too.                      *)
LEMMA AncestorsArePaths ==
  ASSUME NEW p \in MaskPaths, NEW n \in Nat, n <= Len(p)
  PROVE  SubSeq(p, 1, n) \in MaskPaths
<1> DEFINE G == {d \in Nat : \A q \in MaskPaths :
                   d <= Len(q) => SubSeq(q, 1, Len(q) - d) \in MaskPaths}
<1>1. /\ \A q \in MaskPaths : q \in Seq(Nat) /\ Len(q) \in Nat
      /\ \A q \in MaskPaths \ {<<>>} : PM!Front(q) \in MaskPaths
  BY DataAssumptions DEF PM!MaskAssumption
<1>2. 0 \in G
  <2>1. ASSUME NEW q \in MaskPaths PROVE SubSeq(q, 1, Len(q)) = q
    BY <1>1, SubSeqFull
  <2>2. \A q \in MaskPaths : Len(q) - 0 = Len(q)
    BY <1>1
  <2> QED  BY <2>1, <2>2
<1>3. ASSUME NEW d \in Nat, d \in G PROVE d + 1 \in G
  <2>1. ASSUME NEW q \in MaskPaths, d + 1 <= Len(q)
        PROVE  SubSeq(q, 1, Len(q) - (d + 1)) \in MaskPaths
    <3>1. q \in Seq(Nat) /\ Len(q) \in Nat /\ Len(q) - 1 \in Nat /\ Len(q) - (d + 1) \in Nat
      BY <1>1, <2>1
    <3>2. q # <<>> /\ Len(q) - 1 <= Len(q)
      BY <2>1, <3>1
    <3>3. PICK f : f = SubSeq(q, 1, Len(q) - 1)
      OBVIOUS
    <3>4. f \in MaskPaths
      BY <1>1, <3>2, <3>3 DEF PM!Front
    <3>5. f \in Seq(Nat) /\ Len(f) = Len(q) - 1 /\ \A i \in 1..Len(q) - 1 : f[i] = q[i]
      BY <3>1, <3>2, <3>3, PathsCut
    <3>6. /\ d <= Len(f) /\ Len(f) - d = Len(q) - (d + 1)
          /\ Len(q) - (d + 1) <= Len(f) /\ Len(q) - (d + 1) <= Len(q)
      BY <2>1, <3>1, <3>5
    <3>7. SubSeq(f, 1, Len(q) - (d + 1)) \in MaskPaths
      <4>1. SubSeq(f, 1, Len(f) - d) \in MaskPaths
        BY <1>3, <3>4, <3>6
      <4> QED  BY <3>6, <4>1
    <3>8. SubSeq(f, 1, Len(q) - (d + 1)) = SubSeq(q, 1, Len(q) - (d + 1))
      <4>1. PICK c, e : c = SubSeq(f, 1, Len(q) - (d + 1)) /\ e = SubSeq(q, 1, Len(q) - (d + 1))
        OBVIOUS
      <4>2. /\ c \in Seq(Nat) /\ Len(c) = Len(q) - (d + 1)
            /\ \A i \in 1..Len(q) - (d + 1) : c[i] = f[i]
        BY <3>1, <3>5, <3>6, <4>1, PathsCut
      <4>3. /\ e \in Seq(Nat) /\ Len(e) = Len(q) - (d + 1)
            /\ \A i \in 1..Len(q) - (d + 1) : e[i] = q[i]
        BY <3>1, <3>6, <4>1, PathsCut
      <4>4. \A i \in 1..Len(q) - (d + 1) : c[i] = e[i]
        BY <3>1, <3>5, <4>2, <4>3
      <4> QED  BY <4>1, <4>2, <4>3, <4>4, SeqEqual
    <3> QED  BY <3>7, <3>8
  <2> QED  BY <2>1
<1> HIDE DEF G
<1>4. Len(p) - n \in Nat /\ Len(p) - n \in G
  <2>1. Len(p) - n \in Nat
    BY <1>1
  <2>2. \A i \in Nat : i \in G
    BY <1>2, <1>3, Induction
  <2> QED  BY <2>1, <2>2
<1>5. SubSeq(p, 1, Len(p) - (Len(p) - n)) \in MaskPaths
  BY <1>1, <1>4 DEF G
<1>6. Len(p) - (Len(p) - n) = n
  BY <1>1
<1> QED  BY <1>5, <1>6

(* A path below another is below, or is, one of its children.              *)
LEMMA ChildOnTheWay ==
  ASSUME NEW p \in MaskPaths, NEW x \in MaskPaths, PM!IsPrefix(p, x), x # p
  PROVE  \E q \in MaskPaths : /\ q # <<>> /\ PM!Front(q) = p /\ PM!IsPrefix(q, x)
                              /\ PM!Last(q) = x[Len(p) + 1]
<1>1. \A q \in MaskPaths : q \in Seq(Nat) /\ Len(q) \in Nat
  BY DataAssumptions DEF PM!MaskAssumption
<1>2. Len(p) <= Len(x) /\ \A i \in 1..Len(p) : p[i] = x[i]
  BY <1>1, PrefixIs
<1>3. Len(p) # Len(x)
  BY <1>1, <1>2, SeqEqual
<1>4. Len(p) \in Nat /\ Len(p) + 1 \in Nat /\ Len(p) + 1 <= Len(x)
  BY <1>1, <1>2, <1>3
<1>5. PICK q : q = SubSeq(x, 1, Len(p) + 1)
  OBVIOUS
<1>6. /\ q \in MaskPaths /\ q \in Seq(Nat) /\ Len(q) = Len(p) + 1
      /\ \A i \in 1..Len(p) + 1 : q[i] = x[i]
  BY <1>1, <1>4, <1>5, AncestorsArePaths, PathsCut
<1>7. q # <<>>
  BY <1>4, <1>6
<1>8. PM!Front(q) = p
  <2>1. PICK f : f = SubSeq(q, 1, Len(p))
    OBVIOUS
  <2>2. f \in Seq(Nat) /\ Len(f) = Len(p) /\ \A i \in 1..Len(p) : f[i] = q[i]
    BY <1>4, <1>6, <2>1, PathsCut
  <2>3. \A i \in 1..Len(p) : f[i] = p[i]
    <3>1. ASSUME NEW i \in 1..Len(p) PROVE f[i] = p[i]
      <4>1. i \in 1..Len(p) + 1
        BY <1>4
      <4> QED  BY <1>2, <1>6, <2>2, <4>1
    <3> QED  BY <3>1
  <2>4. f = p
    BY <1>1, <2>2, <2>3, SeqEqual
  <2>5. Len(q) - 1 = Len(p)
    BY <1>4, <1>6
  <2> QED  BY <2>1, <2>4, <2>5 DEF PM!Front
<1>9. PM!IsPrefix(q, x)
  BY <1>1, <1>4, <1>6, PrefixIs
<1>10. PM!Last(q) = x[Len(p) + 1]
  BY <1>4, <1>6 DEF PM!Last
<1> QED  BY <1>6, <1>7, <1>8, <1>9, <1>10

(* A child of p: p is above it, with nothing between them.                 *)
LEMMA ChildIs ==
  ASSUME NEW q \in MaskPaths, q # <<>>
  PROVE  /\ PM!Front(q) \in MaskPaths
         /\ Len(q) \in Nat /\ Len(PM!Front(q)) \in Nat /\ Len(q) = Len(PM!Front(q)) + 1
         /\ PM!IsPrefix(PM!Front(q), q) /\ q # PM!Front(q)
         /\ \A o \in MaskPaths : PM!IsPrefix(o, q) => o = q \/ PM!IsPrefix(o, PM!Front(q))
<1>1. /\ \A o \in MaskPaths : o \in Seq(Nat) /\ Len(o) \in Nat
      /\ PM!Front(q) \in MaskPaths
  BY DataAssumptions DEF PM!MaskAssumption
<1>2. Len(q) \in Nat /\ Len(q) - 1 \in Nat /\ Len(q) - 1 <= Len(q)
  BY <1>1, EmptySeq
<1>3. PICK f : f = PM!Front(q)
  OBVIOUS
<1>4. f \in Seq(Nat) /\ Len(f) = Len(q) - 1 /\ \A i \in 1..Len(q) - 1 : f[i] = q[i]
  BY <1>1, <1>2, <1>3, PathsCut DEF PM!Front
<1>5. PM!IsPrefix(f, q) /\ q # f /\ Len(q) = Len(f) + 1
  <2>1. Len(f) <= Len(q) /\ Len(q) = Len(f) + 1
    BY <1>2, <1>4
  <2>2. PM!IsPrefix(f, q)
    <3>1. \A i \in 1..Len(f) : f[i] = q[i]
      BY <1>4
    <3> QED  BY <1>1, <1>4, <2>1, <3>1, PrefixIs
  <2> QED  BY <1>2, <2>1, <2>2
<1>6. ASSUME NEW o \in MaskPaths, PM!IsPrefix(o, q), o # q PROVE PM!IsPrefix(o, f)
  <2>1. o \in Seq(Nat) /\ Len(o) \in Nat /\ Len(o) <= Len(q) /\ \A i \in 1..Len(o) : o[i] = q[i]
    BY <1>1, <1>6, PrefixIs
  <2>2. Len(o) # Len(q)
    BY <1>1, <1>6, <2>1, SeqEqual
  <2>3. Len(o) <= Len(f) /\ \A i \in 1..Len(o) : o[i] = f[i]
    BY <1>2, <1>4, <2>1, <2>2
  <2> QED  BY <1>4, <2>1, <2>3, PrefixIs
<1> QED  BY <1>1, <1>2, <1>3, <1>4, <1>5, <1>6

LEMMA ChildNamesAre ==
  ASSUME NEW m, IsMask(m), NEW p \in MaskPaths, p \notin Cover(PathsOf(m))
  PROVE  LET children == {q \in MaskPaths : q # <<>> /\ PM!Front(q) = p}
         IN  PM!GetIncludedChildNames(m, p) =
               {PM!Last(q) : q \in {c \in children : PM!Includes(m, c)}}
<1> DEFINE children == {q \in MaskPaths : q # <<>> /\ PM!Front(q) = p}
           names == {PM!Last(q) : q \in {c \in children : PM!Includes(m, c)}}
<1>1. /\ Len(m) \in Nat /\ \A i \in 1..Len(m) : m[i] \in MaskPaths /\ m[i] \in PathsOf(m)
      /\ \A i, j \in 1..Len(m) : i < j => Before(m[i], m[j])
      /\ \A q \in PathsOf(m) : \E i \in 1..Len(m) : q = m[i]
  BY MaskPlaces
<1>2. PICK k, n : k = PM!LowerBound(m, p) /\ n = PM!Past(m, k, p)
  OBVIOUS
<1>3. /\ k \in 1..Len(m) + 1
      /\ \A i \in 1..Len(m) : i < k =>
           Before(m[i], p) \/ (PM!IsPrefix(m[i], p) /\ m[i] # p)
      /\ \A i \in 1..Len(m) : i >= k => Before(p, m[i]) \/ PM!IsPrefix(p, m[i])
  BY <1>2, LowerBoundIs
<1>4. /\ n \in k..Len(m) + 1
      /\ n <= Len(m) => ~PM!IsPrefix(p, m[n])
      /\ \A i \in k..n - 1 : PM!IsPrefix(p, m[i])
  <2>1. k \in Nat /\ k <= Len(m) + 1
    BY <1>1, <1>3
  <2> QED  BY <1>1, <1>2, <2>1, PastIs
<1>5. \A i \in 1..Len(m) : ~PM!IsPrefix(m[i], p)
  BY <1>1 DEF Cover
<1>6. PM!GetIncludedChildNames(m, p) = {m[i][Len(p) + 1] : i \in k..n - 1}
  <2>1. ~PM!IncludesSubtree(m, p)
    BY IncludesSubtreeIs
  <2> QED  BY <1>2, <2>1 DEF PM!GetIncludedChildNames
<1>7. ASSUME NEW i \in k..n - 1 PROVE m[i][Len(p) + 1] \in names
  <2>1. i \in 1..Len(m)
    BY <1>1, <1>3, <1>4
  <2>2. m[i] \in MaskPaths /\ m[i] \in Cover(PathsOf(m)) /\ PM!IsPrefix(p, m[i]) /\ m[i] # p
    BY <1>1, <1>4, <1>5, <2>1, MaskPathsAreOrdered DEF Cover
  <2>3. PICK q \in MaskPaths : /\ q # <<>> /\ PM!Front(q) = p /\ PM!IsPrefix(q, m[i])
                               /\ PM!Last(q) = m[i][Len(p) + 1]
    BY <2>2, ChildOnTheWay
  <2>4. m[i] \in PM!Below(q)
    BY <2>2, <2>3 DEF PM!Below
  <2>5. PM!Includes(m, q)
    BY <2>2, <2>4, IncludesIs
  <2> QED  BY <2>3, <2>5
<1>8. ASSUME NEW q \in MaskPaths, q # <<>>, PM!Front(q) = p, PM!Includes(m, q)
      PROVE  PM!Last(q) \in {m[i][Len(p) + 1] : i \in k..n - 1}
  <2>1. PICK x \in PM!Below(q) : x \in Cover(PathsOf(m))
    BY <1>8, IncludesIs
  <2>2. x \in MaskPaths /\ PM!IsPrefix(q, x)
    BY DEF PM!Below
  <2>3. PICK o \in PathsOf(m) : PM!IsPrefix(o, x)
    BY <2>1 DEF Cover
  <2>4. PICK i \in 1..Len(m) : o = m[i]
    BY <1>1
  <2>5. m[i] \in MaskPaths /\ ~PM!IsPrefix(m[i], p)
    BY <1>1, <1>5
  <2>6. /\ Len(q) \in Nat /\ Len(p) \in Nat /\ Len(q) = Len(p) + 1 /\ PM!IsPrefix(p, q)
        /\ PM!IsPrefix(m[i], q) => m[i] = q
    BY <1>8, <2>5, ChildIs
  <2>7. PM!IsPrefix(q, m[i])
    <3>1. PM!IsPrefix(m[i], q) \/ PM!IsPrefix(q, m[i])
      BY <2>2, <2>3, <2>4, <2>5, MaskPathsAreOrdered
    <3> QED  BY <2>6, <3>1, MaskPathsAreOrdered
  <2>8. PM!IsPrefix(p, m[i])
    BY <2>5, <2>6, <2>7, MaskPathsAreOrdered
  <2>9. ~Before(m[i], p) /\ ~Before(p, m[i])
    BY <2>5, <2>8, MaskPathsAreOrdered
  <2>10. i >= k
    <3>1. ASSUME i < k PROVE FALSE
      BY <1>3, <2>5, <2>9, <3>1
    <3> QED  BY <1>3, <3>1
  <2>11. i < n
    <3>1. ASSUME n <= i PROVE FALSE
      <4>1. n \in 1..Len(m) /\ n >= k /\ n <= Len(m)
        BY <1>1, <1>3, <1>4, <3>1
      <4>2. m[n] \in MaskPaths /\ Before(p, m[n])
        BY <1>1, <1>3, <1>4, <4>1
      <4>3. n = i \/ n < i
        BY <3>1, <4>1
      <4>4. Before(p, m[i])
        <5>1. CASE n = i
          BY <4>2, <5>1
        <5>2. CASE n < i
          <6>1. Before(m[n], m[i])
            BY <1>1, <4>1, <5>2
          <6> QED  BY <2>5, <4>2, <6>1, MaskPathsAreOrdered
        <5> QED  BY <4>3, <5>1, <5>2
      <4> QED  BY <2>9, <4>4
    <3> QED  BY <1>3, <1>4, <3>1
  <2>12. i \in k..n - 1
    BY <1>3, <1>4, <2>10, <2>11
  <2>13. PM!Last(q) = m[i][Len(p) + 1]
    <3>1. q \in Seq(Nat) /\ m[i] \in Seq(Nat)
      BY <2>5, DataAssumptions DEF PM!MaskAssumption
    <3>2. Len(p) + 1 \in 1..Len(q)
      BY <2>6
    <3>3. q[Len(p) + 1] = m[i][Len(p) + 1]
      BY <2>7, <3>1, <3>2, PrefixIs
    <3> QED  BY <2>6, <3>3 DEF PM!Last
  <2> QED  BY <2>12, <2>13
<1>9. names \subseteq {m[i][Len(p) + 1] : i \in k..n - 1}
  BY <1>8
<1>10. {m[i][Len(p) + 1] : i \in k..n - 1} \subseteq names
  BY <1>7
<1> QED  BY <1>6, <1>9, <1>10

LEMMA BelowIsCover ==
  ASSUME NEW m, IsMask(m)
  PROVE  UNION {PM!Below(p) : p \in PM!ToSet(m)} = Cover(PathsOf(m))
<1>1. PathsOf(m) = PM!ToSet(m)
  BY MaskPlaces
<1> QED  BY <1>1 DEF PM!Below, Cover

LEMMA MasksAre ==
  ASSUME NEW m \in PM!Masks
  PROVE  IsMask(m)
<1>1. PICK S \in SUBSET MaskPaths : m = PM!Normalized(S)
  BY DEF PM!Masks
<1> QED  BY <1>1, NormalizedIs

LEMMA IncludesMaskIs ==
  ASSUME NEW m, IsMask(m), NEW other, IsMask(other)
  PROVE  PM!IncludesMask(m, other) <=> Cover(PathsOf(other)) \subseteq Cover(PathsOf(m))
<1>1. PICK u : u = PM!Union(m, other)
  OBVIOUS
<1>2. IsMask(u) /\ Cover(PathsOf(u)) = Cover(PathsOf(m)) \cup Cover(PathsOf(other))
  BY <1>1, UnionIs
<1>3. u = m <=> Cover(PathsOf(u)) = Cover(PathsOf(m))
  BY <1>2, MasksAreUnique
<1> QED  BY <1>1, <1>2, <1>3 DEF PM!IncludesMask

LEMMA MasksAreNormalized ==
  ASSUME NEW m, IsMask(m)
  PROVE  m = PM!Normalized(PM!ToSet(m))
<1>1. /\ PathsOf(m) = PM!ToSet(m) /\ PathsOf(m) \in SUBSET MaskPaths
      /\ \A p, q \in PathsOf(m) : PM!IsPrefix(p, q) => p = q
  BY MaskPlaces
<1>2. Tops(PathsOf(m)) = PathsOf(m)
  BY <1>1 DEF Tops, PM!IsStrictPrefix
<1>3. PICK n : n = PM!Normalized(PathsOf(m))
  OBVIOUS
<1>4. IsMask(n) /\ PathsOf(n) = PathsOf(m)
  BY <1>1, <1>2, <1>3, NormalizedIs
<1> QED  BY <1>1, <1>3, <1>4, MasksAreUnique

(* What the steps keep: a sorted vector of paths apart from each other,    *)
(* with exactly the wanted paths below them.                               *)
MaskIsKept == IsMask(mask) /\ wanted = Cover(PathsOf(mask))

LEMMA MaskAnswers == MaskIsKept => PM!MaskIsExact
<1> SUFFICES ASSUME MaskIsKept PROVE PM!MaskIsExact
  OBVIOUS
<1>1. IsMask(mask) /\ wanted = Cover(PathsOf(mask))
  BY DEF MaskIsKept
<1>2. mask = PM!Normalized(PM!ToSet(mask))
  BY <1>1, MasksAreNormalized
<1>3. ASSUME NEW p \in MaskPaths
      PROVE  LET children == {q \in MaskPaths : q # <<>> /\ PM!Front(q) = p}
             IN  /\ PM!IncludesSubtree(mask, p) <=> p \in wanted
                 /\ PM!Includes(mask, p) <=> PM!Below(p) \cap wanted # {}
                 /\ p \notin wanted =>
                      PM!GetIncludedChildNames(mask, p) =
                        {PM!Last(q) : q \in {c \in children : PM!Includes(mask, c)}}
  <2>1. PM!IncludesSubtree(mask, p) <=> p \in wanted
    BY <1>1, IncludesSubtreeIs
  <2>2. PM!Includes(mask, p) <=> PM!Below(p) \cap wanted # {}
    BY <1>1, IncludesIs
  <2> QED  BY <1>1, <2>1, <2>2, ChildNamesAre
<1>4. ASSUME NEW m \in PM!Masks
      PROVE  PM!IncludesMask(mask, m)
               <=> UNION {PM!Below(p) : p \in PM!ToSet(m)} \subseteq wanted
  <2>1. IsMask(m)
    BY MasksAre
  <2> QED  BY <1>1, <2>1, BelowIsCover, IncludesMaskIs
<1> QED  BY <1>2, <1>3, <1>4 DEF PM!MaskIsExact

LEMMA MaskStep ==
  ASSUME MaskIsKept, PM!Next
  PROVE  MaskIsKept'
<1>1. PICK m \in PM!Masks : \/ PM!SetPopulationMask(m)
                            \/ PM!Add(m)
                            \/ PM!Intersect(m)
  BY DEF PM!Next
<1>2. IsMask(m) /\ UNION {PM!Below(p) : p \in PM!ToSet(m)} = Cover(PathsOf(m))
  BY MasksAre, BelowIsCover
<1>3. IsMask(mask) /\ wanted = Cover(PathsOf(mask))
  BY DEF MaskIsKept
<1>4. SUFFICES IsMask(mask') /\ wanted' = Cover(PathsOf(mask'))
  BY DEF MaskIsKept, IsMask, Cover, PathsOf, Part, Before, PM!IsPrefix
<1>5. CASE PM!SetPopulationMask(m)
  BY <1>2, <1>5 DEF PM!SetPopulationMask
<1>6. CASE PM!Add(m)
  BY <1>2, <1>3, <1>6, UnionIs DEF PM!Add
<1>7. CASE PM!Intersect(m)
  BY <1>2, <1>3, <1>7, IntersectionIs DEF PM!Intersect
<1> QED  BY <1>1, <1>5, <1>6, <1>7
=============================================================================
