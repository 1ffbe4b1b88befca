------------------------ MODULE Synchronization_proofs ------------------------
(***************************************************************************)
(* Proofs about TfSpinRWMutex and HdRenderThread, alone and in             *)
(* Synchronization, where they run beside SdfLayerRegistry (which has a    *)
(* proof module of its own): for any finite set of threads of the lock and *)
(* any set of hydra threads.                                               *)
(*                                                                         *)
(* TfSpinRWMutex: its invariants, and that it implements TfRWLock.  The    *)
(* invariant is inductive because the reader count is exact: a writer that *)
(* sees zero readers knows that nobody reads.                              *)
(***************************************************************************)
EXTENDS Synchronization, FiniteSetTheorems, TLAPS

LEMMA CountedFinite == IsFiniteSet(CountedThreads) /\ Cardinality(CountedThreads) \in Nat
BY SpinAssumptions, FS_Subset, FS_CardinalityType DEF CountedThreads

(* The count after a step of one thread that starts, or stops, counting.   *)
LEMMA CountOneMore ==
  ASSUME NEW t \in Threads, t \notin CountedThreads,
         CountedThreads' = CountedThreads \cup {t}
  PROVE  Cardinality(CountedThreads') = Cardinality(CountedThreads) + 1
BY CountedFinite, FS_AddElement

LEMMA CountOneLess ==
  ASSUME NEW t \in Threads, t \in CountedThreads,
         CountedThreads' = CountedThreads \ {t}
  PROVE  Cardinality(CountedThreads') = Cardinality(CountedThreads) - 1
BY CountedFinite, FS_RemoveElement

LEMMA NoneCounted ==
  ASSUME Cardinality(CountedThreads) = 0
  PROVE  \A t \in Threads : pc[t] \notin Counted
BY CountedFinite, FS_EmptySet DEF CountedThreads

LEMMA InitInvariant == Init => IInv
<1> SUFFICES ASSUME Init PROVE IInv
  OBVIOUS
<1>1. TypeOK
  BY DEF Init, TypeOK, Labels, AllOperations
<1>2. CountedThreads = {}
  BY DEF Init, CountedThreads, Counted
<1>3. StateIsExact
  BY <1>2, FS_EmptySet DEF Init, StateIsExact, Flagged
<1>. QED  BY <1>1, <1>3 DEF Init, IInv, MutualExclusion

-----------------------------------------------------------------------------
(* Steps that leave the reader count alone.                                *)
LEMMA SameCount ==
  ASSUME IInv, NEW t \in Threads, NEW label \in Labels,
         pc' = [pc EXCEPT ![t] = label], pc[t] \in Counted <=> label \in Counted,
         lockState'.readers = lockState.readers
  PROVE  lockState'.readers = Cardinality(CountedThreads')
<1>1. CountedThreads' = CountedThreads
  BY DEF IInv, TypeOK, CountedThreads
<1>. QED  BY <1>1 DEF IInv, StateIsExact

LEMMA OneMoreCounted ==
  ASSUME IInv, NEW t \in Threads, NEW label \in Counted,
         pc' = [pc EXCEPT ![t] = label], pc[t] \notin Counted,
         lockState'.readers = lockState.readers + 1
  PROVE  lockState'.readers = Cardinality(CountedThreads')
<1>1. CountedThreads' = CountedThreads \cup {t} /\ t \notin CountedThreads
  BY DEF IInv, TypeOK, CountedThreads
<1>. QED  BY <1>1, CountOneMore DEF IInv, StateIsExact

LEMMA OneLessCounted ==
  ASSUME IInv, NEW t \in Threads, NEW label \in Labels \ Counted,
         pc' = [pc EXCEPT ![t] = label], pc[t] \in Counted,
         lockState'.readers = lockState.readers - 1
  PROVE  /\ lockState'.readers = Cardinality(CountedThreads')
         /\ lockState'.readers \in Nat
<1>1. CountedThreads' = CountedThreads \ {t} /\ t \in CountedThreads
  BY DEF IInv, TypeOK, CountedThreads
<1>2. IsFiniteSet(CountedThreads')
  BY <1>1, CountedFinite, FS_RemoveElement
<1>. QED  BY <1>1, <1>2, CountOneLess, FS_CardinalityType DEF IInv, StateIsExact

LEMMA BeginStep ==
  ASSUME IInv, NEW t \in Threads, Begin(t)
  PROVE  IInv'
<1>1. PICK label \in {"read", "write", "upgrade"} :
        /\ pc' = [pc EXCEPT ![t] = label]
        /\ pc[t] = IF label = "upgrade" THEN "reading" ELSE "idle"
        /\ lockState' = lockState
        /\ op' \in [Threads -> AllOperations]
  BY SpinAssumptions DEF Begin, Start, IInv, TypeOK
<1>2. TypeOK'
  BY <1>1 DEF IInv, TypeOK, Labels, Counted
<1>3. lockState'.readers = Cardinality(CountedThreads')
  BY <1>1, SameCount DEF Labels, Counted, Flagged
<1>4. StateIsExact'
  BY <1>1, <1>3 DEF IInv, TypeOK, StateIsExact, Flagged
<1>5. MutualExclusion'
  BY <1>1 DEF IInv, TypeOK, MutualExclusion, Held
<1>. QED  BY <1>2, <1>4, <1>5 DEF IInv

LEMMA ReadStep ==
  ASSUME IInv, NEW t \in Threads,
         AddReader(t) \/ UndoRead(t) \/ ReadAgain(t) \/ ReleaseRead(t)
  PROVE  IInv'
<1>1. CASE AddReader(t)
  <2>1. TypeOK'
    BY <1>1 DEF AddReader, Goto, IInv, TypeOK, Labels, Counted
  <2>2. lockState'.readers = Cardinality(CountedThreads')
    BY <1>1, OneMoreCounted DEF AddReader, Goto, IInv, TypeOK, Counted
  <2>3. StateIsExact'
    BY <1>1, <2>2 DEF AddReader, Goto, IInv, TypeOK, StateIsExact, Flagged
  <2>4. MutualExclusion'
    BY <1>1 DEF AddReader, Goto, IInv, TypeOK, StateIsExact, Flagged, MutualExclusion, Held
  <2>. QED  BY <2>1, <2>3, <2>4 DEF IInv
<1>2. CASE UndoRead(t) \/ ReleaseRead(t)
  <2>1. PICK label \in {"idle", "readWait"} : pc' = [pc EXCEPT ![t] = label]
    BY <1>2 DEF UndoRead, ReleaseRead, Goto
  <2>2. lockState'.readers = Cardinality(CountedThreads') /\ lockState'.readers \in Nat
    BY <1>2, <2>1, OneLessCounted
    DEF UndoRead, ReleaseRead, IInv, TypeOK, Labels, Counted, Flagged
  <2>3. TypeOK'
    BY <1>2, <2>1, <2>2 DEF UndoRead, ReleaseRead, Goto, IInv, TypeOK, Labels
  <2>4. StateIsExact'
    BY <1>2, <2>1, <2>2
    DEF UndoRead, ReleaseRead, Goto, IInv, TypeOK, StateIsExact, Flagged
  <2>5. MutualExclusion'
    BY <1>2, <2>1 DEF UndoRead, ReleaseRead, IInv, TypeOK, MutualExclusion, Held
  <2>. QED  BY <2>3, <2>4, <2>5 DEF IInv
<1>3. CASE ReadAgain(t)
  <2>1. TypeOK'
    BY <1>3 DEF ReadAgain, Goto, IInv, TypeOK, Labels
  <2>2. lockState'.readers = Cardinality(CountedThreads')
    BY <1>3, SameCount DEF ReadAgain, Goto, Labels, Counted
  <2>3. StateIsExact'
    BY <1>3, <2>2 DEF ReadAgain, Goto, IInv, TypeOK, StateIsExact, Flagged
  <2>4. MutualExclusion'
    BY <1>3 DEF ReadAgain, Goto, IInv, TypeOK, MutualExclusion, Held
  <2>. QED  BY <2>1, <2>3, <2>4 DEF IInv
<1>. QED  BY <1>1, <1>2, <1>3

(* The thread that comes to write does so with a count of zero.            *)
LEMMA WriteStep ==
  ASSUME IInv, NEW t \in Threads,
         \/ SetFlag(t) \/ FlagTaken(t) \/ WriteAgain(t) \/ ReadersGone(t)
         \/ ReleaseWrite(t)
  PROVE  IInv'
<1>1. PICK label \in {"idle", "write", "writeWait", "waitReaders", "writing"} :
        pc' = [pc EXCEPT ![t] = label]
  BY DEF SetFlag, FlagTaken, WriteAgain, ReadersGone, ReleaseWrite, Goto
<1>2. TypeOK'
  BY <1>1 DEF SetFlag, FlagTaken, WriteAgain, ReadersGone, ReleaseWrite, Goto,
              IInv, TypeOK, Labels, Flagged
<1>3. lockState'.readers = lockState.readers
  BY DEF SetFlag, FlagTaken, WriteAgain, ReadersGone, ReleaseWrite, IInv, TypeOK
<1>4. lockState'.readers = Cardinality(CountedThreads')
  BY <1>1, <1>3, SameCount
  DEF SetFlag, FlagTaken, WriteAgain, ReadersGone, ReleaseWrite, Labels, Counted, Flagged
<1>5. StateIsExact'
  <2>1. CASE SetFlag(t)
    BY <1>4, <2>1 DEF SetFlag, Goto, IInv, TypeOK, StateIsExact, Flagged
  <2>2. CASE FlagTaken(t) \/ WriteAgain(t)
    BY <1>4, <2>2 DEF FlagTaken, WriteAgain, Goto, IInv, TypeOK, StateIsExact, Flagged
  <2>3. CASE ReadersGone(t)
    BY <1>4, <2>3 DEF ReadersGone, Goto, IInv, TypeOK, StateIsExact, Flagged
  <2>4. CASE ReleaseWrite(t)
    BY <1>4, <2>4 DEF ReleaseWrite, Goto, IInv, TypeOK, StateIsExact, Flagged
  <2>. QED  BY <2>1, <2>2, <2>3, <2>4
<1>6. MutualExclusion'
  <2>1. ASSUME pc'[t] = "writing"
        PROVE  \A u \in Threads : pc[u] \notin Counted /\ (u # t => pc[u] \notin Flagged)
    <3>1. lockState.readers = 0
      BY <1>1, <2>1 DEF SetFlag, FlagTaken, WriteAgain, ReadersGone, ReleaseWrite, Goto, IInv, TypeOK
    <3>2. \A u \in Threads : u # t => pc[u] \notin Flagged
      BY <1>1, <2>1 DEF SetFlag, FlagTaken, WriteAgain, ReadersGone, ReleaseWrite, Goto,
                        IInv, TypeOK, StateIsExact, Flagged
    <3>. QED  BY <3>1, <3>2, NoneCounted DEF IInv, StateIsExact
  <2>2. CASE pc'[t] = "writing"
    BY <1>1, <2>1, <2>2 DEF IInv, TypeOK, MutualExclusion, Held, Counted, Flagged
  <2>3. CASE pc'[t] # "writing"
    BY <1>1, <2>3 DEF IInv, TypeOK, MutualExclusion, Held
  <2>. QED  BY <2>2, <2>3
<1>. QED  BY <1>2, <1>5, <1>6 DEF IInv

LEMMA UpgradeStep ==
  ASSUME IInv, NEW t \in Threads,
         UpgradeSetFlag(t) \/ UpgradeSubReader(t) \/ UpgradeFlagTaken(t)
  PROVE  IInv'
<1>1. CASE UpgradeSetFlag(t) \/ UpgradeFlagTaken(t)
  <2>1. PICK label \in {"upgradeSub", "upgradeWait"} : pc' = [pc EXCEPT ![t] = label]
    BY <1>1 DEF UpgradeSetFlag, UpgradeFlagTaken, Goto
  <2>2. TypeOK'
    BY <1>1, <2>1 DEF UpgradeSetFlag, UpgradeFlagTaken, Goto, IInv, TypeOK, Labels, Counted
  <2>3. lockState'.readers = Cardinality(CountedThreads')
    BY <1>1, <2>1, SameCount
    DEF UpgradeSetFlag, UpgradeFlagTaken, IInv, TypeOK, Labels, Counted
  <2>4. StateIsExact'
    BY <1>1, <2>3 DEF UpgradeSetFlag, UpgradeFlagTaken, Goto, IInv, TypeOK, StateIsExact, Flagged
  <2>5. MutualExclusion'
    BY <1>1, <2>1 DEF UpgradeSetFlag, UpgradeFlagTaken, IInv, TypeOK, MutualExclusion, Held
  <2>. QED  BY <2>2, <2>4, <2>5 DEF IInv
<1>2. CASE UpgradeSubReader(t)
  <2>1. PICK label \in {"writing", "upgradeReaders"} :
          /\ pc' = [pc EXCEPT ![t] = label]
          /\ label = "writing" => lockState.readers = 1
    BY <1>2 DEF UpgradeSubReader, Goto
  <2>2. lockState'.readers = lockState.readers - 1
    BY <1>2 DEF UpgradeSubReader, IInv, TypeOK
  <2>3. lockState'.readers = Cardinality(CountedThreads') /\ lockState'.readers \in Nat
    BY <1>2, <2>1, <2>2, OneLessCounted DEF UpgradeSubReader, Labels, Counted, Flagged
  <2>4. TypeOK'
    BY <1>2, <2>1, <2>2, <2>3 DEF UpgradeSubReader, Goto, IInv, TypeOK, Labels, Flagged
  <2>5. StateIsExact'
    BY <1>2, <2>1, <2>3 DEF UpgradeSubReader, IInv, TypeOK, StateIsExact, Flagged
  <2>6. ASSUME pc'[t] = "writing"
        PROVE  \A u \in Threads : u # t => pc[u] \notin Counted /\ pc[u] \notin Flagged
    <3>1. CountedThreads' = CountedThreads \ {t}
      BY <2>1 DEF IInv, TypeOK, CountedThreads, Counted
    <3>2. IsFiniteSet(CountedThreads') /\ Cardinality(CountedThreads') = 0
      BY <2>1, <2>2, <2>3, <2>6, <3>1, CountedFinite, FS_RemoveElement
      DEF IInv, TypeOK
    <3>3. CountedThreads' = {}
      BY <3>2, FS_EmptySet
    <3>4. pc[t] \in Flagged
      BY <1>2 DEF UpgradeSubReader, Flagged
    <3>. QED  BY <3>1, <3>3, <3>4 DEF CountedThreads, IInv, StateIsExact
  <2>7. MutualExclusion'
    <3>1. CASE pc'[t] = "writing"
      BY <2>1, <2>6, <3>1 DEF IInv, TypeOK, MutualExclusion, Held, Counted, Flagged
    <3>2. CASE pc'[t] # "writing"
      BY <1>2, <2>1, <3>2 DEF UpgradeSubReader, IInv, TypeOK, MutualExclusion, Held
    <3>. QED  BY <3>1, <3>2
  <2>. QED  BY <2>4, <2>5, <2>7 DEF IInv
<1>. QED  BY <1>1, <1>2

LEMMA DowngradeStep ==
  ASSUME IInv, NEW t \in Threads, DowngradeToReader(t)
  PROVE  IInv'
<1>1. TypeOK'
  BY DEF DowngradeToReader, Goto, IInv, TypeOK, Labels, Counted
<1>2. lockState'.readers = Cardinality(CountedThreads')
  BY OneMoreCounted DEF DowngradeToReader, Goto, IInv, TypeOK, Counted
<1>3. StateIsExact'
  BY <1>2 DEF DowngradeToReader, Goto, IInv, TypeOK, StateIsExact, Flagged
<1>4. MutualExclusion'
  BY DEF DowngradeToReader, Goto, IInv, TypeOK, MutualExclusion, Held
<1>. QED  BY <1>1, <1>3, <1>4 DEF IInv

LEMMA NextInvariant == IInv /\ [Next]_vars => IInv'
<1> SUFFICES ASSUME IInv, [Next]_vars PROVE IInv'
  OBVIOUS
<1>1. CASE Next
  BY <1>1, BeginStep, ReadStep, WriteStep, UpgradeStep, DowngradeStep
  DEF Next, Acquire, Release
<1>2. CASE UNCHANGED vars
  BY <1>2 DEF vars, IInv, TypeOK, StateIsExact, CountedThreads, MutualExclusion, Held
<1>. QED  BY <1>1, <1>2

LEMMA Invariant == Spec => []IInv
BY InitInvariant, NextInvariant, PTL DEF Spec

(* The lock excludes: a thread that writes is alone, for any number of     *)
(* threads and any sequence of acquisitions, upgrades and downgrades.      *)
THEOREM Exclusion == Spec => []MutualExclusion
BY Invariant, PTL DEF IInv

(* _lockState counts the readers exactly and its flag has one owner, so no *)
(* thread is kept out by a count or a flag nobody will clear.              *)
THEOREM ExactState == Spec => []StateIsExact
BY Invariant, PTL DEF IInv

-----------------------------------------------------------------------------
(* Refinement.  Writer is a CHOOSE; by mutual exclusion it has one value.  *)
LEMMA WriterValue ==
  ASSUME MutualExclusion
  PROVE  /\ \A t \in Threads : pc[t] = "writing" => Writer = t
         /\ (\A t \in Threads : pc[t] # "writing") => Writer = None
BY DEF MutualExclusion, Writer

LEMMA InitRefines == Init => RWLock!Init
BY DEF Init, RWLock!Init, Readers, Writer, Held

(* Every step of a thread is, to the abstract lock, one of five kinds.     *)
LEMMA Unseen ==
  ASSUME IInv, IInv', NEW t \in Threads, NEW label, pc' = [pc EXCEPT ![t] = label],
         pc[t] \in Held <=> label \in Held, pc[t] # "writing", label # "writing"
  PROVE  UNCHANGED <<Readers, Writer>>
<1>1. \A u \in Threads : pc'[u] = "writing" <=> pc[u] = "writing"
  BY DEF IInv, TypeOK
<1>2. Writer' = Writer
  BY <1>1, WriterValue DEF IInv, MutualExclusion, Writer
<1>. QED  BY <1>2 DEF IInv, TypeOK, Readers

LEMMA BecomesReader ==
  ASSUME IInv, IInv', NEW t \in Threads, pc' = [pc EXCEPT ![t] = "reading"],
         pc[t] \notin Held, pc[t] # "writing"
  PROVE  RWLock!AcquireRead(t)
<1>1. \A u \in Threads : pc[u] # "writing" /\ pc'[u] # "writing"
  BY DEF IInv, TypeOK, MutualExclusion, Held
<1>2. Writer = None /\ Writer' = None
  BY <1>1 DEF Writer
<1>3. Readers' = Readers \cup {t} /\ t \notin Readers
  BY DEF IInv, TypeOK, Readers, Held
<1>. QED  BY <1>2, <1>3 DEF RWLock!AcquireRead

LEMMA StopsReading ==
  ASSUME IInv, IInv', NEW t \in Threads, pc' = [pc EXCEPT ![t] = "idle"], pc[t] = "reading"
  PROVE  RWLock!ReleaseRead(t)
<1>1. \A u \in Threads : pc'[u] = "writing" <=> pc[u] = "writing"
  BY DEF IInv, TypeOK
<1>2. Writer' = Writer
  BY <1>1, WriterValue DEF IInv, MutualExclusion, Writer
<1>3. Readers' = Readers \ {t} /\ t \in Readers
  BY DEF IInv, TypeOK, Readers, Held
<1>. QED  BY <1>2, <1>3 DEF RWLock!ReleaseRead

LEMMA BecomesWriter ==
  ASSUME IInv, IInv', NEW t \in Threads, pc' = [pc EXCEPT ![t] = "writing"], pc[t] # "writing"
  PROVE  RWLock!AcquireWrite(t) \/ RWLock!Upgrade(t)
<1>1. \A u \in Threads : /\ pc[u] # "writing"
                         /\ u # t => pc[u] \notin Held /\ pc'[u] \notin Held
  BY DEF IInv, TypeOK, MutualExclusion
<1>2. Writer = None
  BY <1>1 DEF Writer
<1>3. Writer' = t
  BY DEF IInv, TypeOK, MutualExclusion, Writer
<1>4. Readers' = {}
  BY <1>1 DEF IInv, TypeOK, Readers, Held
<1>5. CASE pc[t] \in Held
  <2>1. Readers = {t}
    BY <1>1, <1>5 DEF Readers
  <2>. QED  BY <1>2, <1>3, <1>4, <2>1 DEF RWLock!Upgrade
<1>6. CASE pc[t] \notin Held
  <2>1. Readers = {}
    BY <1>1, <1>6 DEF Readers
  <2>. QED  BY <1>2, <1>3, <1>4, <2>1 DEF RWLock!AcquireWrite
<1>. QED  BY <1>5, <1>6

LEMMA StopsWriting ==
  ASSUME IInv, IInv', NEW t \in Threads, NEW label \in {"idle", "reading"},
         pc' = [pc EXCEPT ![t] = label], pc[t] = "writing"
  PROVE  RWLock!ReleaseWrite(t) \/ RWLock!Downgrade(t)
<1>1. Writer = t /\ Readers = {}
  BY WriterValue DEF IInv, MutualExclusion, Readers, Held
<1>2. Writer' = None
  BY DEF IInv, TypeOK, MutualExclusion, Writer
<1>3. Writer # None
  BY <1>1, SpinAssumptions
<1>4. Readers' = IF label = "reading" THEN {t} ELSE {}
  BY <1>1 DEF IInv, TypeOK, Readers, Held
<1>. QED  BY <1>1, <1>2, <1>4 DEF RWLock!ReleaseWrite, RWLock!Downgrade

LEMMA NextRefines == IInv /\ IInv' /\ [Next]_vars => [RWLock!Next]_<<Readers, Writer>>
<1> SUFFICES ASSUME IInv, IInv', Next
             PROVE  RWLock!Next \/ UNCHANGED <<Readers, Writer>>
  BY DEF vars, Readers, Writer
<1>1. PICK t \in Threads : Begin(t) \/ Acquire(t) \/ Release(t) \/ DowngradeToReader(t)
  BY DEF Next
<1>2. CASE Begin(t)
  BY <1>2, Unseen DEF Begin, Start, Held
<1>3. CASE AddReader(t)
  BY <1>3, Unseen, BecomesReader DEF AddReader, Goto, Held, RWLock!Next
<1>4. CASE UndoRead(t) \/ ReadAgain(t) \/ FlagTaken(t) \/ WriteAgain(t)
  BY <1>4, Unseen DEF UndoRead, ReadAgain, FlagTaken, WriteAgain, Goto, Held
<1>5. CASE SetFlag(t)
  BY <1>5, Unseen, BecomesWriter DEF SetFlag, Goto, Held, RWLock!Next
<1>6. CASE ReadersGone(t)
  BY <1>6, BecomesWriter DEF ReadersGone, Goto, RWLock!Next
<1>7. CASE UpgradeSetFlag(t) \/ UpgradeFlagTaken(t)
  BY <1>7, Unseen DEF UpgradeSetFlag, UpgradeFlagTaken, Goto, Held
<1>8. CASE UpgradeSubReader(t)
  BY <1>8, Unseen, BecomesWriter DEF UpgradeSubReader, Goto, Held, RWLock!Next
<1>9. CASE ReleaseRead(t)
  BY <1>9, StopsReading DEF ReleaseRead, Goto, RWLock!Next
<1>10. CASE ReleaseWrite(t) \/ DowngradeToReader(t)
  BY <1>10, StopsWriting DEF ReleaseWrite, DowngradeToReader, Goto, RWLock!Next
<1>. QED
  BY <1>1, <1>2, <1>3, <1>4, <1>5, <1>6, <1>7, <1>8, <1>9, <1>10 DEF Acquire, Release

(* The spin lock implements the readers-writer lock: what looks like one   *)
(* acquisition to its clients is one, and an upgrade never loses the lock. *)
THEOREM Refinement == Spec => ImplementsRWLock
<1>1. Spec => []IInv
  BY Invariant
<1>. QED  BY <1>1, InitRefines, NextRefines, PTL DEF Spec, ImplementsRWLock, RWLock!Spec

-----------------------------------------------------------------------------
(***************************************************************************)
(* HdRenderThread.  The mutex alone does not keep edits and the callback   *)
(* apart, for StopRender does not take it when IsRendering tells of no     *)
(* render: that answer has to stay right until the edit ends.              *)
(***************************************************************************)
LEMMA RenderInit == RT!RenderAssumptions /\ RT!Init => RT!IInv
<1> SUFFICES ASSUME RT!RenderAssumptions, RT!Init PROVE RT!IInv
  OBVIOUS
<1>1. RT!TypeOK
  BY DEF RT!Init, RT!TypeOK, RT!RenderLabels, RT!HydraLabels
<1>2. RT!RenderIsKnown /\ RT!MainExcludesStops /\ RT!StopsArePending
  BY DEF RT!Init, RT!RenderAssumptions, RT!RenderIsKnown, RT!InRender, RT!Callback,
         RT!MainExcludesStops, RT!StopsArePending
<1>. QED  BY <1>1, <1>2 DEF RT!IInv

(* Main's calls that no other call overlaps.                               *)
LEMMA BeginAloneStep ==
  ASSUME RT!IInv, RT!StartThread \/ RT!StopThread \/ RT!StartRender
  PROVE  RT!IInv'
<1>1. RT!TypeOK'
  BY DEF RT!StartThread, RT!StopThread, RT!StartRender, RT!Goto, RT!stateVars,
         RT!pauseVars, RT!IInv, RT!TypeOK, RT!RenderLabels, RT!HydraLabels,
         RT!RenderAssumptions
<1>2. RT!RenderIsKnown'
  BY DEF RT!StartThread, RT!StopThread, RT!StartRender, RT!Goto, RT!MainAlone,
         RT!stateVars, RT!pauseVars, RT!IInv, RT!TypeOK, RT!RenderAssumptions,
         RT!RenderIsKnown, RT!InRender, RT!Callback
<1>3. RT!MainExcludesStops'
  BY DEF RT!StartThread, RT!StopThread, RT!StartRender, RT!Goto, RT!MainAlone,
         RT!IInv, RT!TypeOK, RT!RenderAssumptions, RT!MainExcludesStops
<1>4. RT!StopsArePending'
  <2>1. CASE RT!StartThread \/ RT!StartRender
    BY <2>1
    DEF RT!StartThread, RT!StartRender, RT!Goto, RT!MainAlone, RT!stateVars,
        RT!pauseVars, RT!IInv, RT!TypeOK, RT!RenderAssumptions, RT!StopsArePending,
        RT!RenderIsKnown, RT!InRender, RT!Callback
  <2>2. CASE RT!StopThread
    <3>1. hydraPc'[Main] = "termLock" /\ Main \in HydraThreads
      BY <2>2 DEF RT!StopThread, RT!Goto, RT!IInv, RT!TypeOK, RT!RenderAssumptions
    <3>. QED  BY <2>2, <3>1 DEF RT!StopThread, RT!IInv, RT!StopsArePending,
                                RT!InRender
  <2>. QED  BY <2>1, <2>2
<1>. QED  BY <1>1, <1>2, <1>3, <1>4 DEF RT!IInv, RT!RenderAssumptions

LEMMA MainCallStep ==
  ASSUME RT!IInv, RT!MainCall
  PROVE  RT!IInv'
<1>1. Main \in HydraThreads /\ Render # None
  BY DEF RT!IInv, RT!RenderAssumptions
<1>2. RT!TypeOK'
  BY <1>1
  DEF RT!MainCall, RT!Terminate, RT!Join, RT!RequestRender, RT!PauseStore, RT!Goto,
      RT!Notify, RT!stateVars, RT!pauseVars, RT!IInv, RT!TypeOK, RT!RenderLabels,
      RT!HydraLabels
<1>3. RT!RenderIsKnown'
  <2>1. CASE RT!Terminate
    BY <1>1, <2>1
    DEF RT!Terminate, RT!Goto, RT!Notify, RT!pauseVars, RT!IInv, RT!TypeOK,
        RT!RenderIsKnown, RT!InRender, RT!Callback
  <2>2. CASE RT!Join
    BY <1>1, <2>2
    DEF RT!Join, RT!Goto, RT!stateVars, RT!pauseVars, RT!IInv, RT!TypeOK,
        RT!RenderIsKnown, RT!InRender, RT!Callback
  <2>3. CASE RT!RequestRender
    BY <1>1, <2>3
    DEF RT!RequestRender, RT!Goto, RT!Notify, RT!pauseVars, RT!IInv, RT!TypeOK,
        RT!RenderIsKnown, RT!InRender, RT!Callback, RT!MainExcludesStops
  <2>4. CASE RT!PauseStore
    BY <1>1, <2>4
    DEF RT!PauseStore, RT!Goto, RT!stateVars, RT!IInv, RT!TypeOK, RT!RenderIsKnown,
        RT!InRender, RT!Callback
  <2>. QED  BY <2>1, <2>2, <2>3, <2>4 DEF RT!MainCall
<1>4. RT!MainExcludesStops'
  BY <1>1
  DEF RT!MainCall, RT!Terminate, RT!Join, RT!RequestRender, RT!PauseStore, RT!Goto,
      RT!IInv, RT!TypeOK, RT!MainExcludesStops
<1>5. RT!StopsArePending'
  <2>1. CASE RT!Terminate \/ RT!RequestRender
    BY <1>1, <2>1
    DEF RT!Terminate, RT!RequestRender, RT!Goto, RT!IInv, RT!TypeOK, RT!RenderIsKnown,
        RT!InRender, RT!StopsArePending
  <2>2. CASE RT!Join \/ RT!PauseStore
    BY <1>1, <2>2
    DEF RT!Join, RT!PauseStore, RT!Goto, RT!stateVars, RT!IInv, RT!TypeOK,
        RT!RenderIsKnown, RT!InRender, RT!Callback, RT!StopsArePending
  <2>. QED  BY <2>1, <2>2 DEF RT!MainCall
<1>. QED  BY <1>2, <1>3, <1>4, <1>5 DEF RT!IInv, RT!RenderAssumptions

LEMMA PauseRenderStep ==
  ASSUME RT!IInv, RT!PauseRender
  PROVE  RT!IInv'
<1>1. PICK label \in {"pauseStore", "resumeStore"} :
        /\ hydraPc[Main] = "idle" /\ Main \in HydraThreads
        /\ hydraPc' = [hydraPc EXCEPT ![Main] = label]
        /\ pauseDirty' = TRUE /\ UNCHANGED <<RT!stateVars, pauseRender, pauseKnown, renderPc>>
  BY DEF RT!PauseRender, RT!Goto, RT!IInv, RT!RenderAssumptions
<1>2. RT!TypeOK' /\ RT!RenderIsKnown' /\ RT!MainExcludesStops'
  BY <1>1
  DEF RT!stateVars, RT!IInv, RT!TypeOK, RT!HydraLabels, RT!RenderIsKnown, RT!InRender,
      RT!MainExcludesStops
<1>3. RT!StopsArePending'
  BY <1>1 DEF RT!stateVars, RT!IInv, RT!TypeOK, RT!InRender, RT!StopsArePending
<1>. QED  BY <1>2, <1>3 DEF RT!IInv, RT!RenderAssumptions

LEMMA StopRenderStep ==
  ASSUME RT!IInv, NEW h \in HydraThreads, RT!StopRender(h) \/ RT!Hydra(h)
  PROVE  RT!IInv'
<1>1. RT!TypeOK'
  BY DEF RT!StopRender, RT!Hydra, RT!ClearEnable, RT!RequestIdle, RT!EndEdit, RT!Goto,
         RT!stateVars, RT!pauseVars, RT!IInv, RT!TypeOK, RT!HydraLabels
<1>2. RT!RenderIsKnown'
  <2>1. CASE RT!StopRender(h)
    BY <2>1
    DEF RT!StopRender, RT!Goto, RT!stateVars, RT!pauseVars, RT!IInv, RT!TypeOK,
        RT!RenderIsKnown, RT!InRender
  <2>2. CASE RT!ClearEnable(h) \/ RT!EndEdit(h)
    BY <2>2
    DEF RT!ClearEnable, RT!EndEdit, RT!Goto, RT!stateVars, RT!pauseVars, RT!IInv,
        RT!TypeOK, RT!RenderIsKnown, RT!InRender
  <2>3. CASE RT!RequestIdle(h)
    BY <2>3
    DEF RT!RequestIdle, RT!Goto, RT!pauseVars, RT!IInv, RT!TypeOK, RT!RenderIsKnown,
        RT!InRender, RT!RenderAssumptions
  <2>. QED  BY <2>1, <2>2, <2>3 DEF RT!Hydra
<1>3. RT!MainExcludesStops'
  BY DEF RT!StopRender, RT!Hydra, RT!ClearEnable, RT!RequestIdle, RT!EndEdit, RT!Goto,
         RT!IInv, RT!TypeOK, RT!RenderAssumptions, RT!MainExcludesStops
<1>4. RT!StopsArePending'
  <2>1. CASE RT!ClearEnable(h)
    <3>1. hydraPc'[h] = "stopLock"
      BY <2>1 DEF RT!ClearEnable, RT!Goto, RT!IInv, RT!TypeOK
    <3>. QED  BY <2>1, <3>1 DEF RT!ClearEnable, RT!IInv, RT!InRender,
                                RT!StopsArePending
  <2>2. CASE RT!RequestIdle(h)
    BY <2>2
    DEF RT!RequestIdle, RT!IInv, RT!RenderIsKnown, RT!InRender, RT!RenderAssumptions,
        RT!StopsArePending
  <2>3. CASE RT!StopRender(h) \/ RT!EndEdit(h)
    BY <2>3
    DEF RT!StopRender, RT!EndEdit, RT!Goto, RT!stateVars, RT!pauseVars, RT!IInv,
        RT!TypeOK, RT!InRender, RT!StopsArePending
  <2>. QED  BY <2>1, <2>2, <2>3 DEF RT!Hydra
<1>. QED  BY <1>1, <1>2, <1>3, <1>4 DEF RT!IInv, RT!RenderAssumptions

(* The render thread's steps, inside the callback and around it.           *)
LEMMA RenderLoopStep ==
  ASSUME RT!IInv, RT!RenderLoop \/ RT!SpuriousWakeup
  PROVE  RT!IInv'
<1>1. RT!TypeOK'
  <2>1. CASE RT!SpuriousWakeup \/ RT!WaitWhileIdle \/ RT!Exit \/ RT!CallRender
             \/ RT!CallbackReturned \/ RT!BecomeIdle
    BY <2>1
    DEF RT!SpuriousWakeup, RT!WaitWhileIdle, RT!Exit, RT!CallRender,
        RT!CallbackReturned, RT!BecomeIdle, RT!stateVars, RT!pauseVars, RT!IInv,
        RT!TypeOK, RT!RenderLabels, RT!Callback
  <2>2. CASE RT!IsPauseDirty \/ RT!IsPauseRequested
    BY <2>2
    DEF RT!IsPauseDirty, RT!IsPauseRequested, RT!stateVars, RT!pauseVars, RT!IInv,
        RT!TypeOK, RT!RenderLabels, RT!Callback
  <2>3. CASE RT!StopWhilePaused \/ RT!StopOrRender
    <3>1. renderPc' \in RT!RenderLabels /\ enableRender' = TRUE /\ stopRequested' \in BOOLEAN
      BY <2>3
      DEF RT!StopWhilePaused, RT!StopOrRender, RT!IsStopRequested, RT!IInv, RT!TypeOK,
          RT!RenderLabels, RT!Callback
    <3>. QED
      BY <2>3, <3>1 DEF RT!StopWhilePaused, RT!StopOrRender, RT!pauseVars, RT!IInv,
                        RT!TypeOK
  <2>. QED  BY <2>1, <2>2, <2>3 DEF RT!RenderLoop
<1>2. hydraPc' = hydraPc
  BY DEF RT!RenderLoop, RT!SpuriousWakeup, RT!WaitWhileIdle, RT!CallRender,
         RT!CallbackReturned, RT!BecomeIdle, RT!Exit, RT!IsPauseDirty,
         RT!IsPauseRequested, RT!StopWhilePaused, RT!StopOrRender
<1>3. RT!MainExcludesStops'
  BY <1>2 DEF RT!IInv, RT!MainExcludesStops
<1>4. CASE RT!SpuriousWakeup \/ RT!WaitWhileIdle \/ RT!Exit \/ RT!CallRender
             \/ RT!CallbackReturned \/ RT!BecomeIdle
  <2>1. RT!RenderIsKnown'
    BY <1>2, <1>4
    DEF RT!SpuriousWakeup, RT!WaitWhileIdle, RT!Exit, RT!CallRender,
        RT!CallbackReturned, RT!BecomeIdle, RT!stateVars, RT!pauseVars, RT!IInv,
        RT!TypeOK, RT!RenderIsKnown, RT!InRender, RT!Callback, RT!RenderAssumptions
  <2>2. RT!StopsArePending'
    BY <1>2, <1>4
    DEF RT!SpuriousWakeup, RT!WaitWhileIdle, RT!Exit, RT!CallRender,
        RT!CallbackReturned, RT!BecomeIdle, RT!stateVars, RT!pauseVars, RT!IInv,
        RT!TypeOK, RT!RenderIsKnown, RT!InRender, RT!Callback, RT!StopsArePending
  <2>. QED  BY <1>1, <1>3, <2>1, <2>2 DEF RT!IInv, RT!RenderAssumptions
<1>5. CASE RT!IsPauseDirty \/ RT!IsPauseRequested \/ RT!StopWhilePaused
             \/ RT!StopOrRender
  <2>1. /\ renderPc \in RT!Callback /\ renderPc' \in RT!Callback \cup {"finish"}
        /\ UNCHANGED <<requestedState, mutex, rendering>>
    BY <1>5
    DEF RT!IsPauseDirty, RT!IsPauseRequested, RT!StopWhilePaused, RT!StopOrRender,
        RT!stateVars, RT!Callback
  <2>2. stopRequested' \/ ~enableRender' => stopRequested \/ ~enableRender
    BY <1>5
    DEF RT!IsPauseDirty, RT!IsPauseRequested, RT!StopWhilePaused, RT!StopOrRender,
        RT!IsStopRequested, RT!stateVars, RT!IInv, RT!TypeOK
  <2>3. RT!RenderIsKnown'
    BY <1>2, <2>1 DEF RT!IInv, RT!RenderIsKnown, RT!InRender
  <2>4. RT!StopsArePending'
    BY <1>2, <2>1, <2>2 DEF RT!IInv, RT!RenderIsKnown, RT!InRender, RT!StopsArePending
  <2>. QED  BY <1>1, <1>3, <2>3, <2>4 DEF RT!IInv, RT!RenderAssumptions
<1>. QED  BY <1>4, <1>5 DEF RT!RenderLoop

LEMMA RenderStutters ==
  ASSUME RT!IInv, UNCHANGED RT!vars PROVE RT!IInv'
BY DEF RT!vars, RT!IInv, RT!TypeOK, RT!RenderIsKnown, RT!InRender,
       RT!MainExcludesStops, RT!StopsArePending, RT!RenderAssumptions

LEMMA RenderNext ==
  ASSUME RT!IInv, [RT!Next]_RT!vars PROVE RT!IInv'
BY BeginAloneStep, MainCallStep, PauseRenderStep, StopRenderStep, RenderLoopStep,
   RenderStutters DEF RT!Next

-----------------------------------------------------------------------------
syncVars == <<part, spinVars, renderVars, layerVars>>

(* Each part steps as its own module says, or not at all.                  *)
LEMMA PartsStep ==
  ASSUME SyncNext PROVE [Next]_vars /\ [RT!Next]_RT!vars
BY DEF SyncNext, LockMoves, RenderMoves, LayersMove, spinVars, renderVars, RT!vars

LEMMA LockIsPart == SyncSpec => Spec
<1>1. SyncInit => Init
  BY DEF SyncInit
<1>2. [SyncNext]_syncVars => [Next]_vars
  BY PartsStep DEF syncVars, spinVars
<1>. QED  BY <1>1, <1>2, PTL DEF SyncSpec, syncVars, Spec

LEMMA RenderInvariant == SyncSpec => []RT!IInv
<1>1. RT!RenderAssumptions
  BY SyncAssumptions DEF SyncAssumptions
<1>2. SyncInit => RT!IInv
  BY <1>1, RenderInit DEF SyncInit
<1>3. RT!IInv /\ [SyncNext]_syncVars => RT!IInv'
  BY PartsStep, RenderNext, RenderStutters DEF syncVars, renderVars, RT!vars
<1>. QED  BY <1>2, <1>3, PTL DEF SyncSpec, syncVars

(* The scene is not edited while the callback renders it, however many     *)
(* threads stop the render at a time.                                      *)
THEOREM EditsExcluded == SyncSpec => []EditsExcludeRendering
<1>1. RT!IInv => EditsExcludeRendering
  BY DEF RT!IInv, RT!RenderIsKnown, RT!EditsExcludeRendering, EditsExcludeRendering
<1>. QED  BY <1>1, RenderInvariant, PTL

(* A callback is told to stop only while somebody waits for it to.         *)
THEOREM StopsRequested == SyncSpec => []StopsAreRequested
<1>1. RT!IInv => StopsAreRequested
  BY DEF RT!IInv, RT!RenderIsKnown, RT!StopsArePending, RT!StopsAreRequested,
         StopsAreRequested
<1>. QED  BY <1>1, RenderInvariant, PTL

(* The lock beside the others: its count and flag are exact, and it        *)
(* implements the readers-writer lock.                                     *)
THEOREM LockKept == SyncSpec => []StateIsExact /\ ImplementsRWLock
BY LockIsPart, ExactState, Refinement, PTL
==============================================================================
