------------------------- MODULE TfBigRWMutex_proofs -------------------------
(***************************************************************************)
(* Proofs about TfBigRWMutex, for any finite set of threads and any number *)
(* of lock states.  Exclusion does not rest on _writerActive: two writers  *)
(* would both own the flag of the first mutex, and a reader of mutex i     *)
(* would be counted in a mutex whose readers the writer has seen gone.     *)
(***************************************************************************)
EXTENDS TfBigRWMutex, FiniteSetTheorems, TLAPS

LEMMA CountedFinite ==
  ASSUME NEW i \in Indices
  PROVE  IsFiniteSet(CountedAt(i)) /\ Cardinality(CountedAt(i)) \in Nat
BY BigAssumptions, FS_Subset, FS_CardinalityType DEF CountedAt

LEMMA NoneCounted ==
  ASSUME NEW i \in Indices, Cardinality(CountedAt(i)) = 0
  PROVE  \A t \in Threads : pc[t] \in Counted => index[t] # i
BY CountedFinite, FS_EmptySet DEF CountedAt

LEMMA InitInvariant == Init => IInv
<1> SUFFICES ASSUME Init PROVE IInv
  OBVIOUS
<1>1. TypeOK
  <2>1. 1 \in Indices
    BY BigAssumptions DEF Indices
  <2>. QED  BY <2>1 DEF Init, TypeOK, Labels, Stages
<1>2. \A i \in Indices : CountedAt(i) = {}
  BY DEF Init, CountedAt, Counted
<1>3. \A i \in Indices : readers[i] = Cardinality(CountedAt(i))
  BY <1>2, FS_EmptySet DEF Init
<1>4. FlagsHaveOneOwner
  BY <1>3 DEF Init, FlagsHaveOneOwner, Flagged
<1>. QED  BY <1>1, <1>4 DEF Init, IInv, Excluded, Flagged

-----------------------------------------------------------------------------
(* A step leaves the counts exact if it changes none, or changes that of   *)
(* one mutex along with the thread's own count.                            *)
Exact == \A i \in Indices : readers[i] = Cardinality(CountedAt(i))

LEMMA SameCounts ==
  ASSUME IInv, \A i \in Indices : readers'[i] = readers[i],
         \A u \in Threads : pc'[u] \in Counted <=> pc[u] \in Counted,
         \A u \in Threads : pc[u] \in Counted => index'[u] = index[u]
  PROVE  Exact'
<1>1. \A i \in Indices : CountedAt(i)' = CountedAt(i)
  BY DEF CountedAt
<1>. QED  BY <1>1 DEF IInv, FlagsHaveOneOwner, Exact

LEMMA OneMoreCounted ==
  ASSUME IInv, NEW t \in Threads, pc[t] \notin Counted, NEW label \in Counted,
         pc' = [pc EXCEPT ![t] = label], index' = index,
         readers' = [readers EXCEPT ![index[t]] = @ + 1]
  PROVE  Exact'
<1> SUFFICES ASSUME NEW i \in Indices
             PROVE  readers'[i] = Cardinality(CountedAt(i)')
  BY DEF Exact
<1>1. CASE i = index[t]
  <2>1. CountedAt(i)' = CountedAt(i) \cup {t} /\ t \notin CountedAt(i)
    BY <1>1 DEF IInv, TypeOK, CountedAt
  <2>2. Cardinality(CountedAt(i)') = Cardinality(CountedAt(i)) + 1
    BY <2>1, CountedFinite, FS_AddElement
  <2>. QED  BY <1>1, <2>2 DEF IInv, TypeOK, FlagsHaveOneOwner
<1>2. CASE i # index[t]
  <2>1. CountedAt(i)' = CountedAt(i)
    BY <1>2 DEF IInv, TypeOK, CountedAt
  <2>. QED  BY <1>2, <2>1 DEF IInv, TypeOK, FlagsHaveOneOwner
<1>. QED  BY <1>1, <1>2

LEMMA OneLessCounted ==
  ASSUME IInv, NEW t \in Threads, pc[t] \in Counted, NEW label, label \notin Counted,
         pc' = [pc EXCEPT ![t] = label], index' = index,
         readers' = [readers EXCEPT ![index[t]] = @ - 1]
  PROVE  Exact' /\ readers' \in [Indices -> Nat]
<1>1. ASSUME NEW i \in Indices
      PROVE  readers'[i] = Cardinality(CountedAt(i)') /\ readers'[i] \in Nat
  <2>1. CASE i = index[t]
    <3>1. CountedAt(i)' = CountedAt(i) \ {t} /\ t \in CountedAt(i)
      BY <2>1 DEF IInv, TypeOK, CountedAt
    <3>2. /\ Cardinality(CountedAt(i)') = Cardinality(CountedAt(i)) - 1
          /\ IsFiniteSet(CountedAt(i)')
      BY <3>1, CountedFinite, FS_RemoveElement
    <3>3. Cardinality(CountedAt(i)') \in Nat
      BY <3>2, FS_CardinalityType
    <3>. QED  BY <2>1, <3>2, <3>3 DEF IInv, TypeOK, FlagsHaveOneOwner
  <2>2. CASE i # index[t]
    <3>1. CountedAt(i)' = CountedAt(i)
      BY <2>2 DEF IInv, TypeOK, CountedAt
    <3>. QED  BY <2>2, <3>1 DEF IInv, TypeOK, FlagsHaveOneOwner
  <2>. QED  BY <2>1, <2>2
<1>2. readers' \in [Indices -> Nat]
  BY <1>1 DEF IInv, TypeOK
<1>. QED  BY <1>1, <1>2 DEF Exact

LEMMA ReadStep ==
  ASSUME IInv, NEW t \in Threads,
         \/ \E i \in Indices : AcquireRead(t, i)
         \/ CheckWriterActive(t) \/ ContendedRead(t) \/ AcquireWrite(t)
         \/ OtherWriterActive(t) \/ WriteAgain(t)
  PROVE  IInv'
<1>1. PICK label \in {"read", "contended", "tryRead", "write", "writeWait"}, i \in Indices :
        /\ pc' = [pc EXCEPT ![t] = label]
        /\ index' = [index EXCEPT ![t] = i]
        /\ pc[t] \in {"idle", "read", "contended", "write", "writeWait"}
        /\ UNCHANGED <<writerActive, readers, flag, stageStates>>
  BY DEF AcquireRead, CheckWriterActive, ContendedRead, AcquireWrite, OtherWriterActive,
         WriteAgain, Goto, IInv, TypeOK, lockStates
<1>2. TypeOK'
  BY <1>1 DEF IInv, TypeOK, Labels
<1>3. Exact'
  BY <1>1, SameCounts DEF IInv, TypeOK, Counted
<1>4. FlagsHaveOneOwner'
  BY <1>1, <1>3 DEF IInv, TypeOK, FlagsHaveOneOwner, Flagged, Exact
<1>5. Excluded'
  BY <1>1 DEF IInv, TypeOK, Excluded, Flagged
<1>. QED  BY <1>2, <1>4, <1>5 DEF IInv

LEMMA TryAcquireReadStep ==
  ASSUME IInv, NEW t \in Threads, TryAcquireRead(t)
  PROVE  IInv'
<1>1. PICK label \in Counted :
        /\ pc' = [pc EXCEPT ![t] = label]
        /\ label = "reading" => ~flag[index[t]]
  BY DEF TryAcquireRead, Goto, Counted
<1>2. TypeOK'
  <2>1. readers' \in [Indices -> Nat]
    BY DEF TryAcquireRead, IInv, TypeOK
  <2>. QED  BY <1>1, <2>1 DEF TryAcquireRead, IInv, TypeOK, Labels
<1>3. Exact'
  BY <1>1, OneMoreCounted DEF TryAcquireRead, Goto, Counted
<1>4. FlagsHaveOneOwner'
  BY <1>1, <1>3
  DEF TryAcquireRead, Goto, IInv, TypeOK, FlagsHaveOneOwner, Flagged, Exact, Counted
<1>5. Excluded'
  BY <1>1
  DEF TryAcquireRead, Goto, IInv, TypeOK, FlagsHaveOneOwner, Excluded, Flagged, Counted
<1>. QED  BY <1>2, <1>4, <1>5 DEF IInv

LEMMA StopCountingStep ==
  ASSUME IInv, NEW t \in Threads, UndoRead(t) \/ ReleaseRead(t) \/ UpgradeToWriter(t)
  PROVE  IInv'
<1>1. PICK label \in {"contended", "idle", "write"} :
        pc' = [pc EXCEPT ![t] = label] /\ pc[t] \in Counted
  BY DEF UndoRead, ReleaseRead, UpgradeToWriter, Goto, Counted
<1>2. /\ readers' = [readers EXCEPT ![index[t]] = @ - 1]
      /\ UNCHANGED <<writerActive, flag, index, stageStates>>
  BY DEF UndoRead, ReleaseRead, UpgradeToWriter
<1>3. Exact' /\ readers' \in [Indices -> Nat]
  BY <1>1, <1>2, OneLessCounted DEF Counted
<1>4. TypeOK'
  BY <1>1, <1>2, <1>3 DEF IInv, TypeOK, Labels
<1>5. FlagsHaveOneOwner'
  BY <1>1, <1>2, <1>3 DEF IInv, TypeOK, FlagsHaveOneOwner, Flagged, Exact, Counted
<1>6. Excluded'
  BY <1>1, <1>2 DEF IInv, TypeOK, Excluded, Flagged, Counted
<1>. QED  BY <1>4, <1>5, <1>6 DEF IInv

LEMMA BecomeActiveStep ==
  ASSUME IInv, NEW t \in Threads, BecomeActive(t)
  PROVE  IInv'
<1>1. 1 \in Indices
  BY BigAssumptions DEF Indices
<1>2. TypeOK'
  BY <1>1 DEF BecomeActive, Goto, lockStates, IInv, TypeOK, Labels, Stages
<1>3. Exact'
  BY SameCounts DEF BecomeActive, Goto, lockStates, IInv, TypeOK, Counted
<1>4. \A u \in Threads, i \in Indices : Flagged(u, i)' <=> Flagged(u, i)
  BY DEF BecomeActive, Goto, lockStates, IInv, TypeOK, Flagged
<1>5. FlagsHaveOneOwner'
  BY <1>3, <1>4 DEF BecomeActive, lockStates, IInv, FlagsHaveOneOwner, Exact
<1>6. Excluded'
  BY <1>4 DEF BecomeActive, Goto, lockStates, IInv, TypeOK, Excluded, Flagged
<1>. QED  BY <1>2, <1>5, <1>6 DEF IInv

(* After a step of the staged acquisition a thread is where it was, or     *)
(* writes and has acquired every mutex.                                    *)
LEMMA Advance ==
  ASSUME IInv, NEW t \in Threads, pc[t] = "stage", AdvanceStage(t)
  PROVE  /\ index' \in [Threads -> Indices]
         /\ \A u \in Threads : u # t => index'[u] = index[u]
         /\ \/ pc' = pc
            \/ /\ pc' = [pc EXCEPT ![t] = "writing"]
               /\ \A i \in Indices : stageStates'[t][i] = "Acquired"
<1>1. index[t] < NumStates => index[t] + 1 \in Indices
  BY BigAssumptions DEF IInv, TypeOK, Indices
<1>2. 1 \in Indices
  BY BigAssumptions DEF Indices
<1>. QED  BY <1>1, <1>2 DEF AdvanceStage, Goto, IInv, TypeOK

LEMMA StageStep ==
  ASSUME IInv, NEW t \in Threads,
         StageSetFlag(t) \/ StageFlagTaken(t) \/ StageReadersGone(t) \/ StageDone(t)
  PROVE  IInv'
<1> DEFINE i == index[t]
<1>1. PICK stage \in Stages, f \in BOOLEAN :
        /\ pc[t] = "stage" /\ AdvanceStage(t)
        /\ UNCHANGED <<writerActive, readers>>
        /\ flag' = [flag EXCEPT ![i] = f]
        /\ stageStates' = [stageStates EXCEPT ![t] = [stageStates[t] EXCEPT ![i] = stage]]
        /\ f <=> flag[i] \/ stage # "NotAcquired"
        /\ flag[i] => (stage = "NotAcquired" <=> stageStates[t][i] = "NotAcquired")
        /\ stage = "Acquired" => stageStates[t][i] = "Acquired" \/ readers[i] = 0
  <2>1. CASE StageSetFlag(t)
    BY <2>1 DEF StageSetFlag, IInv, TypeOK, Stages
  <2>2. CASE StageFlagTaken(t)
    BY <2>2 DEF StageFlagTaken, lockStates, IInv, TypeOK, Stages
  <2>3. CASE StageReadersGone(t) \/ StageDone(t)
    <3>1. flag[i]
      BY <2>3 DEF StageReadersGone, StageDone, IInv, TypeOK, FlagsHaveOneOwner, Flagged
    <3>. QED  BY <2>3, <3>1 DEF StageReadersGone, StageDone, lockStates, IInv, TypeOK, Stages
  <2>. QED  BY <2>1, <2>2, <2>3
<1>2. /\ index' \in [Threads -> Indices]
      /\ \A u \in Threads : u # t => index'[u] = index[u]
      /\ \/ pc' = pc
         \/ /\ pc' = [pc EXCEPT ![t] = "writing"]
            /\ \A j \in Indices : stageStates'[t][j] = "Acquired"
  BY <1>1, Advance
<1>3. i \in Indices
  BY DEF IInv, TypeOK
<1>4. TypeOK'
  BY <1>1, <1>2, <1>3 DEF IInv, TypeOK, Labels
<1>5. Exact'
  BY <1>1, <1>2, SameCounts DEF IInv, TypeOK, Counted
<1>6. ASSUME NEW j \in Indices
      PROVE  /\ Flagged(t, j)' <=> stageStates'[t][j] # "NotAcquired"
             /\ Flagged(t, j) <=> stageStates[t][j] # "NotAcquired"
             /\ \A u \in Threads : u # t => (Flagged(u, j)' <=> Flagged(u, j))
  BY <1>1, <1>2, <1>3 DEF IInv, TypeOK, Flagged
<1>7. FlagsHaveOneOwner'
  BY <1>1, <1>3, <1>5, <1>6 DEF IInv, TypeOK, FlagsHaveOneOwner, Exact
<1>8. ASSUME NEW j \in Indices, stageStates'[t][j] = "Acquired", NEW u \in Threads,
             pc'[u] = "reading", index'[u] = j
      PROVE  FALSE
  <2>1. u # t /\ pc[u] = "reading" /\ index[u] = j
    BY <1>1, <1>2, <1>8 DEF IInv, TypeOK
  <2>2. stageStates[t][j] # "Acquired"
    BY <1>1, <2>1 DEF IInv, Excluded, Flagged
  <2>3. j = i /\ readers[j] = 0
    BY <1>1, <1>3, <1>8, <2>2 DEF IInv, TypeOK
  <2>. QED  BY <2>1, <2>3, NoneCounted DEF IInv, FlagsHaveOneOwner, Counted
<1>9. ASSUME NEW v \in Threads, NEW u \in Threads, NEW j \in Indices, Flagged(v, j)',
             pc'[v] = "stage" => stageStates'[v][j] = "Acquired",
             pc'[u] = "reading", index'[u] = j
      PROVE  FALSE
  <2>1. CASE v = t
    <3>1. stageStates'[t][j] = "Acquired"
      BY <1>1, <1>2, <1>9, <2>1 DEF Flagged, IInv, TypeOK
    <3>. QED  BY <1>8, <1>9, <3>1
  <2>2. CASE v # t
    <3>1. Flagged(v, j) /\ (pc[v] = "stage" => stageStates[v][j] = "Acquired")
      BY <1>1, <1>2, <1>6, <1>9, <2>2 DEF IInv, TypeOK
    <3>2. pc[u] = "reading" /\ index[u] = j
      BY <1>1, <1>2, <1>9 DEF IInv, TypeOK
    <3>. QED  BY <3>1, <3>2 DEF IInv, Excluded
  <2>. QED  BY <2>1, <2>2
<1>10. Excluded'
  BY <1>9 DEF Excluded
<1>. QED  BY <1>4, <1>7, <1>10 DEF IInv

LEMMA ReleaseWriteStep ==
  ASSUME IInv, NEW t \in Threads, ReleaseWrite(t)
  PROVE  IInv'
<1>1. 1 \in Indices /\ \A i \in Indices : 1 <= i
  BY BigAssumptions DEF Indices
<1>2. TypeOK'
  BY <1>1 DEF ReleaseWrite, Goto, lockStates, IInv, TypeOK, Labels
<1>3. Exact'
  BY SameCounts DEF ReleaseWrite, Goto, lockStates, IInv, TypeOK, Counted
<1>4. \A u \in Threads, i \in Indices : Flagged(u, i)' <=> Flagged(u, i)
  BY <1>1 DEF ReleaseWrite, Goto, lockStates, IInv, TypeOK, Flagged
<1>5. FlagsHaveOneOwner'
  BY <1>3, <1>4 DEF ReleaseWrite, lockStates, IInv, FlagsHaveOneOwner, Exact
<1>6. Excluded'
  BY <1>4 DEF ReleaseWrite, Goto, lockStates, IInv, TypeOK, Excluded
<1>. QED  BY <1>2, <1>5, <1>6 DEF IInv

LEMMA ReleaseStateStep ==
  ASSUME IInv, NEW t \in Threads, ReleaseState(t)
  PROVE  IInv'
<1>1. index[t] \in Indices /\ (index[t] < NumStates => index[t] + 1 \in Indices)
  BY BigAssumptions DEF IInv, TypeOK, Indices
<1>2. TypeOK'
  BY <1>1 DEF ReleaseState, Goto, IInv, TypeOK, Labels
<1>3. Exact'
  BY SameCounts DEF ReleaseState, Goto, IInv, TypeOK, Counted
<1>4. ASSUME NEW i \in Indices
      PROVE  /\ Flagged(t, i)' <=> Flagged(t, i) /\ i # index[t]
             /\ \A u \in Threads : u # t => (Flagged(u, i)' <=> Flagged(u, i))
  BY <1>1, BigAssumptions DEF ReleaseState, Goto, IInv, TypeOK, Flagged, Indices
<1>5. Flagged(t, index[t])
  BY <1>1 DEF ReleaseState, Flagged, Indices
<1>6. FlagsHaveOneOwner'
  BY <1>1, <1>3, <1>4, <1>5 DEF ReleaseState, IInv, TypeOK, FlagsHaveOneOwner, Exact
<1>7. Excluded'
  BY <1>4 DEF ReleaseState, Goto, IInv, TypeOK, Excluded
<1>. QED  BY <1>2, <1>6, <1>7 DEF IInv

LEMMA NextInvariant == IInv /\ [Next]_vars => IInv'
<1> SUFFICES ASSUME IInv, [Next]_vars PROVE IInv'
  OBVIOUS
<1>1. CASE Next
  BY <1>1, ReadStep, TryAcquireReadStep, StopCountingStep, BecomeActiveStep, StageStep,
     ReleaseWriteStep, ReleaseStateStep DEF Next, Begin, Run, Release
<1>2. CASE UNCHANGED vars
  <2>1. TypeOK'
    BY <1>2 DEF vars, IInv, TypeOK
  <2>2. FlagsHaveOneOwner'
    <3>1. \A i \in Indices : CountedAt(i)' = CountedAt(i)
      BY <1>2 DEF vars, CountedAt
    <3>2. \A t \in Threads, i \in Indices : Flagged(t, i)' <=> Flagged(t, i)
      BY <1>2 DEF vars, Flagged
    <3>. QED  BY <1>2, <3>1, <3>2 DEF vars, IInv, FlagsHaveOneOwner
  <2>3. Excluded'
    BY <1>2 DEF vars, IInv, Excluded, Flagged
  <2>. QED  BY <2>1, <2>2, <2>3 DEF IInv
<1>. QED  BY <1>1, <1>2

LEMMA Invariant == Spec => []IInv
BY InitInvariant, NextInvariant, PTL DEF Spec

(* Each mutex's flag has one owner and its count is exact, although the    *)
(* next writer begins before the one before has released all of them.      *)
THEOREM OneOwner == Spec => []FlagsHaveOneOwner
BY Invariant, PTL DEF IInv

LEMMA InvariantExcludes == IInv => MutualExclusion
<1>1. 1 \in Indices
  BY BigAssumptions DEF Indices
<1>. QED  BY <1>1 DEF IInv, TypeOK, FlagsHaveOneOwner, Excluded, Flagged, MutualExclusion

(* A writer is alone, for any number of threads and lock states.           *)
THEOREM Exclusion == Spec => []MutualExclusion
BY Invariant, InvariantExcludes, PTL

-----------------------------------------------------------------------------
(* The refinement: which steps are seen by the clients of the lock.        *)
LEMMA WriterValue ==
  ASSUME IInv, NEW t \in Threads, pc[t] = "writing"
  PROVE  Writer = t /\ Readers = {}
BY InvariantExcludes DEF Writer, Readers, MutualExclusion

LEMMA NoWriter ==
  ASSUME \A t \in Threads : pc[t] # "writing"
  PROVE  Writer = None
BY DEF Writer

Seen == {"reading", "writing"}

LEMMA Unseen ==
  ASSUME IInv, NEW t \in Threads, NEW label, label \notin Seen, pc[t] \notin Seen,
         pc' = pc \/ pc' = [pc EXCEPT ![t] = label]
  PROVE  UNCHANGED <<Readers, Writer>>
<1>1. \A u \in Threads : /\ pc'[u] = "writing" <=> pc[u] = "writing"
                         /\ pc'[u] = "reading" <=> pc[u] = "reading"
  BY DEF IInv, TypeOK, Seen
<1>. QED  BY <1>1 DEF Readers, Writer

LEMMA BecomesReader ==
  ASSUME IInv, MutualExclusion', NEW t \in Threads, pc' = [pc EXCEPT ![t] = "reading"],
         pc[t] \notin Seen
  PROVE  RWLock!AcquireRead(t)
<1>1. \A u \in Threads : pc'[u] # "writing" /\ pc[u] # "writing"
  <2>1. pc'[t] = "reading"
    BY DEF IInv, TypeOK
  <2>2. \A u \in Threads : pc'[u] # "writing"
    BY <2>1 DEF IInv, TypeOK, MutualExclusion
  <2>. QED  BY <2>2 DEF IInv, TypeOK, Seen
<1>2. Writer = None /\ Writer' = None
  BY <1>1 DEF Writer
<1>3. Readers' = Readers \cup {t} /\ t \notin Readers
  BY DEF IInv, TypeOK, Readers, Seen
<1>. QED  BY <1>2, <1>3 DEF RWLock!AcquireRead

LEMMA StopsReading ==
  ASSUME IInv, NEW t \in Threads, NEW label, label \notin Seen,
         pc' = [pc EXCEPT ![t] = label], pc[t] = "reading"
  PROVE  RWLock!ReleaseRead(t)
<1>1. \A u \in Threads : pc'[u] = "writing" <=> pc[u] = "writing"
  BY DEF IInv, TypeOK, Seen
<1>2. Writer' = Writer
  BY <1>1 DEF Writer
<1>3. Readers' = Readers \ {t} /\ t \in Readers
  BY DEF IInv, TypeOK, Readers, Seen
<1>. QED  BY <1>2, <1>3 DEF RWLock!ReleaseRead

LEMMA BecomesWriter ==
  ASSUME IInv, MutualExclusion', NEW t \in Threads, pc' = [pc EXCEPT ![t] = "writing"],
         pc[t] \notin Seen
  PROVE  RWLock!AcquireWrite(t)
<1>1. pc'[t] = "writing" /\ \A u \in Threads : u # t => pc'[u] = pc[u]
  BY DEF IInv, TypeOK
<1>2. \A u \in Threads : u # t => pc'[u] \notin Seen
  BY <1>1 DEF MutualExclusion, Seen
<1>3. \A u \in Threads : pc[u] \notin Seen
  BY <1>1, <1>2
<1>4. Writer = None /\ Readers = {}
  BY <1>3, NoWriter DEF Readers, Seen
<1>5. Writer' = t
  BY <1>1, <1>2 DEF Writer, Seen
<1>6. Readers' = {}
  BY <1>1, <1>2 DEF Readers, Seen
<1>. QED  BY <1>4, <1>5, <1>6 DEF RWLock!AcquireWrite

LEMMA StopsWriting ==
  ASSUME IInv, NEW t \in Threads, NEW label, label \notin Seen,
         pc' = [pc EXCEPT ![t] = label], pc[t] = "writing"
  PROVE  RWLock!ReleaseWrite(t)
<1>1. Writer = t /\ Readers = {}
  BY WriterValue
<1>2. \A u \in Threads : pc'[u] \notin Seen
  <2>1. \A u \in Threads : u # t => pc[u] \notin Seen
    BY InvariantExcludes DEF MutualExclusion, Seen
  <2>. QED  BY <2>1 DEF IInv, TypeOK
<1>3. Writer' = None /\ Readers' = {}
  BY <1>2 DEF Writer, Readers, Seen
<1>. QED  BY <1>1, <1>3 DEF RWLock!ReleaseWrite

LEMMA InitRefines == Init => RWLock!Init
BY NoWriter DEF Init, RWLock!Init, Readers

LEMMA NextRefines == IInv /\ MutualExclusion' /\ [Next]_vars => [RWLock!Next]_<<Readers, Writer>>
<1> SUFFICES ASSUME IInv, MutualExclusion', Next
             PROVE  RWLock!Next \/ UNCHANGED <<Readers, Writer>>
  BY DEF vars, Readers, Writer
<1>1. PICK t \in Threads : Begin(t) \/ Run(t) \/ Release(t)
  BY DEF Next
<1>2. CASE Begin(t)
  BY <1>2, Unseen DEF Begin, AcquireWrite, AcquireRead, Goto, Seen
<1>3. CASE CheckWriterActive(t) \/ ContendedRead(t) \/ UndoRead(t)
  BY <1>3, Unseen DEF CheckWriterActive, ContendedRead, UndoRead, Goto, Seen
<1>4. CASE TryAcquireRead(t)
  <2>1. /\ pc[t] \notin Seen
        /\ \/ pc' = [pc EXCEPT ![t] = "undoRead"]
           \/ pc' = [pc EXCEPT ![t] = "reading"]
    BY <1>4 DEF TryAcquireRead, Goto, Seen
  <2>2. "undoRead" \notin Seen
    BY DEF Seen
  <2>3. CASE pc' = [pc EXCEPT ![t] = "undoRead"]
    BY <2>1, <2>2, <2>3, Unseen
  <2>4. CASE pc' = [pc EXCEPT ![t] = "reading"]
    BY <2>1, <2>4, BecomesReader DEF RWLock!Next
  <2>. QED  BY <2>1, <2>3, <2>4
<1>5. CASE BecomeActive(t) \/ OtherWriterActive(t) \/ WriteAgain(t)
  BY <1>5, Unseen DEF BecomeActive, OtherWriterActive, WriteAgain, Goto, Seen
<1>6. CASE StageSetFlag(t) \/ StageFlagTaken(t) \/ StageReadersGone(t) \/ StageDone(t)
  <2>1. pc[t] = "stage" /\ AdvanceStage(t)
    BY <1>6 DEF StageSetFlag, StageFlagTaken, StageReadersGone, StageDone
  <2>2. pc' = pc \/ pc' = [pc EXCEPT ![t] = "writing"]
    BY <2>1, Advance
  <2>3. "stage" \notin Seen
    BY DEF Seen
  <2>4. pc' = pc => UNCHANGED <<Readers, Writer>>
    BY <2>1, <2>3, Unseen
  <2>. QED  BY <2>1, <2>2, <2>3, <2>4, BecomesWriter DEF RWLock!Next
<1>7. CASE ReleaseState(t)
  <2>1. pc[t] = "release" /\ (pc' = pc \/ pc' = [pc EXCEPT ![t] = "idle"])
    BY <1>7 DEF ReleaseState, Goto
  <2>. QED  BY <2>1, Unseen DEF Seen
<1>8. CASE ReleaseRead(t) \/ UpgradeToWriter(t)
  BY <1>8, StopsReading DEF ReleaseRead, UpgradeToWriter, Goto, Seen, RWLock!Next
<1>9. CASE ReleaseWrite(t)
  BY <1>9, StopsWriting DEF ReleaseWrite, Goto, Seen, RWLock!Next
<1>. QED
  BY <1>1, <1>2, <1>3, <1>4, <1>5, <1>6, <1>7, <1>8, <1>9 DEF Run, Release

(* The big lock implements the readers-writer lock: the stages of an       *)
(* acquisition and the releases one by one look like one step each.        *)
THEOREM Refinement == Spec => ImplementsRWLock
<1>1. Spec => []IInv
  BY Invariant
<1>. QED  BY <1>1, Exclusion, InitRefines, NextRefines, PTL DEF Spec, ImplementsRWLock, RWLock!Spec
=============================================================================
