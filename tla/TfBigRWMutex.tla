---------------------------- MODULE TfBigRWMutex ----------------------------
(***************************************************************************)
(* TfBigRWMutex (pxr/base/tf/bigRWMutex.h, .cpp): an array of              *)
(* TfSpinRWMutexes.  A reader locks one of them, a writer all of them, by  *)
(* the staged acquisition of spinRWMutex.h that does not wait for the      *)
(* readers of one before it takes the next.  _writerActive keeps writers   *)
(* apart and readers away, but it is cleared before the mutexes are        *)
(* released, so the next writer's acquisition overlaps the release.        *)
(***************************************************************************)
EXTENDS Integers, FiniteSets

CONSTANTS
  Threads,
  None,
  NumStates    \* the number of lock states, 16 in the code

ASSUME BigAssumptions ==
  /\ IsFiniteSet(Threads)
  /\ None \notin Threads
  /\ NumStates \in Nat \ {0}

Indices == 1 .. NumStates

VARIABLES
  writerActive,  \* _writerActive
  readers, flag, \* _states: the readers and the WriterFlag that make up the
                 \* _lockState of each TfSpinRWMutex
  pc,            \* where each thread is
  index,         \* a reader's stateIndex; where a writer's loop is
  stageStates    \* stageStates of a thread that acquires the write locks

lockStates == <<readers, flag>>
vars == <<writerActive, readers, flag, pc, index, stageStates>>

Counted == {"undoRead", "reading"}
Labels  == {"idle", "read", "tryRead", "contended", "write", "writeWait",
            "stage", "writing", "release"} \cup Counted
Stages  == {"NotAcquired", "Acquiring", "Acquired"}

TypeOK ==
  /\ writerActive \in BOOLEAN
  /\ readers \in [Indices -> Nat]
  /\ flag \in [Indices -> BOOLEAN]
  /\ pc \in [Threads -> Labels]
  /\ index \in [Threads -> Indices]
  /\ stageStates \in [Threads -> [Indices -> Stages]]

Init ==
  /\ writerActive = FALSE
  /\ readers = [i \in Indices |-> 0]
  /\ flag = [i \in Indices |-> FALSE]
  /\ pc = [t \in Threads |-> "idle"]
  /\ index = [t \in Threads |-> 1]
  /\ stageStates = [t \in Threads |-> [i \in Indices |-> "NotAcquired"]]

Goto(t, label) == pc' = [pc EXCEPT ![t] = label]

-----------------------------------------------------------------------------
(* Readers.  The index hashes the address of the ScopedLock: any.          *)
AcquireRead(t, i) ==
  /\ pc[t] = "idle"
  /\ index' = [index EXCEPT ![t] = i]
  /\ Goto(t, "read")
  /\ UNCHANGED <<writerActive, lockStates, stageStates>>

(* The first look at _writerActive.                                        *)
CheckWriterActive(t) ==
  /\ pc[t] = "read"
  /\ Goto(t, IF writerActive THEN "contended" ELSE "tryRead")
  /\ UNCHANGED <<writerActive, lockStates, index, stageStates>>

(* _AcquireReadContended yields until it sees no active writer.            *)
ContendedRead(t) ==
  /\ pc[t] = "contended"
  /\ ~writerActive
  /\ Goto(t, "tryRead")
  /\ UNCHANGED <<writerActive, lockStates, index, stageStates>>

(* Mutants: the flag is not looked at; a refused reader tries again        *)
(* without waiting until no writer is active.                              *)
TryAcquireReadRegardless(t) ==
  /\ pc[t] = "tryRead"
  /\ readers' = [readers EXCEPT ![index[t]] = @ + 1]
  /\ Goto(t, "reading")
  /\ UNCHANGED <<writerActive, flag, index, stageStates>>

UndoReadAndSpin(t) ==
  /\ pc[t] = "undoRead"
  /\ readers' = [readers EXCEPT ![index[t]] = @ - 1]
  /\ Goto(t, "tryRead")
  /\ UNCHANGED <<writerActive, flag, index, stageStates>>

(* TryAcquireRead of the thread's mutex, and its undoing.                  *)
TryAcquireRead(t) ==
  /\ pc[t] = "tryRead"
  /\ readers' = [readers EXCEPT ![index[t]] = @ + 1]
  /\ Goto(t, IF flag[index[t]] THEN "undoRead" ELSE "reading")
  /\ UNCHANGED <<writerActive, flag, index, stageStates>>

UndoRead(t) ==
  /\ pc[t] = "undoRead"
  /\ readers' = [readers EXCEPT ![index[t]] = @ - 1]
  /\ Goto(t, "contended")
  /\ UNCHANGED <<writerActive, flag, index, stageStates>>

ReleaseRead(t) ==
  /\ pc[t] = "reading"
  /\ readers' = [readers EXCEPT ![index[t]] = @ - 1]
  /\ Goto(t, "idle")
  /\ UNCHANGED <<writerActive, flag, index, stageStates>>

(* UpgradeToWriter releases the read lock and then acquires.               *)
UpgradeToWriter(t) ==
  /\ pc[t] = "reading"
  /\ readers' = [readers EXCEPT ![index[t]] = @ - 1]
  /\ Goto(t, "write")
  /\ UNCHANGED <<writerActive, flag, index, stageStates>>

-----------------------------------------------------------------------------
(* Writers.                                                                *)
AcquireWrite(t) ==
  /\ pc[t] = "idle"
  /\ Goto(t, "write")
  /\ UNCHANGED <<writerActive, lockStates, index, stageStates>>

(* Mutant: what the exchange returns is not looked at.                     *)
BecomeActiveRegardless(t) ==
  /\ pc[t] = "write"
  /\ writerActive' = TRUE
  /\ index' = [index EXCEPT ![t] = 1]
  /\ stageStates' = [stageStates EXCEPT ![t] = [i \in Indices |-> "NotAcquired"]]
  /\ Goto(t, "stage")
  /\ UNCHANGED lockStates

(* _writerActive.exchange(true): whoever sees false is the writer, and     *)
(* begins with every stage at _StageNotAcquired.                           *)
BecomeActive(t) ==
  /\ pc[t] = "write"
  /\ ~writerActive
  /\ writerActive' = TRUE
  /\ index' = [index EXCEPT ![t] = 1]
  /\ stageStates' = [stageStates EXCEPT ![t] = [i \in Indices |-> "NotAcquired"]]
  /\ Goto(t, "stage")
  /\ UNCHANGED lockStates

OtherWriterActive(t) ==
  /\ pc[t] = "write"
  /\ writerActive
  /\ Goto(t, "writeWait")
  /\ UNCHANGED <<writerActive, lockStates, index, stageStates>>

WriteAgain(t) ==
  /\ pc[t] = "writeWait"
  /\ ~writerActive
  /\ Goto(t, "write")
  /\ UNCHANGED <<writerActive, lockStates, index, stageStates>>

(* The loop goes to the next mutex; after the last, it starts again unless *)
(* all are acquired.                                                       *)
AdvanceStage(t) ==
  IF index[t] < NumStates
    THEN /\ index' = [index EXCEPT ![t] = @ + 1]
         /\ UNCHANGED pc
    ELSE /\ index' = [index EXCEPT ![t] = 1]
         /\ IF \A i \in Indices : stageStates'[t][i] = "Acquired"
              THEN Goto(t, "writing") ELSE UNCHANGED pc

(* Mutant: a flag that is already set counts as acquired.                  *)
StageTakenIsAcquired(t) ==
  /\ pc[t] = "stage"
  /\ stageStates[t][index[t]] = "NotAcquired"
  /\ flag[index[t]]
  /\ stageStates' = [stageStates EXCEPT ![t][index[t]] = "Acquired"]
  /\ AdvanceStage(t)
  /\ UNCHANGED <<writerActive, lockStates>>

(* _StagedAcquireWriteStep at _StageNotAcquired: fetch_or(WriterFlag).     *)
StageSetFlag(t) ==
  LET i == index[t]
  IN  /\ pc[t] = "stage"
      /\ stageStates[t][i] = "NotAcquired"
      /\ ~flag[i]
      /\ flag' = [flag EXCEPT ![i] = TRUE]
      /\ stageStates' = [stageStates EXCEPT ![t][i] =
                           IF readers[i] = 0 THEN "Acquired" ELSE "Acquiring"]
      /\ AdvanceStage(t)
      /\ UNCHANGED <<writerActive, readers>>

(* The writer before has not released this mutex yet: left for later.      *)
StageFlagTaken(t) ==
  /\ pc[t] = "stage"
  /\ stageStates[t][index[t]] = "NotAcquired"
  /\ flag[index[t]]
  /\ UNCHANGED stageStates
  /\ AdvanceStage(t)
  /\ UNCHANGED <<writerActive, lockStates>>

(* At _StageAcquiring: _WaitForReaders.                                    *)
StageReadersGone(t) ==
  /\ pc[t] = "stage"
  /\ stageStates[t][index[t]] = "Acquiring"
  /\ readers[index[t]] = 0
  /\ stageStates' = [stageStates EXCEPT ![t][index[t]] = "Acquired"]
  /\ AdvanceStage(t)
  /\ UNCHANGED <<writerActive, lockStates>>

StageDone(t) ==
  /\ pc[t] = "stage"
  /\ stageStates[t][index[t]] = "Acquired"
  /\ UNCHANGED stageStates
  /\ AdvanceStage(t)
  /\ UNCHANGED <<writerActive, lockStates>>

(* _ReleaseWrite: _writerActive first, then the mutexes one by one.        *)
ReleaseWrite(t) ==
  /\ pc[t] = "writing"
  /\ writerActive' = FALSE
  /\ index' = [index EXCEPT ![t] = 1]
  /\ Goto(t, "release")
  /\ UNCHANGED <<lockStates, stageStates>>

ReleaseState(t) ==
  /\ pc[t] = "release"
  /\ flag' = [flag EXCEPT ![index[t]] = FALSE]
  /\ IF index[t] < NumStates
       THEN /\ index' = [index EXCEPT ![t] = @ + 1]
            /\ UNCHANGED pc
       ELSE /\ Goto(t, "idle")
            /\ UNCHANGED index
  /\ UNCHANGED <<writerActive, readers, stageStates>>

-----------------------------------------------------------------------------
Begin(t) == AcquireWrite(t) \/ \E i \in Indices : AcquireRead(t, i)

Run(t) ==
  \/ CheckWriterActive(t) \/ ContendedRead(t) \/ TryAcquireRead(t) \/ UndoRead(t)
  \/ BecomeActive(t) \/ OtherWriterActive(t) \/ WriteAgain(t)
  \/ StageSetFlag(t) \/ StageFlagTaken(t) \/ StageReadersGone(t) \/ StageDone(t)
  \/ ReleaseState(t)

Release(t) == ReleaseRead(t) \/ UpgradeToWriter(t) \/ ReleaseWrite(t)

Next == \E t \in Threads : Begin(t) \/ Run(t) \/ Release(t)

Spec == Init /\ [][Next]_vars

(* Spinning threads are scheduled, and a lock is not held for ever.        *)
Fairness == \A t \in Threads : WF_vars(Run(t)) /\ WF_vars(Release(t))

FairSpec == Spec /\ Fairness

-----------------------------------------------------------------------------
(* The thread holds the write lock of mutex i.                             *)
Flagged(t, i) ==
  \/ pc[t] = "stage" /\ stageStates[t][i] # "NotAcquired"
  \/ pc[t] = "writing"
  \/ pc[t] = "release" /\ index[t] <= i

(* A writer is alone: no reader of any of the mutexes, and no other writer *)
(* although two may be inside _AcquireWrite and _ReleaseWrite at a time.   *)
MutualExclusion ==
  \A t, u \in Threads : pc[t] = "writing" /\ t # u =>
    pc[u] \notin {"reading", "writing"}

CountedAt(i) == {t \in Threads : pc[t] \in Counted /\ index[t] = i}

(* Every mutex's flag has one owner, who will clear it: a release never    *)
(* clears a flag that the next writer has set behind it.                   *)
FlagsHaveOneOwner ==
  \A i \in Indices :
    /\ flag[i] <=> \E t \in Threads : Flagged(t, i)
    /\ \A t, u \in Threads : Flagged(t, i) /\ Flagged(u, i) => t = u
    /\ readers[i] = Cardinality(CountedAt(i))

(* The mutexes whose readers a writer has seen gone are free of readers.   *)
Excluded ==
  \A t, u \in Threads : \A i \in Indices :
    Flagged(t, i) /\ (pc[t] = "stage" => stageStates[t][i] = "Acquired")
      => ~(pc[u] = "reading" /\ index[u] = i)

IInv == TypeOK /\ FlagsHaveOneOwner /\ Excluded   \* inductive

(* The staged acquisition comes to an end, however readers and the release *)
(* by the writer before interleave with it.                                *)
ActiveWriterAcquires ==
  \A t \in Threads : pc[t] = "stage" ~> pc[t] = "writing"

(* While threads try for the lock, some thread gets it.                    *)
SomeoneAcquires ==
  \A t \in Threads : pc[t] \in Labels \ {"idle", "reading", "writing", "release"}
    ~> \E u \in Threads : pc[u] \in {"reading", "writing"}

(* What the lock promises; its upgrade is a release and an acquisition.    *)
Readers == {t \in Threads : pc[t] = "reading"}
Writer  == IF \E t \in Threads : pc[t] = "writing"
             THEN CHOOSE t \in Threads : pc[t] = "writing" ELSE None

RWLock == INSTANCE TfRWLock WITH reading <- Readers, writing <- Writer

ImplementsRWLock == RWLock!Spec
=============================================================================
