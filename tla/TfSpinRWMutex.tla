---------------------------- MODULE TfSpinRWMutex ----------------------------
(***************************************************************************)
(* TfSpinRWMutex (pxr/base/tf/spinRWMutex.h, .cpp): a readers-writer spin  *)
(* lock in one atomic integer.  The integer is OneReader for every reader  *)
(* plus WriterFlag, kept here as the fields `readers' and `flag'.  Every   *)
(* action is one atomic access to it, the points where threads interleave. *)
(***************************************************************************)
EXTENDS Integers, FiniteSets

CONSTANTS
  Threads,
  None,
  Operations   \* which operations the clients of the lock use

AllOperations == {"AcquireRead", "TryAcquireRead", "AcquireWrite",
                  "TryAcquireWrite", "UpgradeToWriter", "DowngradeToReader"}

ASSUME SpinAssumptions ==
  /\ IsFiniteSet(Threads)
  /\ None \notin Threads
  /\ Operations \subseteq AllOperations

VARIABLES
  lockState,   \* _lockState
  pc,          \* where each thread is: between calls, or at an atomic access
  op           \* the operation a thread is executing or has executed last

vars == <<lockState, pc, op>>

(* Steps at which a thread has OneReader in _lockState, and those at which *)
(* the WriterFlag is the one it has set.                                   *)
Counted == {"undoRead", "reading", "upgrade", "upgradeWait", "upgradeSub"}
Flagged == {"waitReaders", "writing", "upgradeSub", "upgradeReaders"}
Labels  == {"idle", "read", "readWait", "write", "writeWait"} \cup Counted \cup Flagged

TypeOK ==
  /\ lockState \in [readers : Nat, flag : BOOLEAN]
  /\ pc \in [Threads -> Labels]
  /\ op \in [Threads -> AllOperations]

Init ==
  /\ lockState = [readers |-> 0, flag |-> FALSE]
  /\ pc = [t \in Threads |-> "idle"]
  /\ op \in [Threads -> {"AcquireRead"}]

Goto(t, label) == pc' = [pc EXCEPT ![t] = label] /\ UNCHANGED op

Start(t, operation, from, to) ==
  /\ pc[t] = from
  /\ operation \in Operations
  /\ pc' = [pc EXCEPT ![t] = to]
  /\ op' = [op EXCEPT ![t] = operation]
  /\ UNCHANGED lockState

Begin(t) ==
  \/ Start(t, "AcquireRead", "idle", "read")
  \/ Start(t, "TryAcquireRead", "idle", "read")
  \/ Start(t, "AcquireWrite", "idle", "write")
  \/ Start(t, "TryAcquireWrite", "idle", "write")
  \/ Start(t, "UpgradeToWriter", "reading", "upgrade")

-----------------------------------------------------------------------------
(* TryAcquireRead: the optimistic fetch_add.                               *)
AddReader(t) ==
  /\ pc[t] = "read"
  /\ lockState' = [lockState EXCEPT !.readers = @ + 1]
  /\ Goto(t, IF lockState.flag THEN "undoRead" ELSE "reading")

(* Mutant: the increment is not undone.                                    *)
KeepCount(t) ==
  /\ pc[t] = "undoRead"
  /\ Goto(t, IF op[t] = "TryAcquireRead" THEN "idle" ELSE "readWait")
  /\ UNCHANGED lockState

(* Writer activity: the increment is undone.  TryAcquireRead gives up,     *)
(* AcquireRead waits for the writer.                                       *)
UndoRead(t) ==
  /\ pc[t] = "undoRead"
  /\ lockState' = [lockState EXCEPT !.readers = @ - 1]
  /\ Goto(t, IF op[t] = "TryAcquireRead" THEN "idle" ELSE "readWait")

(* Mutant: the loop retries without waiting.                               *)
ReadAgainAtOnce(t) ==
  /\ pc[t] = "readWait"
  /\ Goto(t, "read")
  /\ UNCHANGED lockState

(* _WaitForWriter has seen the flag cleared, and the loop retries.         *)
ReadAgain(t) ==
  /\ pc[t] = "readWait"
  /\ ~lockState.flag
  /\ Goto(t, "read")
  /\ UNCHANGED lockState

ReleaseRead(t) ==
  /\ pc[t] = "reading"
  /\ lockState' = [lockState EXCEPT !.readers = @ - 1]
  /\ Goto(t, "idle")

-----------------------------------------------------------------------------
(* TryAcquireWrite: fetch_or(WriterFlag).  Whoever sets the flag waits for *)
(* the readers, if there are any; the others give up or wait for it.       *)
SetFlag(t) ==
  /\ pc[t] = "write"
  /\ ~lockState.flag
  /\ lockState' = [lockState EXCEPT !.flag = TRUE]
  /\ Goto(t, IF lockState.readers = 0 THEN "writing" ELSE "waitReaders")

FlagTaken(t) ==
  /\ pc[t] = "write"
  /\ lockState.flag
  /\ Goto(t, IF op[t] = "TryAcquireWrite" THEN "idle" ELSE "writeWait")
  /\ UNCHANGED lockState

WriteAgain(t) ==
  /\ pc[t] = "writeWait"
  /\ ~lockState.flag
  /\ Goto(t, "write")
  /\ UNCHANGED lockState

(* _WaitForReaders has seen the flag alone.                                *)
ReadersGone(t) ==
  /\ pc[t] \in {"waitReaders", "upgradeReaders"}
  /\ lockState.readers = 0
  /\ Goto(t, "writing")
  /\ UNCHANGED lockState

ReleaseWrite(t) ==
  /\ pc[t] = "writing"
  /\ lockState' = [lockState EXCEPT !.flag = FALSE]
  /\ Goto(t, "idle")

-----------------------------------------------------------------------------
(* UpgradeToWriter: set the flag first, then give up the reader count.     *)
UpgradeSetFlag(t) ==
  /\ pc[t] \in {"upgrade", "upgradeWait"}
  /\ ~lockState.flag
  /\ lockState' = [lockState EXCEPT !.flag = TRUE]
  /\ Goto(t, "upgradeSub")

(* Mutant: an upgrader does not wait for the other readers.                *)
UpgradeAmongReaders(t) ==
  /\ pc[t] = "upgradeSub"
  /\ lockState' = [lockState EXCEPT !.readers = @ - 1]
  /\ Goto(t, "writing")

UpgradeSubReader(t) ==
  /\ pc[t] = "upgradeSub"
  /\ lockState' = [lockState EXCEPT !.readers = @ - 1]
  /\ Goto(t, IF lockState.readers = 1 THEN "writing" ELSE "upgradeReaders")

(* Another writer: wait for it to clear the flag, keeping the reader count *)
(* it waits for, and retry (which never comes about: see UpgradeReturns).  *)
UpgradeFlagTaken(t) ==
  /\ pc[t] = "upgrade"
  /\ lockState.flag
  /\ Goto(t, "upgradeWait")
  /\ UNCHANGED lockState

(* DowngradeToReader: a reader more and no flag, in one addition.          *)
DowngradeToReader(t) ==
  /\ pc[t] = "writing"
  /\ "DowngradeToReader" \in Operations
  /\ lockState' = [readers |-> lockState.readers + 1, flag |-> FALSE]
  /\ Goto(t, "reading")

-----------------------------------------------------------------------------
Acquire(t) ==
  \/ AddReader(t) \/ UndoRead(t) \/ ReadAgain(t)
  \/ SetFlag(t) \/ FlagTaken(t) \/ WriteAgain(t) \/ ReadersGone(t)
  \/ UpgradeSetFlag(t) \/ UpgradeSubReader(t) \/ UpgradeFlagTaken(t)

Release(t) == ReleaseRead(t) \/ ReleaseWrite(t)

Next == \E t \in Threads :
  Begin(t) \/ Acquire(t) \/ Release(t) \/ DowngradeToReader(t)

Spec == Init /\ [][Next]_vars

(* Spinning threads are scheduled, and a lock is not held for ever.        *)
Fairness == \A t \in Threads : WF_vars(Acquire(t)) /\ WF_vars(Release(t))

FairSpec == Spec /\ Fairness

-----------------------------------------------------------------------------
(* Steps at which a thread holds a lock it has acquired for reading.       *)
Held == {"reading", "upgrade", "upgradeWait", "upgradeSub", "upgradeReaders"}

(* A writer is alone, although it takes the lock in two steps and readers  *)
(* count themselves before they look.                                      *)
MutualExclusion ==
  \A t, u \in Threads : pc[t] = "writing" /\ t # u =>
    pc[u] # "writing" /\ pc[u] \notin Held

CountedThreads == {t \in Threads : pc[t] \in Counted}

(* No count is lost or left behind by an undone increment, an upgrade or a *)
(* downgrade, and the flag has exactly one owner to clear it.              *)
StateIsExact ==
  /\ lockState.readers = Cardinality(CountedThreads)
  /\ lockState.flag <=> \E t \in Threads : pc[t] \in Flagged
  /\ \A t, u \in Threads : pc[t] \in Flagged /\ pc[u] \in Flagged => t = u

IInv == TypeOK /\ StateIsExact /\ MutualExclusion   \* inductive

(* From some time on threads wait for their turn: none upgrades, and none   *)
(* polls with TryAcquireRead, which may come back so often that a spinning *)
(* writer never sees the count at zero.                                    *)
Upgrading(t) == pc[t] \in {"upgrade", "upgradeWait", "upgradeSub", "upgradeReaders"}
Polling(t)   == op[t] = "TryAcquireRead" /\ pc[t] \in {"read", "undoRead"}
TurnsAreTaken == <>[](\A t \in Threads : ~Upgrading(t) /\ ~Polling(t))

(* Then a thread that set the flag gets the lock: readers that come later  *)
(* give way to it.                                                         *)
WriterNotStarved ==
  TurnsAreTaken => \A t \in Threads : pc[t] = "waitReaders" ~> pc[t] = "writing"

(* UpgradeToWriter returns: "Return false if this lock was released and    *)
(* thus another writer could have taken the lock in the interim."          *)
UpgradeReturns ==
  \A t \in Threads : pc[t] = "upgrade" ~> pc[t] = "writing"

(* What the lock promises: no read lock is lost by an upgrade, an upgrader *)
(* counting as a reader until it is the writer.                            *)
Readers == {t \in Threads : pc[t] \in Held}
Writer  == IF \E t \in Threads : pc[t] = "writing"
             THEN CHOOSE t \in Threads : pc[t] = "writing" ELSE None

RWLock == INSTANCE TfRWLock WITH reading <- Readers, writing <- Writer

ImplementsRWLock == RWLock!Spec
=============================================================================
