---------------------------- MODULE TfPyOwnership ----------------------------
(***************************************************************************)
(* One reference-counted C++ object that Python may own: the counting of   *)
(* pxr/base/tf/refPtr.cpp with its unique-changed listener, the listener   *)
(* of pyIdentity.cpp, and the two transfers of ownership of pyIdentity.h.  *)
(*                                                                         *)
(* A Python object made for the C++ object finds it by a weak pointer, and *)
(* when Python owns it holds one counted reference in __owner.  Neither    *)
(* may die while the other is in use: while C++ has references besides     *)
(* that of __owner, the identity handle owns a reference to the Python     *)
(* object.  It is taken and given back when the count goes from one to two *)
(* and from two to one, under the lock of the listener, which is Python's. *)
(* Other changes of the count are made without the lock.                   *)
(*                                                                         *)
(* A compare-and-swap loop is one step, and so is a section of Python's    *)
(* lock that calls nothing which may free the Python object.               *)
(***************************************************************************)
EXTENDS Integers, FiniteSets

CONSTANTS Threads,
          None,
          FlagRaces,   \* the listener may be set while another thread counts
          MaxHolds,    \* bound on the references of a C++ thread
          MaxPyRefs    \* bound on the references of Python code

(* Of the constants; the modules that give them values assume it.          *)
OwnershipAssumption ==
    /\ None \notin Threads /\ IsFiniteSet(Threads)
    /\ FlagRaces \in BOOLEAN
    /\ MaxHolds \in Nat \ {0} /\ MaxPyRefs \in Nat \ {0}

VARIABLES count,     \* the count of the C++ object
          listens,   \* _shouldInvokeUniqueChangedListener
          dead,      \* the count has reached zero and the object is destroyed
          owner,     \* the Python object has its __owner
          pyAlive,   \* the Python object exists
          acquired,  \* _isAcquired of the identity handle
          pyRefs,    \* the references of Python code to the Python object
          gil,       \* the thread that has Python's lock
          python,    \* the threads that run Python code, and keep the lock
          holds,     \* holds[t]: the references t has in C++
          saw,       \* saw[t]: the flag as t read it
          goal,      \* goal[t]: what t does with the reference it adds
          pc

objectVars == <<count, listens, dead, owner>>
pyVars == <<pyAlive, acquired, pyRefs>>
lockVars == <<gil, python>>
vars == <<objectVars, pyVars, lockVars, holds, saw, goal, pc>>

Labels == {"idle", "add", "addLock", "acquire", "drop", "dropLock", "release",
           "try", "tryLock", "store", "insert", "erase", "disown", "die",
           "unlock"}

TypeOK == /\ count \in Nat
          /\ listens \in BOOLEAN /\ dead \in BOOLEAN /\ owner \in BOOLEAN
          /\ pyAlive \in BOOLEAN /\ acquired \in BOOLEAN
          /\ pyRefs \in 0..MaxPyRefs
          /\ gil \in Threads \cup {None}
          /\ python \subseteq Threads
          /\ holds \in [Threads -> 0..MaxHolds]
          /\ saw \in [Threads -> BOOLEAN]
          /\ goal \in [Threads -> {"keep", "transfer"}]
          /\ pc \in [Threads -> Labels]

(***************************************************************************)
(* There is no object yet.                                                 *)
(***************************************************************************)
Init == /\ count = 0 /\ listens = FALSE /\ dead = TRUE /\ owner = FALSE
        /\ pyAlive = FALSE /\ acquired = FALSE /\ pyRefs = 0
        /\ gil = None /\ python = {}
        /\ holds = [t \in Threads |-> 0]
        /\ saw = [t \in Threads |-> FALSE]
        /\ goal = [t \in Threads |-> "keep"]
        /\ pc = [t \in Threads |-> "idle"]

Goto(t, l) == pc' = [pc EXCEPT ![t] = l]

(***************************************************************************)
(* The end of an operation, which leaves the lock if it took it.           *)
(***************************************************************************)
Finish(t) == Goto(t, IF gil' = t THEN "unlock" ELSE "idle")

Lock(t) == gil \in {None, t} /\ gil' = t

-----------------------------------------------------------------------------
(***************************************************************************)
(* Python's lock.  A thread that runs Python code has it, and gives it up  *)
(* between two operations; a listener takes it again.                      *)
(***************************************************************************)
EnterPython(t) ==
    /\ pc[t] = "idle" /\ gil = None
    /\ gil' = t /\ python' = python \cup {t}
    /\ UNCHANGED <<objectVars, pyVars, holds, saw, goal, pc>>

LeavePython(t) ==
    /\ pc[t] = "idle" /\ t \in python
    /\ gil' = None /\ python' = python \ {t}
    /\ UNCHANGED <<objectVars, pyVars, holds, saw, goal, pc>>

Unlock(t) ==
    /\ pc[t] = "unlock"
    /\ gil' = IF t \in python THEN t ELSE None
    /\ Goto(t, "idle")
    /\ UNCHANGED <<objectVars, pyVars, python, holds, saw, goal>>

(***************************************************************************)
(* A thread makes an object, in the memory of one that nobody knows of.    *)
(***************************************************************************)
New(t) ==
    /\ dead /\ ~pyAlive /\ \A u \in Threads : pc[u] = "idle"
    /\ dead' = FALSE /\ count' = 1 /\ listens' = FALSE
    /\ holds' = [holds EXCEPT ![t] = 1]
    /\ UNCHANGED <<owner, pyVars, lockVars, saw, goal, pc>>

-----------------------------------------------------------------------------
(***************************************************************************)
(* AddRef: of a thread that copies a reference of its own, or is given the *)
(* object by Python code.                                                  *)
(***************************************************************************)
BeginAdd(t, g) ==
    /\ pc[t] = "idle" /\ holds[t] < MaxHolds
    /\ CASE g = "keep"     -> holds[t] > 0
         [] g = "transfer" -> t \in python /\ pyRefs > 0 /\ owner
    /\ saw' = [saw EXCEPT ![t] = listens]
    /\ goal' = [goal EXCEPT ![t] = g]
    /\ Goto(t, "add")
    /\ UNCHANGED <<objectVars, pyVars, lockVars, holds>>

(***************************************************************************)
(* The thread has its reference.  Ownership is then taken from Python if   *)
(* Python gave the object.                                                 *)
(***************************************************************************)
Added(t) ==
    /\ holds' = [holds EXCEPT ![t] = @ + 1]
    /\ IF goal[t] = "transfer" THEN Goto(t, "erase") ELSE Finish(t)

AddRef(t) ==
    /\ pc[t] = "add" /\ gil' = gil
    /\ IF saw[t] /\ count = 1
       THEN Goto(t, "addLock") /\ UNCHANGED <<count, holds>>
       ELSE count' = count + 1 /\ Added(t)
    /\ UNCHANGED <<listens, dead, owner, pyVars, python, saw, goal>>

AddRefLocked(t) ==
    /\ pc[t] = "addLock" /\ Lock(t)
    /\ count' = count + 1
    /\ IF count = 1 THEN Goto(t, "acquire") /\ UNCHANGED holds ELSE Added(t)
    /\ UNCHANGED <<listens, dead, owner, pyVars, python, saw, goal>>

(***************************************************************************)
(* The listener, called when the count is no longer one.  The object has   *)
(* an entry in the map of the listener as long as it listens.              *)
(***************************************************************************)
BecameShared(t) ==
    /\ pc[t] = "acquire" /\ gil' = gil
    /\ acquired' = (acquired \/ (listens /\ pyAlive))
    /\ Added(t)
    /\ UNCHANGED <<objectVars, pyAlive, pyRefs, python, saw, goal>>

-----------------------------------------------------------------------------
(***************************************************************************)
(* RemoveRef: of a thread, or of the __owner of a Python object that is    *)
(* being freed.                                                            *)
(***************************************************************************)
BeginDrop(t) ==
    /\ pc[t] = "idle" /\ holds[t] > 0
    /\ holds' = [holds EXCEPT ![t] = @ - 1]
    /\ saw' = [saw EXCEPT ![t] = listens]
    /\ Goto(t, "drop")
    /\ UNCHANGED <<objectVars, pyVars, lockVars, goal>>

(***************************************************************************)
(* The count has become n; at zero the object is destroyed, which waits    *)
(* for the lock to erase the object's identity.                            *)
(***************************************************************************)
Dropped(t, n) ==
    /\ count' = n
    /\ dead' = (dead \/ n = 0)
    /\ IF n = 0 THEN Goto(t, "die") ELSE Finish(t)

(***************************************************************************)
(* Mutant: the last reference is looked for, not the last but one.         *)
(***************************************************************************)
RemoveRefOffByOne(t) ==
    /\ pc[t] = "drop" /\ gil' = gil
    /\ IF saw[t] /\ count = 1
       THEN Goto(t, "dropLock") /\ UNCHANGED <<count, dead>>
       ELSE Dropped(t, count - 1)
    /\ UNCHANGED <<listens, owner, pyVars, python, holds, saw, goal>>

RemoveRef(t) ==
    /\ pc[t] = "drop" /\ gil' = gil
    /\ IF saw[t] /\ count = 2
       THEN Goto(t, "dropLock") /\ UNCHANGED <<count, dead>>
       ELSE Dropped(t, count - 1)
    /\ UNCHANGED <<listens, owner, pyVars, python, holds, saw, goal>>

RemoveRefLocked(t) ==
    /\ pc[t] = "dropLock" /\ Lock(t)
    /\ IF count = 2
       THEN count' = 1 /\ Goto(t, "release") /\ UNCHANGED dead
       ELSE Dropped(t, count - 1)
    /\ UNCHANGED <<listens, owner, pyVars, python, holds, saw, goal>>

(***************************************************************************)
(* A reference to the Python object goes.  With the last one the object is *)
(* freed, and its __owner with it.                                         *)
(***************************************************************************)
FreePython(t) ==
    /\ pyAlive' = FALSE /\ owner' = FALSE
    /\ IF owner
       THEN saw' = [saw EXCEPT ![t] = listens] /\ Goto(t, "drop")
       ELSE Finish(t) /\ UNCHANGED saw

(***************************************************************************)
(* The listener, called when the count has become one.                     *)
(***************************************************************************)
BecameUnique(t) ==
    /\ pc[t] = "release"
    /\ gil' = gil
    /\ acquired' = (acquired /\ ~listens)
    /\ IF acquired /\ listens /\ pyRefs = 0
       THEN FreePython(t)
       ELSE Finish(t) /\ UNCHANGED <<pyAlive, owner, saw>>
    /\ UNCHANGED <<count, listens, dead, pyRefs, python, holds, goal>>

(***************************************************************************)
(* The destructor erases the identity, whose handle gives back the         *)
(* reference to the Python object that it may own.                         *)
(***************************************************************************)
WeakBaseDied(t) ==
    /\ pc[t] = "die" /\ Lock(t)
    /\ acquired' = FALSE
    /\ IF acquired /\ pyRefs = 0
       THEN FreePython(t)
       ELSE Finish(t) /\ UNCHANGED <<pyAlive, owner, saw>>
    /\ UNCHANGED <<count, listens, dead, pyRefs, python, holds, goal>>

-----------------------------------------------------------------------------
(***************************************************************************)
(* AddRefIfNonzero: a thread makes a reference of a weak pointer, whose    *)
(* owner sees to it that the memory of the count stays.                    *)
(***************************************************************************)
BeginTry(t) ==
    /\ pc[t] = "idle" /\ holds[t] < MaxHolds
    /\ saw' = [saw EXCEPT ![t] = listens]
    /\ goal' = [goal EXCEPT ![t] = "keep"]
    /\ Goto(t, "try")
    /\ UNCHANGED <<objectVars, pyVars, lockVars, holds>>

AddRefIfNonzero(t) ==
    /\ pc[t] = "try" /\ gil' = gil
    /\ \/ /\ count = 0
          /\ Finish(t) /\ UNCHANGED <<count, holds>>
       \/ /\ count = 1 /\ saw[t]
          /\ Goto(t, "tryLock") /\ UNCHANGED <<count, holds>>
       \/ /\ count > 1 \/ (count = 1 /\ ~saw[t])
          /\ count' = count + 1 /\ Added(t)
    /\ UNCHANGED <<listens, dead, owner, pyVars, python, saw, goal>>

(***************************************************************************)
(* With the lock, the count is read again; if it is one, the listener is   *)
(* called first and the count set to two after that.                       *)
(***************************************************************************)
AddRefIfNonzeroLocked(t) ==
    /\ pc[t] = "tryLock" /\ Lock(t)
    /\ \/ /\ count = 0
          /\ Finish(t) /\ UNCHANGED <<count, acquired, holds>>
       \/ /\ count = 1
          /\ acquired' = (acquired \/ (listens /\ pyAlive))
          /\ Goto(t, "store") /\ UNCHANGED <<count, holds>>
       \/ /\ count > 1
          /\ count' = count + 1 /\ Added(t) /\ UNCHANGED acquired
    /\ UNCHANGED <<listens, dead, owner, pyAlive, pyRefs, python, saw, goal>>

StoreTwo(t) ==
    /\ pc[t] = "store"
    /\ gil' = gil
    /\ count' = 2 /\ Added(t)
    /\ UNCHANGED <<listens, dead, owner, pyVars, python, saw, goal>>

-----------------------------------------------------------------------------
(***************************************************************************)
(* Python code.                                                            *)
(***************************************************************************)

(***************************************************************************)
(* The listener's flag is not guarded by anything: either another thread   *)
(* may have read it and not yet counted, or not.                           *)
(***************************************************************************)
SetListens(t, value) ==
    /\ FlagRaces \/ \A u \in Threads \ {t} : pc[u] \in {"idle", "unlock", "die"}
    /\ listens' = value

(***************************************************************************)
(* A C++ function returns a reference to Python.  The Python object is     *)
(* made unless it exists, which sets the identity and acquires it, and is  *)
(* given an __owner unless it has one.                                     *)
(***************************************************************************)
ReturnToPython(t) ==
    /\ pc[t] = "idle" /\ t \in python /\ holds[t] > 0 /\ pyRefs < MaxPyRefs
    /\ pyRefs' = pyRefs + 1
    /\ pyAlive' = TRUE
    /\ acquired' = (acquired \/ ~pyAlive)
    /\ owner' = TRUE
    /\ count' = IF owner THEN count ELSE count + 1
    /\ IF owner THEN UNCHANGED pc ELSE Goto(t, "insert")
    /\ UNCHANGED <<listens, dead, lockVars, holds, saw, goal>>

(***************************************************************************)
(* Add, its last part: the object starts to listen.                        *)
(***************************************************************************)
Insert(t) ==
    /\ pc[t] = "insert"
    /\ SetListens(t, TRUE) /\ Goto(t, "idle")
    /\ UNCHANGED <<count, dead, owner, pyVars, lockVars, holds, saw, goal>>

(***************************************************************************)
(* Remove: the thread that was given the object stops the listening, and   *)
(* then deletes __owner.                                                   *)
(***************************************************************************)
Erase(t) ==
    /\ pc[t] = "erase"
    /\ IF owner THEN SetListens(t, FALSE) /\ Goto(t, "disown")
                ELSE UNCHANGED listens /\ Goto(t, "idle")
    /\ UNCHANGED <<count, dead, owner, pyVars, lockVars, holds, saw, goal>>

DeleteOwner(t) ==
    /\ pc[t] = "disown"
    /\ owner' = FALSE
    /\ gil' = gil
    /\ Dropped(t, count - 1)
    /\ UNCHANGED <<listens, pyVars, python, holds, saw, goal>>

(***************************************************************************)
(* Python code forgets the object.                                         *)
(***************************************************************************)
PyDecRef(t) ==
    /\ pc[t] = "idle" /\ t \in python /\ pyRefs > 0
    /\ gil' = gil
    /\ pyRefs' = pyRefs - 1
    /\ IF pyRefs = 1 /\ ~acquired
       THEN FreePython(t)
       ELSE UNCHANGED <<pyAlive, owner, saw, pc>>
    /\ UNCHANGED <<count, listens, dead, acquired, python, holds, goal>>

Step(t) == \/ EnterPython(t) \/ LeavePython(t) \/ Unlock(t) \/ New(t)
           \/ \E g \in {"keep", "transfer"} : BeginAdd(t, g)
           \/ AddRef(t) \/ AddRefLocked(t) \/ BecameShared(t)
           \/ BeginDrop(t) \/ RemoveRef(t) \/ RemoveRefLocked(t)
           \/ BecameUnique(t) \/ WeakBaseDied(t)
           \/ BeginTry(t) \/ AddRefIfNonzero(t) \/ AddRefIfNonzeroLocked(t)
           \/ StoreTwo(t)
           \/ ReturnToPython(t) \/ Insert(t) \/ Erase(t) \/ DeleteOwner(t)
           \/ PyDecRef(t)

Next == \E t \in Threads : Step(t)

Spec == Init /\ [][Next]_vars

-----------------------------------------------------------------------------
(***************************************************************************)
(* Properties.                                                             *)
(***************************************************************************)

AllIdle == \A t \in Threads : pc[t] = "idle"

(* The references of C++: the counted ones of a thread are those it holds, *)
(* and one that it is about to hold or to drop.                            *)
Counted(t) == holds[t] + (IF pc[t] \in {"acquire", "drop", "dropLock"} THEN 1 ELSE 0)

References == {x \in Threads \X (1..(MaxHolds + 1)) : x[2] <= Counted(x[1])}

(***************************************************************************)
(* Nobody has, or obtains from a weak pointer, a reference to an object    *)
(* that is being destroyed, and the count is that of the references.       *)
(***************************************************************************)
NeverResurrected ==
    /\ dead => count = 0 /\ ~owner /\ \A t \in Threads : holds[t] = 0
    /\ count = Cardinality(References) + (IF owner THEN 1 ELSE 0)

(***************************************************************************)
(* While C++ shares an object that Python owns, or has been given, its     *)
(* Python object is kept; when only Python uses it nothing but Python      *)
(* keeps it, and when nobody uses either both are gone.                    *)
(***************************************************************************)
KeptWhileShared ==
    AllIdle => /\ acquired = (pyAlive /\ ~dead /\ (owner => count > 1))
               /\ (\A t \in Threads : holds[t] = 0) /\ pyRefs = 0 =>
                      dead /\ ~pyAlive

(***************************************************************************)
(* The inductive invariant, when the flag does not race.                   *)
(***************************************************************************)
CountIsExact ==
    /\ count = Cardinality(References) + (IF owner THEN 1 ELSE 0)
    /\ dead <=> count = 0

LockIsHeld ==
    \A t \in Threads :
        /\ t \in python => gil = t
        /\ pc[t] \in {"acquire", "release", "store", "insert", "erase", "disown",
                      "unlock"} => gil = t
        /\ pc[t] \in {"insert", "erase", "disown"} => t \in python /\ holds[t] > 0 /\ owner

(* A thread that counts has read the flag as it is.                        *)
FlagIsCurrent ==
    \A t \in Threads :
        /\ pc[t] \in {"add", "addLock", "drop", "dropLock", "try", "tryLock"} =>
              saw[t] = listens
        /\ pc[t] \in {"addLock", "dropLock", "tryLock", "acquire", "release", "store"} =>
              listens
        /\ pc[t] \in {"insert", "disown"} => ~listens

(* Whoever adds a reference has one, or was given the object by Python, or *)
(* looks whether there is any.                                             *)
AddersMayAdd ==
    \A t \in Threads :
        /\ pc[t] \in {"add", "addLock", "acquire", "try", "tryLock", "store"} =>
              holds[t] < MaxHolds
        /\ pc[t] \in {"add", "addLock", "acquire"} =>
              IF goal[t] = "keep" THEN holds[t] > 0 ELSE owner /\ t \in python
        /\ pc[t] \in {"try", "tryLock", "store"} => goal[t] = "keep"

(* The Python object is there as long as it is in use, and what else keeps *)
(* it depends on who owns the C++ object and whether that is listened to.  *)
PythonIsKept ==
    /\ owner => pyAlive
    /\ pyAlive <=> acquired \/ pyRefs > 0
    /\ owner /\ listens =>
          \/ acquired <=> count > 1
          \/ \E t \in Threads : pc[t] \in {"acquire", "release", "store"}
    /\ owner /\ ~listens =>
          acquired /\ \E t \in Threads : pc[t] \in {"insert", "disown"}
    /\ ~owner /\ ~listens /\ ~dead => (acquired <=> pyAlive)
    /\ ~owner /\ listens /\ ~dead =>
          ~pyAlive /\ count = 1 /\ \E t \in Threads : gil = t /\ pc[t] = "drop"
    /\ dead /\ acquired => \E t \in Threads : pc[t] = "die"
    /\ \A t \in Threads :
          /\ pc[t] = "acquire" => owner /\ ~acquired
          /\ pc[t] \in {"release", "store"} => owner /\ acquired /\ count = 1
          /\ pc[t] = "die" => dead

IInv == /\ TypeOK /\ CountIsExact /\ LockIsHeld /\ FlagIsCurrent /\ AddersMayAdd
        /\ PythonIsKept
=============================================================================
