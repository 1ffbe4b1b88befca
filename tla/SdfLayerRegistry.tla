-------------------------- MODULE SdfLayerRegistry --------------------------
(***************************************************************************)
(* SdfLayer sharing: FindOrOpen, Find, CreateNew and the destruction of a  *)
(* layer, run by any number of threads against the global layer registry   *)
(* (pxr/usd/sdf/layer.cpp, layerRegistry.cpp).                             *)
(*                                                                         *)
(* A layer object is kept alive by the TfRefPtrs threads hold.  The        *)
(* registry holds weak handles only, so a lookup can meet a layer whose    *)
(* count has already reached zero and whose destructor is waiting for the  *)
(* registry mutex: an "expiring" layer.                                    *)
(*                                                                         *)
(* The registry mutex is a tbb::queuing_rw_mutex: `readers' is the set of  *)
(* threads that hold it shared, `writer' the one that holds it exclusive.  *)
(***************************************************************************)
EXTENDS FiniteSets

CONSTANTS
  Threads,      \* threads calling into Sdf
  Layers,       \* memory of SdfLayer objects; a freed one may be reused
  Idents,       \* layer identifiers
  Paths,        \* resolved real paths
  RealPath,     \* what the resolver makes of an identifier
  None,         \* a null pointer
  SaveCanFail   \* whether writing a created layer to disk may fail

Kinds == {"open", "find", "create"}   \* FindOrOpen, Find and CreateNew

ASSUME RegistryAssumptions ==
  /\ RealPath \in [Idents -> Paths]
  /\ None \notin Threads
  /\ None \notin Layers
  /\ None \notin Idents
  /\ None \notin Paths
  /\ None \notin [kind : Kinds, id : Idents]
  /\ SaveCanFail \in BOOLEAN

VARIABLES
  readers,       \* threads holding the registry mutex for reading
  writer,        \* thread holding it for writing, or None
  registry,      \* Sdf_LayerRegistry::_layers
  ident,         \* _assetInfo->identifier; None where no object is constructed
  initSuccess,   \* _initializationWasSuccessful: "unset", "ok" or "failed"
  initComplete,  \* _initializationComplete
  pc,            \* where each thread is
  call,          \* the call a thread is executing and the identifier given to it
  held,          \* the TfRefPtr the caller keeps between calls
  tmp,           \* the TfRefPtr local to the running call
  cand,          \* the expiring layer _TryToFindLayer is about to erase
  dying          \* the layer whose destructor the thread is running

lockVars  == <<readers, writer>>
layerVars == <<registry, ident, initSuccess, initComplete>>
vars == <<readers, writer, registry, ident, initSuccess, initComplete,
          pc, call, held, tmp, cand, dying>>

(* The steps at which a thread holds the mutex, and those of the thread    *)
(* that is initializing a layer it constructed.                            *)
ReadHeld  == {"find", "upgrade"}
WriteHeld == {"retry", "miss", "create", "saving", "erase"}
Opening   == {"reading", "publish", "saving", "saveFailed"}
Labels    == ReadHeld \cup WriteHeld \cup Opening \cup
             {"idle", "acqRead", "acqRetry", "waitInit", "acqCreate", "dtor"}

TypeOK ==
  /\ readers \subseteq Threads
  /\ writer \in Threads \cup {None}
  /\ registry \subseteq Layers
  /\ ident \in [Layers -> Idents \cup {None}]
  /\ initSuccess \in [Layers -> {"unset", "ok", "failed"}]
  /\ initComplete \in [Layers -> BOOLEAN]
  /\ pc \in [Threads -> Labels]
  /\ call \in [Threads -> [kind : Kinds, id : Idents] \cup {None}]
  /\ held \in [Threads -> Layers \cup {None}]
  /\ tmp \in [Threads -> Layers \cup {None}]
  /\ cand \in [Threads -> Layers \cup {None}]
  /\ dying \in [Threads -> Layers \cup {None}]

(* The threads whose TfRefPtrs make up the reference count of l: the count *)
(* is zero exactly when there is none.                                     *)
Owners(l) == {t \in Threads : held[t] = l \/ tmp[t] = l}

(* layer_real_path, the key of the unique index: empty for a dead handle.  *)
PathOf(l) == IF ident[l] = None THEN None ELSE RealPath[ident[l]]

RegisteredPaths == {PathOf(l) : l \in registry}

(* Sdf_LayerRegistry::Find: the by_identifier index first, then the        *)
(* by_real_path index.                                                     *)
Matches(id) ==
  LET byIdentifier == {l \in registry : ident[l] = id}
      byRealPath   == {l \in registry : PathOf(l) = RealPath[id]}
  IN  IF byIdentifier # {} THEN byIdentifier ELSE byRealPath

Init ==
  /\ readers = {}
  /\ writer = None
  /\ registry = {}
  /\ ident = [l \in Layers |-> None]
  /\ initSuccess = [l \in Layers |-> "unset"]
  /\ initComplete = [l \in Layers |-> FALSE]
  /\ pc = [t \in Threads |-> "idle"]
  /\ call = [t \in Threads |-> None]
  /\ held = [t \in Threads |-> None]
  /\ tmp = [t \in Threads |-> None]
  /\ cand = [t \in Threads |-> None]
  /\ dying = [t \in Threads |-> None]

-----------------------------------------------------------------------------
(* The caller's side.                                                      *)

Goto(t, label) ==
  /\ pc' = [pc EXCEPT ![t] = label]
  /\ UNCHANGED call

Return(t) ==
  /\ pc' = [pc EXCEPT ![t] = "idle"]
  /\ call' = [call EXCEPT ![t] = None]

Call(t, kind, id, label) ==
  /\ pc[t] = "idle"
  /\ held[t] = None
  /\ pc' = [pc EXCEPT ![t] = label]
  /\ call' = [call EXCEPT ![t] = [kind |-> kind, id |-> id]]
  /\ UNCHANGED <<lockVars, layerVars, held, tmp, cand, dying>>

FindOrOpen(t, id) == Call(t, "open", id, "acqRead")
Find(t, id)       == Call(t, "find", id, "acqRead")
CreateNew(t, id)  == Call(t, "create", id, "acqCreate")

(* Giving up a TfRefPtr: whoever takes the count to zero runs ~SdfLayer.   *)
DestroyIfLast(t, l) ==
  IF Owners(l) = {t}
    THEN /\ dying' = [dying EXCEPT ![t] = l]
         /\ Goto(t, "dtor")
    ELSE /\ UNCHANGED dying
         /\ Return(t)

(* The caller drops the layer an earlier call returned.                    *)
ReleaseLayer(t) ==
  /\ pc[t] = "idle"
  /\ held[t] # None
  /\ held' = [held EXCEPT ![t] = None]
  /\ DestroyIfLast(t, held[t])
  /\ UNCHANGED <<lockVars, layerVars, tmp, cand>>

(* The running call drops its local TfRefPtr and returns null.             *)
DropLocal(t) ==
  /\ tmp' = [tmp EXCEPT ![t] = None]
  /\ DestroyIfLast(t, tmp[t])

-----------------------------------------------------------------------------
(* SdfLayer::_TryToFindLayer, entered with the mutex held for reading.     *)

AcquireRead(t) ==
  /\ pc[t] = "acqRead"
  /\ writer = None
  /\ readers' = readers \cup {t}
  /\ Goto(t, "find")
  /\ UNCHANGED <<writer, layerVars, held, tmp, cand, dying>>

(* Mutant: the count of the layer found is not looked at.                  *)
FindHitExpiring(t) ==
  /\ pc[t] = "find"
  /\ \E l \in Matches(call[t].id) : tmp' = [tmp EXCEPT ![t] = l]
  /\ readers' = readers \ {t}
  /\ Goto(t, "waitInit")
  /\ UNCHANGED <<writer, layerVars, held, cand, dying>>

(* The handle could be turned into a TfRefPtr (AddRefIfNonzero): release.  *)
FindHit(t) ==
  /\ pc[t] = "find"
  /\ \E l \in Matches(call[t].id) :
        /\ Owners(l) # {}
        /\ tmp' = [tmp EXCEPT ![t] = l]
  /\ readers' = readers \ {t}
  /\ Goto(t, "waitInit")
  /\ UNCHANGED <<writer, layerVars, held, cand, dying>>

(* The layer found is expiring: upgrade, in order to erase it.             *)
FindExpiring(t) ==
  /\ pc[t] = "find"
  /\ \E l \in Matches(call[t].id) :
        /\ Owners(l) = {}
        /\ cand' = [cand EXCEPT ![t] = l]
  /\ Goto(t, "upgrade")
  /\ UNCHANGED <<lockVars, layerVars, held, tmp, dying>>

(* No layer: FindOrOpen (retryAsWriter) upgrades, Find gives up.           *)
FindMiss(t) ==
  /\ pc[t] = "find"
  /\ Matches(call[t].id) = {}
  /\ IF call[t].kind = "open"
       THEN /\ Goto(t, "upgrade")
            /\ UNCHANGED readers
       ELSE /\ Return(t)
            /\ readers' = readers \ {t}
  /\ UNCHANGED <<writer, layerVars, held, tmp, cand, dying>>

(* upgrade_to_writer returned true: the read lock was never given up, so   *)
(* what was found under it still stands.                                   *)
UpgradeAtomic(t) ==
  /\ pc[t] = "upgrade"
  /\ readers = {t}
  /\ readers' = {}
  /\ writer' = t
  /\ registry' = registry \ {cand[t]}
  /\ cand' = [cand EXCEPT ![t] = None]
  /\ Goto(t, "miss")
  /\ UNCHANGED <<ident, initSuccess, initComplete, held, tmp, dying>>

(* upgrade_to_writer will return false: the lock is released meanwhile.    *)
UpgradeReleasing(t) ==
  /\ pc[t] = "upgrade"
  /\ readers' = readers \ {t}
  /\ cand' = [cand EXCEPT ![t] = None]
  /\ Goto(t, "acqRetry")
  /\ UNCHANGED <<writer, layerVars, held, tmp, dying>>

AcquireWrite(t, from, to) ==
  /\ pc[t] = from
  /\ readers = {}
  /\ writer = None
  /\ writer' = t
  /\ Goto(t, to)
  /\ UNCHANGED <<readers, layerVars, held, tmp, cand, dying>>

(* Mutant: the lookup is not repeated after an upgrade that let go.        *)
UpgradeWithoutRetry(t) == AcquireWrite(t, "acqRetry", "miss")

UpgradeAcquire(t) == AcquireWrite(t, "acqRetry", "retry")

(* The lookup repeated (goto retry) with the write lock.                   *)
RetryHit(t) ==
  /\ pc[t] = "retry"
  /\ \E l \in Matches(call[t].id) :
        /\ Owners(l) # {}
        /\ tmp' = [tmp EXCEPT ![t] = l]
  /\ writer' = None
  /\ Goto(t, "waitInit")
  /\ UNCHANGED <<readers, layerVars, held, cand, dying>>

RetryExpiring(t) ==
  /\ pc[t] = "retry"
  /\ \E l \in Matches(call[t].id) :
        /\ Owners(l) = {}
        /\ registry' = registry \ {l}
  /\ Goto(t, "miss")
  /\ UNCHANGED <<lockVars, ident, initSuccess, initComplete,
                 held, tmp, cand, dying>>

RetryMiss(t) ==
  /\ pc[t] = "retry"
  /\ Matches(call[t].id) = {}
  /\ Goto(t, "miss")
  /\ UNCHANGED <<lockVars, layerVars, held, tmp, cand, dying>>

(* Find, or FindOrOpen of an identifier that resolves to no asset or whose *)
(* file format is unknown: the lock is released, the result is null.       *)
ReturnNothing(t) ==
  /\ pc[t] = "miss"
  /\ writer' = None
  /\ Return(t)
  /\ UNCHANGED <<readers, layerVars, held, tmp, cand, dying>>

-----------------------------------------------------------------------------
(* The SdfLayer constructor: _initializationComplete is set false and      *)
(* _InitializeFromIdentifier enters the layer into the registry, unless    *)
(* the real path is taken.                                                 *)
Construct(t, l) ==
  /\ ident[l] = None
  /\ ident' = [ident EXCEPT ![l] = call[t].id]
  /\ initSuccess' = [initSuccess EXCEPT ![l] = "unset"]
  /\ initComplete' = [initComplete EXCEPT ![l] = FALSE]
  /\ registry' = IF RealPath[call[t].id] \in RegisteredPaths
                   THEN registry ELSE registry \cup {l}
  /\ tmp' = [tmp EXCEPT ![t] = l]

(* _OpenLayerAndUnlockRegistry up to lock.release().                       *)
OpenLayer(t, l) ==
  /\ pc[t] = "miss"
  /\ call[t].kind = "open"
  /\ Construct(t, l)
  /\ writer' = None
  /\ Goto(t, "reading")
  /\ UNCHANGED <<readers, held, cand, dying>>

(* Mutants: the waiters are unblocked before the outcome is stored; the    *)
(* early return after a failed read does not unblock them.                 *)
FinishReadCompleteFirst(t, outcome) ==
  /\ pc[t] = "reading"
  /\ initComplete' = [initComplete EXCEPT ![tmp[t]] = TRUE]
  /\ Goto(t, "publish")
  /\ UNCHANGED <<lockVars, registry, ident, initSuccess,
                 held, tmp, cand, dying>>

FinishReadEarlyReturn(t, outcome) ==
  /\ pc[t] = "reading"
  /\ initSuccess' = [initSuccess EXCEPT ![tmp[t]] = outcome]
  /\ IF outcome = "ok"
       THEN Goto(t, "publish") /\ UNCHANGED <<tmp, dying>>
       ELSE DropLocal(t)
  /\ UNCHANGED <<lockVars, registry, ident, initComplete, held, cand>>

(* _Read has returned; _FinishInitialization stores the outcome ...        *)
FinishRead(t, outcome) ==
  /\ pc[t] = "reading"
  /\ initSuccess' = [initSuccess EXCEPT ![tmp[t]] = outcome]
  /\ Goto(t, "publish")
  /\ UNCHANGED <<lockVars, registry, ident, initComplete,
                 held, tmp, cand, dying>>

(* ... and only then unblocks the waiters.                                 *)
FinishInitialization(t) ==
  /\ pc[t] = "publish"
  /\ initComplete' = [initComplete EXCEPT ![tmp[t]] = TRUE]
  /\ Goto(t, "waitInit")
  /\ UNCHANGED <<lockVars, registry, ident, initSuccess,
                 held, tmp, cand, dying>>

(* _WaitForInitializationAndCheckIfSuccessful and the return that follows: *)
(* FindOrOpen hands its TfRefPtr to the caller; Find returns a weak handle *)
(* and drops it, as everyone does with a layer that failed to initialize.  *)
ReturnLayer(t) ==
  /\ pc[t] = "waitInit"
  /\ initComplete[tmp[t]]
  /\ IF call[t].kind = "open" /\ initSuccess[tmp[t]] = "ok"
       THEN /\ held' = [held EXCEPT ![t] = tmp[t]]
            /\ tmp' = [tmp EXCEPT ![t] = None]
            /\ Return(t)
            /\ UNCHANGED dying
       ELSE /\ DropLocal(t)
            /\ UNCHANGED held
  /\ UNCHANGED <<lockVars, layerVars, cand>>

-----------------------------------------------------------------------------
(* SdfLayer::_CreateNew, under the write lock from the lookup to the end.  *)

CreateAcquire(t) == AcquireWrite(t, "acqCreate", "create")

(* A layer of that identifier exists, be it expiring: a coding error.      *)
CreateExisting(t) ==
  /\ pc[t] = "create"
  /\ Matches(call[t].id) # {}
  /\ writer' = None
  /\ Return(t)
  /\ UNCHANGED <<readers, layerVars, held, tmp, cand, dying>>

CreateLayer(t, l) ==
  /\ pc[t] = "create"
  /\ Matches(call[t].id) = {}
  /\ Construct(t, l)
  /\ Goto(t, "saving")
  /\ UNCHANGED <<lockVars, held, cand, dying>>

SaveSucceeds(t) ==
  /\ pc[t] = "saving"
  /\ initSuccess' = [initSuccess EXCEPT ![tmp[t]] = "ok"]
  /\ initComplete' = [initComplete EXCEPT ![tmp[t]] = TRUE]
  /\ writer' = None
  /\ held' = [held EXCEPT ![t] = tmp[t]]
  /\ tmp' = [tmp EXCEPT ![t] = None]
  /\ Return(t)
  /\ UNCHANGED <<readers, registry, ident, cand, dying>>

(* The return leaves the scope of the lock before it drops the TfRefPtr,   *)
(* which is declared outside of it: ~SdfLayer takes the same mutex.        *)
SaveFails(t) ==
  /\ pc[t] = "saving"
  /\ SaveCanFail
  /\ writer' = None
  /\ Goto(t, "saveFailed")
  /\ UNCHANGED <<readers, layerVars, held, tmp, cand, dying>>

DropUnsaved(t) ==
  /\ pc[t] = "saveFailed"
  /\ DropLocal(t)
  /\ UNCHANGED <<lockVars, layerVars, held, cand>>

-----------------------------------------------------------------------------
(* SdfLayer::~SdfLayer                                                     *)

DestroyAcquire(t) == AcquireWrite(t, "dtor", "erase")

(* Mutant: the registry is left alone.                                     *)
FreeWithoutErase(t) ==
  /\ pc[t] = "erase"
  /\ ident' = [ident EXCEPT ![dying[t]] = None]
  /\ initSuccess' = [initSuccess EXCEPT ![dying[t]] = "unset"]
  /\ initComplete' = [initComplete EXCEPT ![dying[t]] = FALSE]
  /\ dying' = [dying EXCEPT ![t] = None]
  /\ writer' = None
  /\ Return(t)
  /\ UNCHANGED <<registry, readers, held, tmp, cand>>

(* Erase from the registry, which a FindOrOpen may have done before;       *)
(* release; the memory is free from here on.                               *)
EraseAndFree(t) ==
  /\ pc[t] = "erase"
  /\ registry' = registry \ {dying[t]}
  /\ ident' = [ident EXCEPT ![dying[t]] = None]
  /\ initSuccess' = [initSuccess EXCEPT ![dying[t]] = "unset"]
  /\ initComplete' = [initComplete EXCEPT ![dying[t]] = FALSE]
  /\ dying' = [dying EXCEPT ![t] = None]
  /\ writer' = None
  /\ Return(t)
  /\ UNCHANGED <<readers, held, tmp, cand>>

-----------------------------------------------------------------------------
(* What a caller chooses to do, and what a running call does by itself.    *)
Caller(t) ==
  \/ \E id \in Idents : FindOrOpen(t, id) \/ Find(t, id) \/ CreateNew(t, id)
  \/ ReleaseLayer(t)

Lookup(t) ==
  \/ FindHit(t) \/ FindExpiring(t) \/ FindMiss(t)
  \/ UpgradeAtomic(t) \/ UpgradeReleasing(t)
  \/ RetryHit(t) \/ RetryExpiring(t) \/ RetryMiss(t)

Open(t) ==
  \/ ReturnNothing(t)
  \/ \E l \in Layers : OpenLayer(t, l)
  \/ \E outcome \in {"ok", "failed"} : FinishRead(t, outcome)
  \/ FinishInitialization(t) \/ ReturnLayer(t)

Create(t) ==
  \/ CreateExisting(t)
  \/ \E l \in Layers : CreateLayer(t, l)
  \/ SaveSucceeds(t) \/ SaveFails(t) \/ DropUnsaved(t)

Acquire(t) ==
  AcquireRead(t) \/ UpgradeAcquire(t) \/ CreateAcquire(t) \/ DestroyAcquire(t)

Run(t) == Lookup(t) \/ Open(t) \/ Create(t) \/ EraseAndFree(t)

Next == \E t \in Threads : Caller(t) \/ Acquire(t) \/ Run(t)

Spec == Init /\ [][Next]_vars

(* A running call is scheduled; queuing_rw_mutex serves waiters in order,  *)
(* so a thread that can take the lock again and again is not passed over.  *)
Fairness == \A t \in Threads : WF_vars(Run(t)) /\ SF_vars(Acquire(t))

FairSpec == Spec /\ Fairness

-----------------------------------------------------------------------------
(* Two threads never hold two different layers of the same real path: what *)
(* is opened by one is what another finds, however their lookups, upgrades *)
(* and the destruction of an earlier layer of that path interleave.        *)
UniqueLayer ==
  \A l, m \in Layers :
    Owners(l) # {} /\ Owners(m) # {} /\ PathOf(l) = PathOf(m) => l = m

(* Nobody gets hold of a layer before the thread that opened it has read   *)
(* it (_WaitForInitializationAndCheckIfSuccessful), nor of one whose       *)
(* reading failed; the outcome is stored before waiters are let go.        *)
OnlyReadLayersReturned ==
  /\ \A t \in Threads : held[t] # None => /\ initComplete[held[t]]
                                          /\ initSuccess[held[t]] = "ok"
  /\ \A l \in Layers : initComplete[l] => initSuccess[l] # "unset"

(* The weak handles of the registry never outlive their layers, although   *)
(* both ~SdfLayer and _TryToFindLayer erase (GetLayers: "Found expired     *)
(* layer in registry"); and a layer in use is always found there.          *)
RegistryTracksLayers ==
  \A l \in Layers : /\ l \in registry => ident[l] # None
                    /\ Owners(l) # {} => l \in registry

(* While any thread reads the registry, nobody changes it or frees one of  *)
(* its layers: the handle _TryToFindLayer has found is safe to use until   *)
(* the lock is released.                                                   *)
StableForReaders ==
  [][readers # {} /\ readers' # {} => UNCHANGED <<registry, ident>>]_vars

(* Every call returns: no thread waits for ever for the registry mutex or  *)
(* for the initialization of a layer another thread opens.                 *)
CallsReturn == \A t \in Threads : pc[t] # "idle" ~> pc[t] = "idle"

-----------------------------------------------------------------------------
(* The inductive invariant of the safety proofs, part by part.             *)

LockOwners ==
  /\ readers = {t \in Threads : pc[t] \in ReadHeld}
  /\ \A t \in Threads : writer = t <=> pc[t] \in WriteHeld
  /\ writer # None => readers = {}

CallShape == \A t \in Threads :
  /\ pc[t] \notin {"idle", "dtor", "erase"} => call[t] # None
  /\ tmp[t] # None <=> pc[t] \in Opening \cup {"waitInit"}
  /\ held[t] # None => pc[t] = "idle"
  /\ cand[t] # None => pc[t] = "upgrade"
  /\ dying[t] # None <=> pc[t] \in {"dtor", "erase"}

RegistryShape ==
  /\ \A l \in registry : ident[l] # None
  /\ \A l, m \in registry : PathOf(l) = PathOf(m) => l = m
  /\ \A l \in Layers : Owners(l) # {} => l \in registry

(* A layer has one destroyer, and no lookup brings it back.                *)
DyingShape == \A t \in Threads : dying[t] # None =>
  /\ Owners(dying[t]) = {}
  /\ ident[dying[t]] # None
  /\ \A u \in Threads : dying[u] = dying[t] => u = t

(* What a lookup found stands until the layer it calls for is constructed. *)
LookupStands == \A t \in Threads :
  /\ pc[t] = "upgrade" /\ cand[t] = None => Matches(call[t].id) = {}
  /\ pc[t] = "upgrade" /\ cand[t] # None => /\ cand[t] \in registry
                                           /\ Owners(cand[t]) = {}
                                           /\ PathOf(cand[t]) = RealPath[call[t].id]
  /\ pc[t] = "miss" => \A l \in registry : PathOf(l) # RealPath[call[t].id]

(* A layer is initialized once, by the thread that constructed it.         *)
InitShape ==
  /\ \A t \in Threads : pc[t] \in Opening =>
        /\ ~initComplete[tmp[t]]
        /\ \A u \in Threads : pc[u] \in Opening /\ tmp[u] = tmp[t] => u = t
        /\ pc[t] = "publish" => initSuccess[tmp[t]] # "unset"
  /\ OnlyReadLayersReturned

IInv ==
  /\ TypeOK /\ LockOwners /\ CallShape /\ RegistryShape
  /\ DyingShape /\ LookupStands /\ InitShape

-----------------------------------------------------------------------------
(* What the protocol amounts to: threads joining and leaving the one live  *)
(* layer of a path.                                                        *)
Ref      == [t \in Threads |-> IF tmp[t] = None THEN held[t] ELSE tmp[t]]
LivePath == [l \in Layers |-> IF Owners(l) = {} THEN None ELSE PathOf(l)]

Sharing == INSTANCE SharedObjects WITH
  Users <- Threads, Objects <- Layers, Keys <- Paths, ref <- Ref, key <- LivePath

ImplementsSharing == Sharing!Spec
=============================================================================
