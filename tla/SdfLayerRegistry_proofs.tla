----------------------- MODULE SdfLayerRegistry_proofs -----------------------
(***************************************************************************)
(* Proofs about SdfLayerRegistry, for any sets of threads, layers and      *)
(* identifiers and any resolver.  The invariant IInv is shown inductive    *)
(* one action at a time; what matters most in it is LookupStands: what a   *)
(* lookup has found, or not found, stays so until the thread acts on it.   *)
(***************************************************************************)
EXTENDS SdfLayerRegistry, TLAPS

(* What Sdf_LayerRegistry::Find returns has the real path that is asked    *)
(* for, and when it returns nothing no registered layer has it.            *)
LEMMA MatchFound ==
  ASSUME NEW id \in Idents, NEW l \in Matches(id)
  PROVE  l \in registry /\ PathOf(l) = RealPath[id]
BY RegistryAssumptions DEF Matches, PathOf

LEMMA NoMatch ==
  ASSUME NEW id \in Idents, Matches(id) = {}
  PROVE  \A l \in registry : PathOf(l) # RealPath[id]
BY DEF Matches, PathOf

LEMMA CallHasId ==
  ASSUME TypeOK, CallShape, NEW t \in Threads, pc[t] \notin {"idle", "dtor", "erase"}
  PROVE  call[t].id \in Idents
BY DEF TypeOK, CallShape

LEMMA CallStep ==
  ASSUME NEW t \in Threads, NEW id \in Idents, IInv,
         FindOrOpen(t, id) \/ Find(t, id) \/ CreateNew(t, id)
  PROVE  IInv'
<1> USE DEF IInv
<1>1. PICK kind \in Kinds, label \in {"acqRead", "acqCreate"} : Call(t, kind, id, label)
  BY DEF FindOrOpen, Find, CreateNew, Kinds
<1>2. TypeOK'
  BY <1>1 DEF Call, lockVars, layerVars, TypeOK, Labels
<1>3. LockOwners'
  BY <1>1 DEF Call, lockVars, LockOwners, ReadHeld, WriteHeld
<1>4. CallShape'
  BY <1>1, RegistryAssumptions DEF Call, TypeOK, CallShape, Opening
<1>5. RegistryShape'
  BY <1>1 DEF Call, layerVars, RegistryShape, PathOf, Owners
<1>6. DyingShape'
  BY <1>1 DEF Call, layerVars, DyingShape, Owners
<1>7. LookupStands'
  BY <1>1 DEF Call, layerVars, LookupStands, PathOf, Owners, Matches
<1>8. InitShape'
  BY <1>1 DEF Call, layerVars, InitShape, OnlyReadLayersReturned, Opening
<1>. QED  BY <1>2, <1>3, <1>4, <1>5, <1>6, <1>7, <1>8

LEMMA ReleaseLayerStep ==
  ASSUME NEW t \in Threads, IInv, ReleaseLayer(t)
  PROVE  IInv'
<1> USE DEF IInv
<1>1. TypeOK'
  BY DEF ReleaseLayer, DestroyIfLast, lockVars, layerVars, Goto, Return,
       TypeOK, Labels
<1>2. LockOwners'
  BY DEF ReleaseLayer, DestroyIfLast, lockVars, Goto, Return, TypeOK,
       LockOwners, ReadHeld, WriteHeld
<1>3. CallShape'
  BY DEF ReleaseLayer, DestroyIfLast, Goto, Return, TypeOK, CallShape,
       Opening
<1>4. RegistryShape'
  BY RegistryAssumptions DEF ReleaseLayer, layerVars, RegistryShape, PathOf,
       Owners
<1>5. DyingShape'
  BY DEF ReleaseLayer, DestroyIfLast, layerVars, TypeOK, CallShape,
       RegistryShape, DyingShape, Owners, Opening
<1>6. LookupStands'
  BY DEF ReleaseLayer, DestroyIfLast, layerVars, Goto, Return, TypeOK,
       LookupStands, PathOf, Owners, Matches, Kinds
<1>7. InitShape'
  BY DEF ReleaseLayer, DestroyIfLast, layerVars, Goto, Return, TypeOK,
       InitShape, OnlyReadLayersReturned, Opening
<1>. QED  BY <1>1, <1>2, <1>3, <1>4, <1>5, <1>6, <1>7

LEMMA AcquireReadStep ==
  ASSUME NEW t \in Threads, IInv, AcquireRead(t)
  PROVE  IInv'
<1> USE DEF IInv
<1>1. TypeOK'
  BY DEF AcquireRead, Goto, layerVars, TypeOK, Labels, ReadHeld
<1>2. LockOwners'
  BY DEF AcquireRead, Goto, TypeOK, LockOwners, ReadHeld, WriteHeld
<1>3. CallShape'
  BY DEF AcquireRead, Goto, CallShape, Opening
<1>4. RegistryShape'
  BY DEF AcquireRead, layerVars, RegistryShape, PathOf, Owners
<1>5. DyingShape'
  BY DEF AcquireRead, layerVars, DyingShape, Owners
<1>6. LookupStands'
  BY DEF AcquireRead, Goto, layerVars, LookupStands, PathOf, Owners, Matches
<1>7. InitShape'
  BY DEF AcquireRead, Goto, layerVars, InitShape, OnlyReadLayersReturned,
       Opening
<1>. QED  BY <1>1, <1>2, <1>3, <1>4, <1>5, <1>6, <1>7

LEMMA FindHitStep ==
  ASSUME NEW t \in Threads, IInv, FindHit(t)
  PROVE  IInv'
<1> USE DEF IInv
<1>1. PICK l \in Matches(call[t].id) :
          Owners(l) # {} /\ tmp' = [tmp EXCEPT ![t] = l]
  BY DEF FindHit
<1>2. l \in registry /\ PathOf(l) = RealPath[call[t].id]
  BY <1>1, MatchFound, CallHasId DEF FindHit
<1>3. TypeOK'
  BY <1>1, <1>2 DEF FindHit, Goto, layerVars, TypeOK, Labels
<1>4. LockOwners'
  BY DEF FindHit, Goto, TypeOK, LockOwners, ReadHeld, WriteHeld
<1>5. CallShape'
  BY RegistryAssumptions, <1>1, <1>2 DEF FindHit, Goto, TypeOK, CallShape
<1>6. RegistryShape'
  BY DEF FindHit, layerVars, RegistryShape, PathOf, Owners
<1>7. DyingShape'
  BY DEF FindHit, layerVars, DyingShape, Owners
<1>8. LookupStands'
  BY DEF FindHit, Goto, layerVars, LookupStands, PathOf, Owners, Matches
<1>9. InitShape'
  BY DEF FindHit, Goto, layerVars, InitShape, OnlyReadLayersReturned, Opening
<1>. QED  BY <1>3, <1>4, <1>5, <1>6, <1>7, <1>8, <1>9

LEMMA FindExpiringStep ==
  ASSUME NEW t \in Threads, IInv, FindExpiring(t)
  PROVE  IInv'
<1> USE DEF IInv
<1>1. PICK l \in Matches(call[t].id) :
          Owners(l) = {} /\ cand' = [cand EXCEPT ![t] = l]
  BY DEF FindExpiring
<1>2. l \in registry /\ PathOf(l) = RealPath[call[t].id]
  BY <1>1, MatchFound, CallHasId DEF FindExpiring
<1>3. TypeOK'
  BY <1>1, <1>2 DEF FindExpiring, Goto, lockVars, layerVars, TypeOK, Labels,
       ReadHeld
<1>4. LockOwners'
  BY DEF FindExpiring, Goto, lockVars, LockOwners, ReadHeld, WriteHeld
<1>5. CallShape'
  BY DEF FindExpiring, Goto, TypeOK, CallShape, Opening
<1>6. RegistryShape'
  BY DEF FindExpiring, layerVars, RegistryShape, PathOf, Owners
<1>7. DyingShape'
  BY DEF FindExpiring, layerVars, DyingShape, Owners
<1>8. LookupStands'
  BY RegistryAssumptions, <1>2 DEF FindExpiring, Goto, layerVars, TypeOK,
       LookupStands, PathOf, Owners, Matches
<1>9. InitShape'
  BY DEF FindExpiring, Goto, layerVars, InitShape, OnlyReadLayersReturned,
       Opening
<1>. QED  BY <1>3, <1>4, <1>5, <1>6, <1>7, <1>8, <1>9

LEMMA FindMissStep ==
  ASSUME NEW t \in Threads, IInv, FindMiss(t)
  PROVE  IInv'
<1> USE DEF IInv
<1>1. call[t].id \in Idents
  BY CallHasId DEF FindMiss
<1>2. TypeOK'
  BY DEF FindMiss, Goto, Return, layerVars, TypeOK, Labels, ReadHeld
<1>3. LockOwners'
  BY DEF FindMiss, Goto, Return, TypeOK, LockOwners, ReadHeld, WriteHeld
<1>4. CallShape'
  BY DEF FindMiss, Goto, Return, TypeOK, CallShape, Opening
<1>5. RegistryShape'
  BY DEF FindMiss, layerVars, RegistryShape, PathOf, Owners
<1>6. DyingShape'
  BY DEF FindMiss, layerVars, DyingShape, Owners
<1>7. LookupStands'
  BY DEF FindMiss, Goto, Return, layerVars, TypeOK, CallShape, LookupStands,
       PathOf, Owners, Matches
<1>8. InitShape'
  BY DEF FindMiss, Goto, Return, layerVars, TypeOK, InitShape,
       OnlyReadLayersReturned, Opening
<1>. QED  BY <1>2, <1>3, <1>4, <1>5, <1>6, <1>7, <1>8

LEMMA UpgradeAtomicStep ==
  ASSUME NEW t \in Threads, IInv, UpgradeAtomic(t)
  PROVE  IInv'
<1> USE DEF IInv
<1>1. TypeOK'
  BY DEF UpgradeAtomic, Goto, TypeOK, Labels, WriteHeld
<1>2. LockOwners'
  BY RegistryAssumptions DEF UpgradeAtomic, Goto, TypeOK, LockOwners,
       ReadHeld, WriteHeld
<1>3. CallShape'
  BY DEF UpgradeAtomic, Goto, TypeOK, CallShape, Opening
<1>4. RegistryShape'
  BY RegistryAssumptions DEF UpgradeAtomic, RegistryShape, LookupStands,
       PathOf, Owners
<1>5. DyingShape'
  BY DEF UpgradeAtomic, DyingShape, Owners
<1>6. LookupStands'
  BY DEF UpgradeAtomic, Goto, TypeOK, LockOwners, RegistryShape,
       LookupStands, PathOf, Matches
<1>7. InitShape'
  BY DEF UpgradeAtomic, Goto, InitShape, OnlyReadLayersReturned, Opening
<1>. QED  BY <1>1, <1>2, <1>3, <1>4, <1>5, <1>6, <1>7

LEMMA UpgradeReleasingStep ==
  ASSUME NEW t \in Threads, IInv, UpgradeReleasing(t)
  PROVE  IInv'
<1> USE DEF IInv
<1>1. TypeOK'
  BY DEF UpgradeReleasing, Goto, layerVars, TypeOK, Labels
<1>2. LockOwners'
  BY DEF UpgradeReleasing, Goto, TypeOK, LockOwners, ReadHeld, WriteHeld
<1>3. CallShape'
  BY DEF UpgradeReleasing, Goto, TypeOK, CallShape, Opening
<1>4. RegistryShape'
  BY DEF UpgradeReleasing, layerVars, RegistryShape, PathOf, Owners
<1>5. DyingShape'
  BY DEF UpgradeReleasing, layerVars, DyingShape, Owners
<1>6. LookupStands'
  BY DEF UpgradeReleasing, Goto, layerVars, TypeOK, LookupStands, PathOf,
       Owners, Matches
<1>7. InitShape'
  BY DEF UpgradeReleasing, Goto, layerVars, InitShape,
       OnlyReadLayersReturned, Opening
<1>. QED  BY <1>1, <1>2, <1>3, <1>4, <1>5, <1>6, <1>7

LEMMA UpgradeAcquireStep ==
  ASSUME NEW t \in Threads, IInv, UpgradeAcquire(t)
  PROVE  IInv'
<1> USE DEF IInv
<1>1. TypeOK'
  BY DEF UpgradeAcquire, AcquireWrite, Goto, layerVars, TypeOK, Labels,
       WriteHeld
<1>2. LockOwners'
  BY RegistryAssumptions DEF UpgradeAcquire, AcquireWrite, Goto, TypeOK,
       LockOwners, ReadHeld, WriteHeld
<1>3. CallShape'
  BY DEF UpgradeAcquire, AcquireWrite, Goto, CallShape, Opening
<1>4. RegistryShape'
  BY DEF UpgradeAcquire, AcquireWrite, layerVars, RegistryShape, PathOf,
       Owners
<1>5. DyingShape'
  BY DEF UpgradeAcquire, AcquireWrite, layerVars, DyingShape, Owners
<1>6. LookupStands'
  BY RegistryAssumptions DEF UpgradeAcquire, AcquireWrite, Goto, LockOwners,
       LookupStands, ReadHeld, WriteHeld
<1>7. InitShape'
  BY DEF UpgradeAcquire, AcquireWrite, Goto, layerVars, InitShape,
       OnlyReadLayersReturned, Opening
<1>. QED  BY <1>1, <1>2, <1>3, <1>4, <1>5, <1>6, <1>7

LEMMA RetryHitStep ==
  ASSUME NEW t \in Threads, IInv, RetryHit(t)
  PROVE  IInv'
<1> USE DEF IInv
<1>1. PICK l \in Matches(call[t].id) :
          Owners(l) # {} /\ tmp' = [tmp EXCEPT ![t] = l]
  BY DEF RetryHit
<1>2. l \in registry /\ PathOf(l) = RealPath[call[t].id]
  BY <1>1, MatchFound, CallHasId DEF RetryHit
<1>3. TypeOK'
  BY <1>1, <1>2 DEF RetryHit, Goto, layerVars, TypeOK, Labels
<1>4. LockOwners'
  BY RegistryAssumptions DEF RetryHit, Goto, TypeOK, LockOwners, ReadHeld,
       WriteHeld
<1>5. CallShape'
  BY RegistryAssumptions, <1>1, <1>2 DEF RetryHit, Goto, TypeOK, CallShape
<1>6. RegistryShape'
  BY DEF RetryHit, layerVars, RegistryShape, PathOf, Owners
<1>7. DyingShape'
  BY DEF RetryHit, layerVars, DyingShape, Owners
<1>8. LookupStands'
  BY RegistryAssumptions DEF RetryHit, Goto, LockOwners, LookupStands,
       ReadHeld, WriteHeld
<1>9. InitShape'
  BY DEF RetryHit, Goto, layerVars, InitShape, OnlyReadLayersReturned,
       Opening
<1>. QED  BY <1>3, <1>4, <1>5, <1>6, <1>7, <1>8, <1>9

LEMMA RetryExpiringStep ==
  ASSUME NEW t \in Threads, IInv, RetryExpiring(t)
  PROVE  IInv'
<1> USE DEF IInv
<1>1. PICK l \in Matches(call[t].id) :
          Owners(l) = {} /\ registry' = registry \ {l}
  BY DEF RetryExpiring
<1>2. l \in registry /\ PathOf(l) = RealPath[call[t].id]
  BY <1>1, MatchFound, CallHasId DEF RetryExpiring
<1>3. TypeOK'
  BY DEF RetryExpiring, Goto, lockVars, TypeOK, Labels, WriteHeld
<1>4. LockOwners'
  BY DEF RetryExpiring, Goto, lockVars, LockOwners, ReadHeld, WriteHeld
<1>5. CallShape'
  BY DEF RetryExpiring, Goto, CallShape, Opening
<1>6. RegistryShape'
  BY DEF RetryExpiring, RegistryShape, PathOf, Owners
<1>7. DyingShape'
  BY DEF RetryExpiring, DyingShape, Owners
<1>8. LookupStands'
  BY RegistryAssumptions, <1>1, <1>2 DEF RetryExpiring, Goto, LockOwners,
       RegistryShape, LookupStands, PathOf, ReadHeld, WriteHeld
<1>9. InitShape'
  BY DEF RetryExpiring, Goto, InitShape, OnlyReadLayersReturned, Opening
<1>. QED  BY <1>3, <1>4, <1>5, <1>6, <1>7, <1>8, <1>9

LEMMA RetryMissStep ==
  ASSUME NEW t \in Threads, IInv, RetryMiss(t)
  PROVE  IInv'
<1> USE DEF IInv
<1>1. call[t].id \in Idents
  BY CallHasId DEF RetryMiss
<1>2. TypeOK'
  BY DEF RetryMiss, Goto, lockVars, layerVars, TypeOK, Labels, WriteHeld
<1>3. LockOwners'
  BY DEF RetryMiss, Goto, lockVars, LockOwners, ReadHeld, WriteHeld
<1>4. CallShape'
  BY DEF RetryMiss, Goto, CallShape, Opening
<1>5. RegistryShape'
  BY DEF RetryMiss, layerVars, RegistryShape, PathOf, Owners
<1>6. DyingShape'
  BY DEF RetryMiss, layerVars, DyingShape, Owners
<1>7. LookupStands'
  BY DEF RetryMiss, Goto, layerVars, LookupStands, PathOf, Owners, Matches
<1>8. InitShape'
  BY DEF RetryMiss, Goto, layerVars, InitShape, OnlyReadLayersReturned,
       Opening
<1>. QED  BY <1>2, <1>3, <1>4, <1>5, <1>6, <1>7, <1>8

LEMMA ReturnNothingStep ==
  ASSUME NEW t \in Threads, IInv, ReturnNothing(t)
  PROVE  IInv'
<1> USE DEF IInv
<1>1. TypeOK'
  BY DEF ReturnNothing, Return, layerVars, TypeOK, Labels
<1>2. LockOwners'
  BY RegistryAssumptions DEF ReturnNothing, Return, TypeOK, LockOwners,
       ReadHeld, WriteHeld
<1>3. CallShape'
  BY DEF ReturnNothing, Return, TypeOK, CallShape, Opening
<1>4. RegistryShape'
  BY DEF ReturnNothing, layerVars, RegistryShape, PathOf, Owners
<1>5. DyingShape'
  BY DEF ReturnNothing, layerVars, DyingShape, Owners
<1>6. LookupStands'
  BY RegistryAssumptions DEF ReturnNothing, Return, TypeOK, LockOwners,
       LookupStands, ReadHeld, WriteHeld
<1>7. InitShape'
  BY DEF ReturnNothing, Return, layerVars, InitShape, OnlyReadLayersReturned,
       Opening
<1>. QED  BY <1>1, <1>2, <1>3, <1>4, <1>5, <1>6, <1>7

LEMMA OpenLayerStep ==
  ASSUME NEW t \in Threads, NEW l \in Layers, IInv, OpenLayer(t, l)
  PROVE  IInv'
<1> USE DEF IInv
<1>1. call[t].id \in Idents
  BY CallHasId DEF OpenLayer
<1>2. RealPath[call[t].id] \notin RegisteredPaths
  BY DEF OpenLayer, LookupStands, RegisteredPaths
<1>3. TypeOK'
  BY <1>1 DEF OpenLayer, Goto, Construct, TypeOK, Labels, Opening
<1>4. LockOwners'
  BY RegistryAssumptions DEF OpenLayer, Goto, TypeOK, LockOwners, ReadHeld,
       WriteHeld
<1>5. CallShape'
  BY RegistryAssumptions DEF OpenLayer, Goto, Construct, TypeOK, CallShape,
       Opening
<1>6. RegistryShape'
  BY RegistryAssumptions, <1>1, <1>2 DEF OpenLayer, Construct, TypeOK,
       RegistryShape, LookupStands, PathOf, Owners
<1>7. DyingShape'
  BY DEF OpenLayer, Construct, DyingShape, Owners
<1>8. LookupStands'
  BY RegistryAssumptions DEF OpenLayer, Goto, TypeOK, LockOwners,
       LookupStands, ReadHeld, WriteHeld
<1>9. InitShape'
  BY DEF OpenLayer, Goto, Construct, TypeOK, RegistryShape, InitShape,
       Owners, OnlyReadLayersReturned
<1>. QED  BY <1>3, <1>4, <1>5, <1>6, <1>7, <1>8, <1>9

LEMMA FinishReadStep ==
  ASSUME NEW t \in Threads, NEW outcome \in {"ok", "failed"}, IInv, FinishRead(t, outcome)
  PROVE  IInv'
<1> USE DEF IInv
<1>1. TypeOK'
  BY DEF FinishRead, Goto, lockVars, TypeOK, CallShape, Labels, Opening
<1>2. LockOwners'
  BY DEF FinishRead, Goto, lockVars, LockOwners, ReadHeld, WriteHeld
<1>3. CallShape'
  BY DEF FinishRead, Goto, CallShape, Opening
<1>4. RegistryShape'
  BY DEF FinishRead, RegistryShape, PathOf, Owners
<1>5. DyingShape'
  BY DEF FinishRead, DyingShape, Owners
<1>6. LookupStands'
  BY DEF FinishRead, Goto, LookupStands, PathOf, Owners, Matches
<1>7. InitShape'
  BY DEF FinishRead, Goto, TypeOK, CallShape, InitShape,
       OnlyReadLayersReturned, Opening
<1>. QED  BY <1>1, <1>2, <1>3, <1>4, <1>5, <1>6, <1>7

LEMMA FinishInitializationStep ==
  ASSUME NEW t \in Threads, IInv, FinishInitialization(t)
  PROVE  IInv'
<1> USE DEF IInv
<1>1. TypeOK'
  BY DEF FinishInitialization, Goto, lockVars, TypeOK, CallShape, Labels,
       Opening
<1>2. LockOwners'
  BY DEF FinishInitialization, Goto, lockVars, LockOwners, ReadHeld,
       WriteHeld
<1>3. CallShape'
  BY DEF FinishInitialization, Goto, CallShape, Opening
<1>4. RegistryShape'
  BY DEF FinishInitialization, RegistryShape, PathOf, Owners
<1>5. DyingShape'
  BY DEF FinishInitialization, DyingShape, Owners
<1>6. LookupStands'
  BY DEF FinishInitialization, Goto, LookupStands, PathOf, Owners, Matches
<1>7. InitShape'
  BY DEF FinishInitialization, Goto, TypeOK, InitShape,
       OnlyReadLayersReturned, Opening
<1>. QED  BY <1>1, <1>2, <1>3, <1>4, <1>5, <1>6, <1>7

LEMMA ReturnLayerStep ==
  ASSUME NEW t \in Threads, IInv, ReturnLayer(t)
  PROVE  IInv'
<1> USE DEF IInv
<1>1. tmp[t] \in Layers
  BY DEF ReturnLayer, TypeOK, CallShape
<1>2. TypeOK'
  BY DEF ReturnLayer, Return, DropLocal, lockVars, layerVars, DestroyIfLast,
       Goto, TypeOK, Labels, Kinds
<1>3. LockOwners'
  BY DEF ReturnLayer, Return, DropLocal, lockVars, DestroyIfLast, Goto,
       TypeOK, LockOwners, ReadHeld, WriteHeld
<1>4. CallShape'
  BY DEF ReturnLayer, Return, DropLocal, DestroyIfLast, Goto, TypeOK,
       CallShape, Opening
<1>5. RegistryShape'
  BY RegistryAssumptions DEF ReturnLayer, DropLocal, layerVars, TypeOK,
       RegistryShape, PathOf, Owners
<1>6. DyingShape'
  BY DEF ReturnLayer, DropLocal, layerVars, DestroyIfLast, TypeOK, CallShape,
       RegistryShape, DyingShape, Owners
<1>7. LookupStands'
  BY DEF ReturnLayer, Return, DropLocal, layerVars, DestroyIfLast, Goto,
       TypeOK, LookupStands, PathOf, Owners, Matches
<1>8. InitShape'
  BY DEF ReturnLayer, Return, DropLocal, layerVars, DestroyIfLast, Goto,
       TypeOK, InitShape, OnlyReadLayersReturned, Opening, Kinds
<1>. QED  BY <1>2, <1>3, <1>4, <1>5, <1>6, <1>7, <1>8

LEMMA CreateAcquireStep ==
  ASSUME NEW t \in Threads, IInv, CreateAcquire(t)
  PROVE  IInv'
<1> USE DEF IInv
<1>1. TypeOK'
  BY DEF CreateAcquire, AcquireWrite, Goto, layerVars, TypeOK, Labels,
       WriteHeld
<1>2. LockOwners'
  BY RegistryAssumptions DEF CreateAcquire, AcquireWrite, Goto, TypeOK,
       LockOwners, ReadHeld, WriteHeld
<1>3. CallShape'
  BY DEF CreateAcquire, AcquireWrite, Goto, CallShape, Opening
<1>4. RegistryShape'
  BY DEF CreateAcquire, AcquireWrite, layerVars, RegistryShape, PathOf,
       Owners
<1>5. DyingShape'
  BY DEF CreateAcquire, AcquireWrite, layerVars, DyingShape, Owners
<1>6. LookupStands'
  BY RegistryAssumptions DEF CreateAcquire, AcquireWrite, Goto, LockOwners,
       LookupStands, ReadHeld, WriteHeld
<1>7. InitShape'
  BY DEF CreateAcquire, AcquireWrite, Goto, layerVars, InitShape,
       OnlyReadLayersReturned, Opening
<1>. QED  BY <1>1, <1>2, <1>3, <1>4, <1>5, <1>6, <1>7

LEMMA CreateExistingStep ==
  ASSUME NEW t \in Threads, IInv, CreateExisting(t)
  PROVE  IInv'
<1> USE DEF IInv
<1>1. TypeOK'
  BY DEF CreateExisting, Return, layerVars, TypeOK, Labels
<1>2. LockOwners'
  BY RegistryAssumptions DEF CreateExisting, Return, TypeOK, LockOwners,
       ReadHeld, WriteHeld
<1>3. CallShape'
  BY DEF CreateExisting, Return, TypeOK, CallShape, Opening
<1>4. RegistryShape'
  BY DEF CreateExisting, layerVars, RegistryShape, PathOf, Owners
<1>5. DyingShape'
  BY DEF CreateExisting, layerVars, DyingShape, Owners
<1>6. LookupStands'
  BY RegistryAssumptions DEF CreateExisting, Return, LockOwners,
       LookupStands, ReadHeld, WriteHeld
<1>7. InitShape'
  BY DEF CreateExisting, Return, layerVars, InitShape,
       OnlyReadLayersReturned, Opening
<1>. QED  BY <1>1, <1>2, <1>3, <1>4, <1>5, <1>6, <1>7

LEMMA CreateLayerStep ==
  ASSUME NEW t \in Threads, NEW l \in Layers, IInv, CreateLayer(t, l)
  PROVE  IInv'
<1> USE DEF IInv
<1>1. call[t].id \in Idents
  BY CallHasId DEF CreateLayer
<1>2. RealPath[call[t].id] \notin RegisteredPaths
  BY <1>1, NoMatch DEF CreateLayer, RegisteredPaths
<1>3. TypeOK'
  BY <1>1 DEF CreateLayer, Goto, Construct, lockVars, TypeOK, Labels, Opening
<1>4. LockOwners'
  BY DEF CreateLayer, Goto, lockVars, LockOwners, ReadHeld, WriteHeld
<1>5. CallShape'
  BY RegistryAssumptions DEF CreateLayer, Goto, Construct, TypeOK, CallShape,
       Opening
<1>6. RegistryShape'
  BY RegistryAssumptions, <1>1, <1>2 DEF CreateLayer, Construct, TypeOK,
       RegistryShape, PathOf, Owners, RegisteredPaths
<1>7. DyingShape'
  BY DEF CreateLayer, Construct, DyingShape, Owners
<1>8. LookupStands'
  BY RegistryAssumptions DEF CreateLayer, Goto, LockOwners, LookupStands,
       ReadHeld, WriteHeld
<1>9. InitShape'
  BY DEF CreateLayer, Goto, Construct, TypeOK, RegistryShape, InitShape,
       Owners, OnlyReadLayersReturned
<1>. QED  BY <1>3, <1>4, <1>5, <1>6, <1>7, <1>8, <1>9

LEMMA SaveSucceedsStep ==
  ASSUME NEW t \in Threads, IInv, SaveSucceeds(t)
  PROVE  IInv'
<1> USE DEF IInv
<1>1. TypeOK'
  BY DEF SaveSucceeds, Return, TypeOK, CallShape, Labels, Opening
<1>2. LockOwners'
  BY RegistryAssumptions DEF SaveSucceeds, Return, TypeOK, LockOwners,
       ReadHeld, WriteHeld
<1>3. CallShape'
  BY DEF SaveSucceeds, Return, TypeOK, CallShape, Opening
<1>4. RegistryShape'
  BY RegistryAssumptions DEF SaveSucceeds, RegistryShape, PathOf, Owners
<1>5. DyingShape'
  BY DEF SaveSucceeds, DyingShape, Owners
<1>6. LookupStands'
  BY RegistryAssumptions DEF SaveSucceeds, Return, LockOwners, LookupStands,
       ReadHeld, WriteHeld
<1>7. InitShape'
  BY DEF SaveSucceeds, Return, TypeOK, InitShape, OnlyReadLayersReturned,
       Opening
<1>. QED  BY <1>1, <1>2, <1>3, <1>4, <1>5, <1>6, <1>7

LEMMA SaveFailsStep ==
  ASSUME NEW t \in Threads, IInv, SaveFails(t)
  PROVE  IInv'
<1> USE DEF IInv
<1>1. TypeOK'
  BY DEF SaveFails, Goto, layerVars, TypeOK, Labels, Opening
<1>2. LockOwners'
  BY RegistryAssumptions DEF SaveFails, Goto, TypeOK, LockOwners, ReadHeld,
       WriteHeld
<1>3. CallShape'
  BY DEF SaveFails, Goto, CallShape, Opening
<1>4. RegistryShape'
  BY DEF SaveFails, layerVars, RegistryShape, PathOf, Owners
<1>5. DyingShape'
  BY DEF SaveFails, layerVars, DyingShape, Owners
<1>6. LookupStands'
  BY RegistryAssumptions DEF SaveFails, Goto, LockOwners, LookupStands,
       ReadHeld, WriteHeld
<1>7. InitShape'
  BY DEF SaveFails, Goto, layerVars, InitShape, OnlyReadLayersReturned,
       Opening
<1>. QED  BY <1>1, <1>2, <1>3, <1>4, <1>5, <1>6, <1>7

LEMMA DropUnsavedStep ==
  ASSUME NEW t \in Threads, IInv, DropUnsaved(t)
  PROVE  IInv'
<1> USE DEF IInv
<1>1. TypeOK'
  BY DEF DropUnsaved, DropLocal, lockVars, layerVars, DestroyIfLast, Goto,
       Return, TypeOK, Labels
<1>2. LockOwners'
  BY DEF DropUnsaved, DropLocal, lockVars, DestroyIfLast, Goto, Return,
       TypeOK, LockOwners, ReadHeld, WriteHeld
<1>3. CallShape'
  BY DEF DropUnsaved, DropLocal, DestroyIfLast, Goto, Return, TypeOK,
       CallShape, Opening
<1>4. RegistryShape'
  BY RegistryAssumptions DEF DropUnsaved, DropLocal, layerVars,
       RegistryShape, PathOf, Owners
<1>5. DyingShape'
  BY DEF DropUnsaved, DropLocal, layerVars, DestroyIfLast, TypeOK, CallShape,
       RegistryShape, DyingShape, Owners
<1>6. LookupStands'
  BY DEF DropUnsaved, DropLocal, layerVars, DestroyIfLast, Goto, Return,
       TypeOK, LookupStands, PathOf, Owners, Matches
<1>7. InitShape'
  BY DEF DropUnsaved, DropLocal, layerVars, DestroyIfLast, Goto, Return,
       TypeOK, InitShape, OnlyReadLayersReturned, Opening
<1>. QED  BY <1>1, <1>2, <1>3, <1>4, <1>5, <1>6, <1>7

LEMMA DestroyAcquireStep ==
  ASSUME NEW t \in Threads, IInv, DestroyAcquire(t)
  PROVE  IInv'
<1> USE DEF IInv
<1>1. TypeOK'
  BY DEF DestroyAcquire, AcquireWrite, Goto, layerVars, TypeOK, Labels,
       WriteHeld
<1>2. LockOwners'
  BY RegistryAssumptions DEF DestroyAcquire, AcquireWrite, Goto, TypeOK,
       LockOwners, ReadHeld, WriteHeld
<1>3. CallShape'
  BY DEF DestroyAcquire, AcquireWrite, Goto, CallShape, Opening
<1>4. RegistryShape'
  BY DEF DestroyAcquire, AcquireWrite, layerVars, RegistryShape, PathOf,
       Owners
<1>5. DyingShape'
  BY DEF DestroyAcquire, AcquireWrite, layerVars, DyingShape, Owners
<1>6. LookupStands'
  BY RegistryAssumptions DEF DestroyAcquire, AcquireWrite, Goto, LockOwners,
       LookupStands, ReadHeld, WriteHeld
<1>7. InitShape'
  BY DEF DestroyAcquire, AcquireWrite, Goto, layerVars, InitShape,
       OnlyReadLayersReturned, Opening
<1>. QED  BY <1>1, <1>2, <1>3, <1>4, <1>5, <1>6, <1>7

LEMMA EraseAndFreeStep ==
  ASSUME NEW t \in Threads, IInv, EraseAndFree(t)
  PROVE  IInv'
<1> USE DEF IInv
<1>1. TypeOK'
  BY DEF EraseAndFree, Return, TypeOK, CallShape, Labels
<1>2. LockOwners'
  BY RegistryAssumptions DEF EraseAndFree, Return, TypeOK, LockOwners,
       ReadHeld, WriteHeld
<1>3. CallShape'
  BY DEF EraseAndFree, Return, TypeOK, CallShape, Opening
<1>4. RegistryShape'
  BY RegistryAssumptions DEF EraseAndFree, RegistryShape, DyingShape, PathOf,
       Owners
<1>5. DyingShape'
  BY DEF EraseAndFree, TypeOK, DyingShape, Owners
<1>6. LookupStands'
  BY RegistryAssumptions DEF EraseAndFree, Return, LockOwners, LookupStands,
       ReadHeld, WriteHeld
<1>7. InitShape'
  BY RegistryAssumptions DEF EraseAndFree, Return, TypeOK, DyingShape,
       InitShape, Owners, OnlyReadLayersReturned, Opening
<1>. QED  BY <1>1, <1>2, <1>3, <1>4, <1>5, <1>6, <1>7

-----------------------------------------------------------------------------
LEMMA InitInvariant == Init => IInv
<1> SUFFICES ASSUME Init PROVE IInv
  OBVIOUS
<1>1. TypeOK
  BY DEF Init, TypeOK, Labels
<1>2. LockOwners
  BY RegistryAssumptions DEF Init, LockOwners, ReadHeld, WriteHeld
<1>3. CallShape
  BY DEF Init, CallShape, Opening
<1>4. RegistryShape /\ DyingShape /\ LookupStands /\ InitShape
  BY RegistryAssumptions
  DEF Init, RegistryShape, DyingShape, LookupStands, InitShape,
      OnlyReadLayersReturned, Owners, Opening
<1>. QED  BY <1>1, <1>2, <1>3, <1>4 DEF IInv

LEMMA NextInvariant == IInv /\ [Next]_vars => IInv'
<1> SUFFICES ASSUME IInv, [Next]_vars PROVE IInv'
  OBVIOUS
<1>1. ASSUME NEW t \in Threads, Caller(t) PROVE IInv'
  BY <1>1, CallStep, ReleaseLayerStep DEF Caller
<1>2. ASSUME NEW t \in Threads, Acquire(t) PROVE IInv'
  BY <1>2, AcquireReadStep, UpgradeAcquireStep, CreateAcquireStep, DestroyAcquireStep
  DEF Acquire
<1>3. ASSUME NEW t \in Threads, Lookup(t) PROVE IInv'
  BY <1>3, FindHitStep, FindExpiringStep, FindMissStep, UpgradeAtomicStep,
     UpgradeReleasingStep, RetryHitStep, RetryExpiringStep, RetryMissStep DEF Lookup
<1>4. ASSUME NEW t \in Threads, Open(t) PROVE IInv'
  BY <1>4, ReturnNothingStep, OpenLayerStep, FinishReadStep, FinishInitializationStep,
     ReturnLayerStep DEF Open
<1>5. ASSUME NEW t \in Threads, Create(t) PROVE IInv'
  BY <1>5, CreateExistingStep, CreateLayerStep, SaveSucceedsStep, SaveFailsStep,
     DropUnsavedStep DEF Create
<1>6. CASE UNCHANGED vars
  <2>1. TypeOK' /\ LockOwners' /\ CallShape' /\ InitShape'
    BY <1>6 DEF vars, IInv, TypeOK, LockOwners, CallShape, InitShape, OnlyReadLayersReturned
  <2>2. RegistryShape' /\ DyingShape' /\ LookupStands'
    BY <1>6 DEF vars, IInv, RegistryShape, DyingShape, LookupStands, PathOf, Owners, Matches
  <2>. QED  BY <2>1, <2>2 DEF IInv
<1>. QED  BY <1>1, <1>2, <1>3, <1>4, <1>5, <1>6, EraseAndFreeStep DEF Next, Run

LEMMA Invariant == Spec => []IInv
BY InitInvariant, NextInvariant, PTL DEF Spec

(* Every variable keeps its type.                                          *)
THEOREM TypeCorrect == Spec => []TypeOK
BY Invariant, PTL DEF IInv

(* No two threads hold different layers of one real path, however the      *)
(* lookups, lock upgrades and destructions of any number of threads meet.  *)
THEOREM Uniqueness == Spec => []UniqueLayer
<1>1. IInv => UniqueLayer
  BY DEF IInv, RegistryShape, UniqueLayer
<1>. QED  BY <1>1, Invariant, PTL

(* A layer is handed out only when it has been read successfully.          *)
THEOREM OnlyReadReturned == Spec => []OnlyReadLayersReturned
BY Invariant, PTL DEF IInv, InitShape

(* The registry holds every layer in use, and no dangling handle.          *)
THEOREM RegistryExact == Spec => []RegistryTracksLayers
<1>1. IInv => RegistryTracksLayers
  BY DEF IInv, TypeOK, RegistryShape, RegistryTracksLayers
<1>. QED  BY <1>1, Invariant, PTL

-----------------------------------------------------------------------------
(* While a thread holds the mutex for reading nobody else holds it for     *)
(* writing, and only those who do change the registry or free a layer.     *)
LEMMA WritersChange ==
  ASSUME IInv, Next
  PROVE  \/ UNCHANGED <<registry, ident>>
         \/ readers' = {}
         \/ \E t \in Threads : pc[t] \in WriteHeld
<1>1. ASSUME NEW t \in Threads, Caller(t) \/ Acquire(t)
      PROVE  UNCHANGED <<registry, ident>>
  BY <1>1 DEF Caller, FindOrOpen, Find, CreateNew, Call, ReleaseLayer, Acquire, AcquireRead,
     UpgradeAcquire, CreateAcquire, DestroyAcquire, AcquireWrite, layerVars
<1>2. ASSUME NEW t \in Threads, Lookup(t)
      PROVE  UNCHANGED <<registry, ident>> \/ readers' = {} \/ pc[t] \in WriteHeld
  BY <1>2 DEF Lookup, FindHit, FindExpiring, FindMiss, UpgradeAtomic, UpgradeReleasing,
     RetryHit, RetryExpiring, RetryMiss, layerVars, WriteHeld
<1>3. ASSUME NEW t \in Threads, Open(t)
      PROVE  UNCHANGED <<registry, ident>> \/ pc[t] \in WriteHeld
  BY <1>3 DEF Open, ReturnNothing, OpenLayer, FinishRead, FinishInitialization, ReturnLayer,
     layerVars, WriteHeld
<1>4. ASSUME NEW t \in Threads, Create(t)
      PROVE  UNCHANGED <<registry, ident>> \/ pc[t] \in WriteHeld
  BY <1>4 DEF Create, CreateExisting, CreateLayer, SaveSucceeds, SaveFails, DropUnsaved,
     layerVars, WriteHeld
<1>5. ASSUME NEW t \in Threads, EraseAndFree(t)
      PROVE  pc[t] \in WriteHeld
  BY <1>5 DEF EraseAndFree, WriteHeld
<1>. QED  BY <1>1, <1>2, <1>3, <1>4, <1>5 DEF Next, Run

(* What a lookup has found under the read lock stays as it is until the    *)
(* lock is let go: nobody changes the registry or frees a layer meanwhile. *)
THEOREM ReadersStable == Spec => StableForReaders
<1>1. ASSUME IInv, [Next]_vars, readers # {}, readers' # {}
      PROVE  UNCHANGED <<registry, ident>>
  <2>1. \A t \in Threads : pc[t] \notin WriteHeld
    BY <1>1, RegistryAssumptions DEF IInv, LockOwners
  <2>2. CASE Next
    BY <1>1, <2>1, <2>2, WritersChange
  <2>3. CASE UNCHANGED vars
    BY <2>3 DEF vars
  <2>. QED  BY <1>1, <2>2, <2>3
<1>2. IInv /\ [Next]_vars
        => [readers # {} /\ readers' # {} => UNCHANGED <<registry, ident>>]_vars
  BY <1>1
<1>. QED  BY <1>2, Invariant, PTL DEF Spec, StableForReaders

-----------------------------------------------------------------------------
(* Refinement.  A thread holds at most one TfRefPtr, so it is Ref.         *)
LEMMA OwnersByRef ==
  ASSUME IInv
  PROVE  \A l \in Layers : Owners(l) = {t \in Threads : Ref[t] = l}
BY RegistryAssumptions DEF IInv, TypeOK, CallShape, Owners, Ref, Opening

(* A layer in use has a real path; one that no object occupies is free.    *)
LEMMA LivePathOf ==
  ASSUME IInv, NEW l \in Layers
  PROVE  /\ Owners(l) # {} => LivePath[l] = PathOf(l) /\ PathOf(l) \in Paths
         /\ Owners(l) = {} => LivePath[l] = None
         /\ ident[l] = None => Owners(l) = {}
BY RegistryAssumptions DEF IInv, TypeOK, RegistryShape, LivePath, PathOf

(* Steps that move no TfRefPtr and name no layer are not seen.             *)
LEMMA Unseen ==
  ASSUME UNCHANGED <<held, tmp, ident>>
  PROVE  UNCHANGED <<Ref, LivePath>>
BY DEF Ref, LivePath, Owners, PathOf

(* Handing the local TfRefPtr to the caller is not seen either.            *)
LEMMA HandOver ==
  ASSUME NEW t \in Threads, IInv, tmp[t] # None,
         held' = [held EXCEPT ![t] = tmp[t]], tmp' = [tmp EXCEPT ![t] = None],
         UNCHANGED ident
  PROVE  UNCHANGED <<Ref, LivePath>>
<1>1. held[t] = None
  BY DEF IInv, CallShape, Opening
<1>2. Ref' = Ref
  BY <1>1 DEF IInv, TypeOK, Ref
<1>3. \A l \in Layers : Owners(l)' = Owners(l)
  BY <1>1, RegistryAssumptions DEF IInv, TypeOK, Owners
<1>. QED  BY <1>2, <1>3 DEF LivePath, PathOf

(* A lookup that gets hold of a layer joins those who share it.            *)
LEMMA JoinStep ==
  ASSUME NEW t \in Threads, IInv, FindHit(t) \/ RetryHit(t)
  PROVE  \E l \in Layers : Sharing!Join(t, l)
<1>1. PICK l \in Matches(call[t].id) : Owners(l) # {} /\ tmp' = [tmp EXCEPT ![t] = l]
  BY DEF FindHit, RetryHit
<1>2. l \in Layers
  BY <1>1 DEF IInv, TypeOK, Matches
<1>3. tmp[t] = None /\ held[t] = None
  BY DEF FindHit, RetryHit, IInv, CallShape, Opening
<1>4. UNCHANGED <<held, ident>>
  BY DEF FindHit, RetryHit, layerVars
<1>5. l # None
  BY <1>2, RegistryAssumptions
<1>6. Ref[t] = None /\ Ref' = [Ref EXCEPT ![t] = l]
  BY <1>1, <1>3, <1>4, <1>5 DEF IInv, TypeOK, Ref
<1>7. \A m \in Layers : (Owners(m)' = {}) <=> (Owners(m) = {})
  BY <1>1, <1>2, <1>3, <1>4, <1>5, RegistryAssumptions DEF IInv, TypeOK, Owners
<1>8. LivePath' = LivePath
  BY <1>4, <1>7 DEF LivePath, PathOf
<1>9. LivePath[l] # None
  BY <1>1, <1>2, LivePathOf, RegistryAssumptions
<1>. QED  BY <1>2, <1>6, <1>8, <1>9 DEF Sharing!Join

(* Constructing a layer makes the one live layer of its path.              *)
LEMMA NewStep ==
  ASSUME NEW t \in Threads, NEW l \in Layers, IInv, OpenLayer(t, l) \/ CreateLayer(t, l)
  PROVE  Sharing!New(t, l)
<1> DEFINE p == RealPath[call[t].id]
<1>1. call[t].id \in Idents /\ p \in Paths
  BY CallHasId, RegistryAssumptions DEF OpenLayer, CreateLayer, IInv
<1>2. \A m \in registry : PathOf(m) # p
  BY <1>1, NoMatch DEF OpenLayer, CreateLayer, IInv, LookupStands
<1>3. ident[l] = None /\ ident' = [ident EXCEPT ![l] = call[t].id]
      /\ tmp' = [tmp EXCEPT ![t] = l] /\ UNCHANGED held
  BY DEF OpenLayer, CreateLayer, Construct
<1>4. tmp[t] = None /\ held[t] = None
  BY DEF OpenLayer, CreateLayer, IInv, CallShape, Opening
<1>5. Ref[t] = None /\ Ref' = [Ref EXCEPT ![t] = l]
  BY <1>3, <1>4, RegistryAssumptions DEF IInv, TypeOK, Ref
<1>6. Owners(l) = {} /\ LivePath[l] = None
  BY <1>3, LivePathOf
<1>7. \A m \in Layers : LivePath[m] # p
  <2> SUFFICES ASSUME NEW m \in Layers PROVE LivePath[m] # p
    OBVIOUS
  <2>1. CASE Owners(m) = {}
    BY <2>1, <1>1, LivePathOf, RegistryAssumptions
  <2>2. CASE Owners(m) # {}
    BY <2>2, <1>2, LivePathOf DEF IInv, RegistryShape
  <2>. QED  BY <2>1, <2>2
<1>8. LivePath' = [LivePath EXCEPT ![l] = p]
  <2>1. Owners(l)' # {} /\ PathOf(l)' = p
    BY <1>1, <1>3, RegistryAssumptions DEF IInv, TypeOK, Owners, PathOf
  <2>2. \A m \in Layers \ {l} : Owners(m)' = Owners(m) /\ PathOf(m)' = PathOf(m)
    BY <1>3, <1>4, RegistryAssumptions DEF IInv, TypeOK, Owners, PathOf
  <2>. QED  BY <2>1, <2>2 DEF LivePath
<1>. QED  BY <1>1, <1>5, <1>6, <1>7, <1>8 DEF Sharing!New

(* Giving up a TfRefPtr leaves, and ends the layer if it is the last.      *)
LEMMA LeaveStep ==
  ASSUME NEW t \in Threads, IInv, Ref[t] # None, UNCHANGED ident,
         \/ held' = [held EXCEPT ![t] = None] /\ UNCHANGED tmp /\ tmp[t] = None
         \/ tmp' = [tmp EXCEPT ![t] = None] /\ UNCHANGED held /\ tmp[t] # None
  PROVE  Sharing!Leave(t)
<1>1. PICK l \in Layers : l = Ref[t]
  BY DEF IInv, TypeOK, Ref
<1>2. tmp[t] # None => held[t] = None
  BY DEF IInv, CallShape, Opening
<1>3. Ref' = [Ref EXCEPT ![t] = None]
  BY <1>2 DEF IInv, TypeOK, Ref
<1>4. Owners(l)' = Owners(l) \ {t}
  BY <1>1, <1>2, RegistryAssumptions DEF IInv, TypeOK, Owners, Ref
<1>5. \A m \in Layers \ {l} : Owners(m)' = Owners(m)
  BY <1>1, <1>2, RegistryAssumptions DEF IInv, TypeOK, Owners, Ref
<1>6. Owners(l) = {u \in Threads : Ref[u] = l}
  BY <1>1, OwnersByRef
<1>7. LivePath' = IF \E u \in Threads \ {t} : Ref[u] = l
                    THEN LivePath ELSE [LivePath EXCEPT ![l] = None]
  BY <1>1, <1>4, <1>5, <1>6 DEF LivePath, PathOf
<1>. QED  BY <1>1, <1>3, <1>7 DEF Sharing!Leave

LEMMA ReleaseLeaves ==
  ASSUME NEW t \in Threads, IInv, ReleaseLayer(t)
  PROVE  Sharing!Leave(t)
<1>1. tmp[t] = None
  BY DEF ReleaseLayer, IInv, CallShape, Opening
<1>2. Ref[t] # None
  BY <1>1 DEF ReleaseLayer, Ref
<1>. QED  BY <1>1, <1>2, LeaveStep DEF ReleaseLayer, layerVars

LEMMA DropLeaves ==
  ASSUME NEW t \in Threads, IInv, DropLocal(t), UNCHANGED <<held, ident>>,
         pc[t] \in {"waitInit", "saveFailed"}
  PROVE  Sharing!Leave(t)
<1>1. tmp[t] # None
  BY DEF IInv, CallShape, Opening
<1>2. Ref[t] # None
  BY <1>1 DEF Ref
<1>. QED  BY <1>1, <1>2, LeaveStep DEF DropLocal

LEMMA FreeUnseen ==
  ASSUME NEW t \in Threads, IInv, EraseAndFree(t)
  PROVE  UNCHANGED <<Ref, LivePath>>
<1>1. dying[t] \in Layers /\ Owners(dying[t]) = {}
  BY DEF EraseAndFree, IInv, TypeOK, CallShape, DyingShape
<1>2. \A l \in Layers : Owners(l)' = Owners(l)
  BY DEF EraseAndFree, Owners
<1>3. \A l \in Layers \ {dying[t]} : PathOf(l)' = PathOf(l)
  BY <1>1 DEF EraseAndFree, IInv, TypeOK, PathOf
<1>4. LivePath' = LivePath
  BY <1>1, <1>2, <1>3 DEF LivePath
<1>. QED  BY <1>4 DEF EraseAndFree, Ref

LEMMA SharingStep ==
  ASSUME IInv, [Next]_vars
  PROVE  [Sharing!Next]_<<Ref, LivePath>>
<1>1. ASSUME NEW t \in Threads, Caller(t)
      PROVE  Sharing!Next \/ UNCHANGED <<Ref, LivePath>>
  <2>1. CASE ReleaseLayer(t)
    BY <2>1, ReleaseLeaves DEF Sharing!Next
  <2>2. ASSUME NEW id \in Idents, FindOrOpen(t, id) \/ Find(t, id) \/ CreateNew(t, id)
        PROVE  UNCHANGED <<Ref, LivePath>>
    BY <2>2, Unseen DEF FindOrOpen, Find, CreateNew, Call, layerVars
  <2>. QED  BY <1>1, <2>1, <2>2 DEF Caller
<1>2. ASSUME NEW t \in Threads, Acquire(t)
      PROVE  UNCHANGED <<Ref, LivePath>>
  BY <1>2, Unseen DEF Acquire, AcquireRead, UpgradeAcquire, CreateAcquire, DestroyAcquire,
     AcquireWrite, layerVars
<1>3. ASSUME NEW t \in Threads, Lookup(t)
      PROVE  Sharing!Next \/ UNCHANGED <<Ref, LivePath>>
  <2>1. CASE FindHit(t) \/ RetryHit(t)
    BY <2>1, JoinStep DEF Sharing!Next
  <2>2. CASE FindExpiring(t) \/ FindMiss(t) \/ UpgradeAtomic(t) \/ UpgradeReleasing(t)
             \/ RetryExpiring(t) \/ RetryMiss(t)
    BY <2>2, Unseen DEF FindExpiring, FindMiss, UpgradeAtomic, UpgradeReleasing,
       RetryExpiring, RetryMiss, layerVars
  <2>. QED  BY <1>3, <2>1, <2>2 DEF Lookup
<1>4. ASSUME NEW t \in Threads, Open(t)
      PROVE  Sharing!Next \/ UNCHANGED <<Ref, LivePath>>
  <2>1. ASSUME NEW l \in Layers, OpenLayer(t, l)
        PROVE  Sharing!Next
    BY <2>1, NewStep DEF Sharing!Next
  <2>2. CASE ReturnNothing(t) \/ (\E outcome \in {"ok", "failed"} : FinishRead(t, outcome))
             \/ FinishInitialization(t)
    BY <2>2, Unseen DEF ReturnNothing, FinishRead, FinishInitialization, layerVars
  <2>3. CASE ReturnLayer(t)
    <3>1. tmp[t] # None
      BY <2>3 DEF ReturnLayer, IInv, CallShape
    <3>2. CASE call[t].kind = "open" /\ initSuccess[tmp[t]] = "ok"
      BY <2>3, <3>1, <3>2, HandOver DEF ReturnLayer, layerVars
    <3>3. CASE ~(call[t].kind = "open" /\ initSuccess[tmp[t]] = "ok")
      BY <2>3, <3>3, DropLeaves DEF ReturnLayer, layerVars, Sharing!Next
    <3>. QED  BY <3>2, <3>3
  <2>. QED  BY <1>4, <2>1, <2>2, <2>3 DEF Open
<1>5. ASSUME NEW t \in Threads, Create(t)
      PROVE  Sharing!Next \/ UNCHANGED <<Ref, LivePath>>
  <2>1. ASSUME NEW l \in Layers, CreateLayer(t, l)
        PROVE  Sharing!Next
    BY <2>1, NewStep DEF Sharing!Next
  <2>2. CASE CreateExisting(t) \/ SaveFails(t)
    BY <2>2, Unseen DEF CreateExisting, SaveFails, layerVars
  <2>3. CASE SaveSucceeds(t)
    <3>1. tmp[t] # None
      BY <2>3 DEF SaveSucceeds, IInv, CallShape, Opening
    <3>. QED  BY <2>3, <3>1, HandOver DEF SaveSucceeds
  <2>4. CASE DropUnsaved(t)
    BY <2>4, DropLeaves DEF DropUnsaved, layerVars, Sharing!Next
  <2>. QED  BY <1>5, <2>1, <2>2, <2>3, <2>4 DEF Create
<1>6. CASE UNCHANGED vars
  BY <1>6, Unseen DEF vars
<1>. QED  BY <1>1, <1>2, <1>3, <1>4, <1>5, <1>6, FreeUnseen DEF Next, Run

(* The registry, its lock and its weak handles amount to threads joining   *)
(* and leaving the one live layer of each path.                            *)
THEOREM SharingImplemented == Spec => ImplementsSharing
<1>1. Init => Sharing!Init
  BY RegistryAssumptions DEF Init, Sharing!Init, Ref, LivePath, Owners
<1>. QED  BY <1>1, SharingStep, Invariant, PTL DEF Spec, ImplementsSharing, Sharing!Spec
=============================================================================
