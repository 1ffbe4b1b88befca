-------------------------- MODULE SharedTables_proofs --------------------------
(***************************************************************************)
(* Proofs about PcpLayerStackRegistry, for any finite set of threads and   *)
(* any layer stacks, identifiers and layers, about TfTokenRegistry,        *)
(* for any strings, any representations and any finite set of tokens,      *)
(* about SdfPathNodes, for any finite sets of handles and nodes, and about *)
(* TfNoticeRegistry, for any lists and finite sets of threads and          *)
(* deliverers, and calls in calls of any depth.                            *)
(*                                                                         *)
(* What matters most in the invariant of the layer stacks is that a stack  *)
(* in the registry is counted exactly: whoever drops its count to zero is  *)
(* alone with it from then on.                                             *)
(***************************************************************************)
EXTENDS SharedTables, FiniteSetTheorems, SequenceTheorems,
  WellFoundedInduction, TLAPS

LEMMA HoldersFinite ==
  ASSUME NEW s
  PROVE  /\ IsFiniteSet(Holders(s)) /\ Cardinality(Holders(s)) \in Nat
         /\ Cardinality(Holders(s)) = 0 <=> Holders(s) = {}
<1>1. Holders(s) \in SUBSET Threads
  BY DEF Holders
<1>2. IsFiniteSet(Holders(s))
  BY <1>1, LayerStackAssumption, FS_Subset
<1>. QED  BY <1>2, FS_CardinalityType, FS_EmptySet

(* A thread that had no stack takes a reference of s.                      *)
LEMMA Gain ==
  ASSUME NEW t \in Threads, NEW s \in Stacks, TypeOK, held[t] = None,
         held' = [held EXCEPT ![t] = s]
  PROVE  /\ Cardinality(Holders(s))' = Cardinality(Holders(s)) + 1
         /\ \A r \in Stacks \ {s} : Holders(r)' = Holders(r)
<1>1. Holders(s)' = Holders(s) \cup {t} /\ t \notin Holders(s)
  BY LayerStackAssumption DEF TypeOK, Holders
<1>2. \A r \in Stacks \ {s} : Holders(r)' = Holders(r)
  BY LayerStackAssumption DEF TypeOK, Holders
<1>. QED  BY <1>1, <1>2, HoldersFinite, FS_AddElement

(* A thread lets go of s.                                                  *)
LEMMA Loss ==
  ASSUME NEW t \in Threads, NEW s \in Stacks, TypeOK, held[t] = s,
         held' = [held EXCEPT ![t] = None]
  PROVE  /\ Cardinality(Holders(s))' = Cardinality(Holders(s)) - 1
         /\ \A r \in Stacks \ {s} : Holders(r)' = Holders(r)
<1>1. Holders(s)' = Holders(s) \ {t} /\ t \in Holders(s)
  BY LayerStackAssumption DEF TypeOK, Holders
<1>2. \A r \in Stacks \ {s} : Holders(r)' = Holders(r)
  BY LayerStackAssumption DEF TypeOK, Holders
<1>. QED  BY <1>1, <1>2, HoldersFinite, FS_RemoveElement

LEMMA SameHolders ==
  ASSUME UNCHANGED held
  PROVE  \A s \in Stacks : Holders(s)' = Holders(s)
BY DEF Holders

(* A stack that is found alive is nobody's to install or to destroy.       *)
LEMMA AliveIsShared ==
  ASSUME IInv, NEW i \in Ids, Alive(i)
  PROVE  LET s == identifierToLayerStack[i] IN
         /\ s \in Stacks /\ id[s] = i /\ linked[s] /\ refCount[s] \in Nat \ {0}
         /\ Holders(s) # {}
         /\ \A t \in Threads : created[t] # s
<1> DEFINE s == identifierToLayerStack[i]
<1>1. s \in Stacks /\ id[s] = i /\ refCount[s] \in Nat \ {0}
  BY DEF IInv, TypeOK, Alive, EntriesAreStacks
<1>2. linked[s]
  BY <1>1 DEF IInv, TypeOK, Counted
<1>3. Holders(s) # {}
  BY <1>1, <1>2, HoldersFinite DEF IInv, Counted
<1>4. \A t \in Threads : created[t] # s
  BY <1>1, <1>3, LayerStackAssumption DEF IInv, CreatedAlone, Holders
<1>. QED  BY <1>1, <1>2, <1>3, <1>4

(* What _SetLayers keeps.                                                  *)
LEMMA SetLayersExact ==
  ASSUME TypeOK, UsesAreExact, NEW s \in Stacks, NEW ls \in SUBSET Layers,
         SetLayers(s, ls)
  PROVE  /\ layerStackToLayers' \in [Stacks -> SUBSET Layers]
         /\ layerToLayerStacks' \in [Layers -> SUBSET Stacks]
         /\ layerStackToLayers'[s] = ls
         /\ \A r \in Stacks \ {s} : layerStackToLayers'[r] = layerStackToLayers[r]
         /\ \A r \in Stacks, l \in Layers :
              r \in layerToLayerStacks'[l] <=> l \in layerStackToLayers'[r]
<1>1. layerStackToLayers' = [layerStackToLayers EXCEPT ![s] = ls]
  BY DEF SetLayers
<1>2. layerToLayerStacks' = [l \in Layers |->
        IF l \in ls THEN layerToLayerStacks[l] \cup {s}
        ELSE IF l \in layerStackToLayers[s] THEN layerToLayerStacks[l] \ {s}
        ELSE layerToLayerStacks[l]]
  BY DEF SetLayers
<1>3. layerToLayerStacks' \in [Layers -> SUBSET Stacks]
  BY <1>2 DEF TypeOK
<1>4. ASSUME NEW r \in Stacks, NEW l \in Layers
      PROVE  r \in layerToLayerStacks'[l] <=> l \in layerStackToLayers'[r]
  <2>1. CASE r = s
    BY <1>1, <1>2, <2>1 DEF TypeOK, UsesAreExact
  <2>2. CASE r # s
    BY <1>1, <1>2, <2>2 DEF TypeOK, UsesAreExact
  <2>. QED  BY <2>1, <2>2
<1>. QED  BY <1>1, <1>3, <1>4 DEF TypeOK

LEMMA CallStep ==
  ASSUME NEW t \in Threads, IInv, Call(t)
  PROVE  IInv'
<1> USE DEF IInv
<1>1. PICK i \in Ids : want' = [want EXCEPT ![t] = i]
  BY DEF Call
<1>2. TypeOK'
  BY <1>1 DEF Call, Goto, mapVars, stackVars, TypeOK, Labels
<1>3. UsesAreExact' /\ EntriesAreStacks'
  BY DEF Call, mapVars, stackVars, UsesAreExact, EntriesAreStacks
<1>4. NoSelfDeadlock'
  BY DEF Call, Goto, TypeOK, NoSelfDeadlock
<1>5. CallShape'
  BY <1>1 DEF Call, Goto, mapVars, stackVars, TypeOK, CallShape
<1>6. CreatedAlone'
  BY DEF Call, stackVars, CreatedAlone
<1>7. Counted'
  BY SameHolders DEF Call, mapVars, stackVars, Counted
<1>. QED  BY <1>2, <1>3, <1>4, <1>5, <1>6, <1>7

LEMMA FindStep ==
  ASSUME NEW t \in Threads, IInv, Find(t)
  PROVE  IInv'
<1> USE DEF IInv
<1>1. CASE Alive(want[t])
  <2>1. want[t] \in Ids /\ held[t] = None /\ writer = None /\ pc[t] = "find"
    BY DEF Find, CallShape, TypeOK
  <2>2. PICK s \in Stacks : /\ s = identifierToLayerStack[want[t]]
                            /\ linked[s] /\ refCount[s] \in Nat \ {0}
                            /\ \A u \in Threads : created[u] # s
    BY <1>1, <2>1, AliveIsShared
  <2>3. /\ held' = [held EXCEPT ![t] = s] /\ refCount' = [refCount EXCEPT ![s] = @ + 1]
        /\ want' = [want EXCEPT ![t] = None] /\ pc' = [pc EXCEPT ![t] = "idle"]
        /\ UNCHANGED <<mapVars, writer, id, layers, linked, created>>
    BY <1>1, <2>2 DEF Find, TakeReference, Goto
  <2>4. TypeOK'
    BY <2>2, <2>3 DEF mapVars, TypeOK, Labels
  <2>5. UsesAreExact' /\ EntriesAreStacks'
    BY <2>2, <2>3 DEF mapVars, TypeOK, UsesAreExact, EntriesAreStacks
  <2>6. NoSelfDeadlock'
    BY <2>3 DEF TypeOK, NoSelfDeadlock
  <2>7. CallShape'
    BY <2>1, <2>2, <2>3, LayerStackAssumption DEF mapVars, TypeOK, CallShape
  <2>8. CreatedAlone'
    BY <2>2, <2>3 DEF TypeOK, CreatedAlone
  <2>9. Counted'
    <3>1. /\ Cardinality(Holders(s))' = Cardinality(Holders(s)) + 1
          /\ \A r \in Stacks \ {s} : Holders(r)' = Holders(r)
      BY <2>1, <2>2, <2>3, Gain
    <3>. QED  BY <2>2, <2>3, <3>1 DEF mapVars, TypeOK, Counted
  <2>. QED  BY <2>4, <2>5, <2>6, <2>7, <2>8, <2>9
<1>2. CASE ~Alive(want[t])
  <2>1. /\ pc[t] = "find" /\ pc' = [pc EXCEPT ![t] = "compute"]
        /\ UNCHANGED <<mapVars, writer, stackVars, want, created, held>>
    BY <1>2 DEF Find, Goto, stackVars
  <2>2. TypeOK'
    BY <2>1 DEF mapVars, stackVars, TypeOK, Labels
  <2>3. UsesAreExact' /\ EntriesAreStacks'
    BY <2>1 DEF mapVars, stackVars, UsesAreExact, EntriesAreStacks
  <2>4. NoSelfDeadlock'
    BY <2>1 DEF TypeOK, NoSelfDeadlock
  <2>5. CallShape'
    BY <2>1 DEF mapVars, stackVars, TypeOK, CallShape
  <2>6. CreatedAlone'
    BY <2>1 DEF stackVars, CreatedAlone
  <2>7. Counted'
    BY <2>1, SameHolders DEF mapVars, stackVars, Counted
  <2>. QED  BY <2>2, <2>3, <2>4, <2>5, <2>6, <2>7
<1>. QED  BY <1>1, <1>2

LEMMA ComputeStep ==
  ASSUME NEW t \in Threads, IInv, Compute(t)
  PROVE  IInv'
<1> USE DEF IInv
<1>1. PICK s \in Stacks, ls \in SUBSET Layers :
        /\ id[s] = None
        /\ id' = [id EXCEPT ![s] = want[t]]
        /\ refCount' = [refCount EXCEPT ![s] = 1]
        /\ layers' = [layers EXCEPT ![s] = ls]
        /\ created' = [created EXCEPT ![t] = s]
  BY DEF Compute
<1>2. want[t] \in Ids /\ want[t] # None /\ held[t] = None /\ created[t] = None
      /\ writer # t /\ pc[t] = "compute"
  BY LayerStackAssumption DEF Compute, CallShape, TypeOK
<1>3. ~linked[s] /\ (\A u \in Threads : created[u] # s /\ held[u] # s)
      /\ \A i \in Ids : identifierToLayerStack[i] # s
  BY <1>1, LayerStackAssumption DEF Counted, CreatedAlone, Holders
<1>4. /\ pc' = [pc EXCEPT ![t] = "install"]
      /\ UNCHANGED <<mapVars, writer, linked, want, held>>
  BY DEF Compute, Goto
<1>5. TypeOK'
  BY <1>1, <1>2, <1>4 DEF mapVars, TypeOK, Labels
<1>6. UsesAreExact' /\ EntriesAreStacks'
  BY <1>1, <1>3, <1>4 DEF mapVars, TypeOK, UsesAreExact, EntriesAreStacks, Counted
<1>7. NoSelfDeadlock'
  BY <1>4 DEF TypeOK, NoSelfDeadlock
<1>8. CallShape'
  BY <1>1, <1>2, <1>3, <1>4, LayerStackAssumption DEF mapVars, TypeOK, CallShape
<1>9. CreatedAlone'
  BY <1>1, <1>2, <1>3, <1>4 DEF TypeOK, CreatedAlone
<1>10. Counted'
  BY <1>1, <1>3, <1>4, SameHolders DEF mapVars, TypeOK, Counted
<1>. QED  BY <1>5, <1>6, <1>7, <1>8, <1>9, <1>10

LEMMA InstallLosesStep ==
  ASSUME NEW t \in Threads, IInv, InstallLoses(t)
  PROVE  IInv'
<1> USE DEF IInv
<1>1. want[t] \in Ids /\ held[t] = None /\ writer = None /\ pc[t] = "install"
      /\ ~linked[created[t]] /\ refCount[created[t]] = 1 /\ created[t] \in Stacks
  BY LayerStackAssumption DEF InstallLoses, CallShape, TypeOK
<1>2. PICK s \in Stacks : /\ s = identifierToLayerStack[want[t]]
                          /\ linked[s] /\ refCount[s] \in Nat \ {0}
                          /\ \A u \in Threads : created[u] # s
  BY <1>1, AliveIsShared DEF InstallLoses
<1>3. /\ held' = [held EXCEPT ![t] = s] /\ refCount' = [refCount EXCEPT ![s] = @ + 1]
      /\ writer' = t /\ pc' = [pc EXCEPT ![t] = "dropCreated"]
      /\ UNCHANGED <<mapVars, id, layers, linked, want, created>>
  BY <1>2 DEF InstallLoses, TakeReference, Goto
<1>4. TypeOK'
  BY <1>2, <1>3 DEF mapVars, TypeOK, Labels
<1>5. UsesAreExact' /\ EntriesAreStacks'
  BY <1>2, <1>3 DEF mapVars, TypeOK, UsesAreExact, EntriesAreStacks
<1>6. NoSelfDeadlock'
  BY <1>3 DEF TypeOK, NoSelfDeadlock
<1>7. CallShape'
  BY <1>1, <1>2, <1>3, LayerStackAssumption DEF mapVars, TypeOK, CallShape
<1>8. CreatedAlone'
  BY <1>2, <1>3 DEF TypeOK, CreatedAlone
<1>9. Counted'
  <2>1. /\ Cardinality(Holders(s))' = Cardinality(Holders(s)) + 1
        /\ \A r \in Stacks \ {s} : Holders(r)' = Holders(r)
    BY <1>1, <1>2, <1>3, Gain
  <2>. QED  BY <1>2, <1>3, <2>1 DEF mapVars, TypeOK, Counted
<1>. QED  BY <1>4, <1>5, <1>6, <1>7, <1>8, <1>9

LEMMA InstallStep ==
  ASSUME NEW t \in Threads, IInv, Install(t)
  PROVE  IInv'
<1> USE DEF IInv
<1>1. PICK s \in Stacks, i \in Ids :
        /\ s = created[t] /\ i = want[t] /\ held[t] = None /\ writer = None
        /\ pc[t] = "install" /\ ~linked[s] /\ refCount[s] = 1 /\ id[s] = i
        /\ s # None /\ i # None
  BY LayerStackAssumption DEF Install, CallShape, TypeOK
<1>2. Holders(s) = {} /\ \A u \in Threads \ {t} : created[u] # s
  BY <1>1 DEF Counted, CreatedAlone
<1>3. /\ identifierToLayerStack' = [identifierToLayerStack EXCEPT ![i] = s]
      /\ linked' = [linked EXCEPT ![s] = TRUE] /\ SetLayers(s, layers[s])
      /\ held' = [held EXCEPT ![t] = s] /\ created' = [created EXCEPT ![t] = None]
      /\ want' = [want EXCEPT ![t] = None] /\ pc' = [pc EXCEPT ![t] = "idle"]
      /\ UNCHANGED <<writer, id, refCount, layers>>
  BY <1>1 DEF Install, Goto
<1>4. \A r \in Stacks : linked[r] /\ refCount[r] > 0 => id[r] # i
  BY <1>1, LayerStackAssumption DEF Install, Alive, EntriesAreStacks, TypeOK
<1>5. layers[s] \in SUBSET Layers
  BY DEF TypeOK
<1>6. /\ layerStackToLayers' \in [Stacks -> SUBSET Layers]
      /\ layerToLayerStacks' \in [Layers -> SUBSET Stacks]
      /\ layerStackToLayers'[s] = layers[s]
      /\ \A r \in Stacks \ {s} : layerStackToLayers'[r] = layerStackToLayers[r]
      /\ \A r \in Stacks, l \in Layers :
           r \in layerToLayerStacks'[l] <=> l \in layerStackToLayers'[r]
  BY <1>1, <1>3, <1>5, SetLayersExact
<1>7. TypeOK'
  BY <1>1, <1>3, <1>6 DEF TypeOK, Labels
<1>8. UsesAreExact'
  BY <1>1, <1>3, <1>6 DEF TypeOK, UsesAreExact
<1>9. EntriesAreStacks'
  BY <1>1, <1>3, <1>4, <1>6, LayerStackAssumption DEF TypeOK, EntriesAreStacks
<1>10. NoSelfDeadlock'
  BY <1>3 DEF TypeOK, NoSelfDeadlock
<1>11. CallShape'
  <2>1. \A u \in Threads \ {t} : created[u] # s
    BY <1>2
  <2>2. \A u \in Threads \ {t} : pc[u] = "free" => created[u] \in Stacks
    BY DEF CallShape, TypeOK
  <2>. QED  BY <1>1, <1>3, <1>6, <2>1, <2>2, LayerStackAssumption DEF TypeOK, CallShape
<1>12. CreatedAlone'
  BY <1>1, <1>2, <1>3 DEF TypeOK, CreatedAlone
<1>13. Counted'
  <2>1. /\ Cardinality(Holders(s))' = Cardinality(Holders(s)) + 1
        /\ \A r \in Stacks \ {s} : Holders(r)' = Holders(r)
    BY <1>1, <1>3, Gain
  <2>2. Cardinality(Holders(s)) = 0
    BY <1>2, HoldersFinite
  <2>. QED  BY <1>1, <1>3, <1>6, <2>1, <2>2 DEF TypeOK, Counted
<1>. QED  BY <1>7, <1>8, <1>9, <1>10, <1>11, <1>12, <1>13

LEMMA DropCreatedStep ==
  ASSUME NEW t \in Threads, IInv, DropCreated(t)
  PROVE  IInv'
<1> USE DEF IInv
<1>1. PICK s \in Stacks : s = created[t] /\ pc[t] = "dropCreated" /\ writer = t
                          /\ ~linked[s] /\ refCount[s] = 1 /\ s # None
  BY LayerStackAssumption DEF DropCreated, CallShape, TypeOK
<1>2. /\ refCount' = [refCount EXCEPT ![s] = 0] /\ pc' = [pc EXCEPT ![t] = "blow"]
      /\ UNCHANGED <<mapVars, writer, id, layers, linked, want, created, held>>
  BY <1>1 DEF DropCreated, Goto, TypeOK
<1>3. TypeOK'
  BY <1>2 DEF mapVars, TypeOK, Labels
<1>4. UsesAreExact' /\ EntriesAreStacks'
  BY <1>1, <1>2 DEF mapVars, TypeOK, UsesAreExact, EntriesAreStacks
<1>5. NoSelfDeadlock'
  BY <1>2 DEF TypeOK, NoSelfDeadlock
<1>6. CallShape'
  BY <1>1, <1>2, LayerStackAssumption DEF mapVars, TypeOK, CallShape, CreatedAlone
<1>7. CreatedAlone'
  BY <1>2 DEF CreatedAlone
<1>8. Counted'
  BY <1>1, <1>2, SameHolders DEF mapVars, TypeOK, Counted
<1>. QED  BY <1>3, <1>4, <1>5, <1>6, <1>7, <1>8

(* The last reference goes: nobody else has the stack, nor ever will.      *)
LEMMA ReleaseStep ==
  ASSUME NEW t \in Threads, IInv, Release(t)
  PROVE  IInv'
<1> USE DEF IInv
<1>1. PICK s \in Stacks : s = held[t] /\ pc[t] = "idle" /\ created[t] = None /\ s # None
                          /\ writer # t
  BY LayerStackAssumption DEF Release, CallShape, TypeOK
<1>2. /\ refCount' = [refCount EXCEPT ![s] = @ - 1] /\ held' = [held EXCEPT ![t] = None]
      /\ UNCHANGED <<mapVars, writer, id, layers, linked, want>>
  BY <1>1 DEF Release
<1>3. t \in Holders(s)
  BY <1>1 DEF Holders
<1>4. linked[s] /\ id[s] # None /\ refCount[s] = Cardinality(Holders(s))
  BY <1>3 DEF Counted
<1>5. refCount[s] \in Nat \ {0}
  BY <1>3, <1>4, HoldersFinite
<1>6. /\ Cardinality(Holders(s))' = Cardinality(Holders(s)) - 1
      /\ \A r \in Stacks \ {s} : Holders(r)' = Holders(r)
  BY <1>1, <1>2, Loss
<1>7. \A u \in Threads : created[u] # s
  BY <1>1 DEF CreatedAlone
<1>8. UsesAreExact' /\ EntriesAreStacks'
  BY <1>2, <1>5 DEF mapVars, TypeOK, UsesAreExact, EntriesAreStacks
<1>9. Counted'
  BY <1>2, <1>4, <1>5, <1>6 DEF mapVars, TypeOK, Counted
<1>10. CASE refCount[s] = 1
  <2>1. created' = [created EXCEPT ![t] = s] /\ pc' = [pc EXCEPT ![t] = "blow"]
    BY <1>1, <1>10 DEF Release, Goto
  <2>2. Holders(s)' = {}
    <3>1. Cardinality(Holders(s))' = 0
      BY <1>4, <1>6, <1>10
    <3>2. \A S : IsFiniteSet(S) => (Cardinality(S) = 0 <=> S = {})
      BY FS_EmptySet
    <3>3. Holders(s)' \in SUBSET Threads
      BY DEF Holders
    <3>4. IsFiniteSet(Holders(s)')
      BY <3>3, FS_Subset, LayerStackAssumption
    <3>. QED  BY <3>1, <3>2, <3>4
  <2>3. \A u \in Threads : held'[u] # s
    BY <2>2 DEF Holders
  <2>4. TypeOK'
    <3>1. refCount' \in [Stacks -> Nat]
      BY <1>2, <1>10 DEF TypeOK
    <3>. QED  BY <1>2, <2>1, <3>1 DEF mapVars, TypeOK, Labels
  <2>5. NoSelfDeadlock'
    BY <1>2, <2>1 DEF TypeOK, NoSelfDeadlock
  <2>6. CallShape'
    BY <1>1, <1>2, <1>7, <1>10, <2>1 DEF mapVars, TypeOK, CallShape
  <2>7. CreatedAlone'
    BY <1>1, <1>2, <1>4, <1>7, <2>1, <2>3, LayerStackAssumption DEF TypeOK, CreatedAlone
  <2>. QED  BY <1>8, <1>9, <2>4, <2>5, <2>6, <2>7
<1>11. CASE refCount[s] # 1
  <2>1. UNCHANGED <<created, pc>>
    BY <1>1, <1>11 DEF Release
  <2>2. TypeOK'
    BY <1>2, <1>5, <2>1 DEF mapVars, TypeOK
  <2>3. NoSelfDeadlock'
    BY <1>2, <2>1 DEF NoSelfDeadlock
  <2>4. CallShape'
    BY <1>1, <1>2, <1>7, <2>1 DEF mapVars, TypeOK, CallShape
  <2>5. CreatedAlone'
    BY <1>2, <2>1, LayerStackAssumption DEF TypeOK, CreatedAlone
  <2>. QED  BY <1>8, <1>9, <2>2, <2>3, <2>4, <2>5
<1>. QED  BY <1>10, <1>11

LEMMA BlowLayersStep ==
  ASSUME NEW t \in Threads, IInv, BlowLayers(t)
  PROVE  IInv'
<1> USE DEF IInv
<1>1. PICK s \in Stacks : s = created[t] /\ pc[t] = "blow" /\ s # None /\ refCount[s] = 0
  BY LayerStackAssumption DEF BlowLayers, CallShape, TypeOK
<1>2. /\ layers' = [layers EXCEPT ![s] = {}]
      /\ pc' = [pc EXCEPT ![t] = IF linked[s] THEN "unregister" ELSE "free"]
      /\ UNCHANGED <<mapVars, writer, id, refCount, linked, want, created, held>>
  BY <1>1 DEF BlowLayers, Goto
<1>3. \A u \in Threads \ {t} : created[u] # s
  BY <1>1 DEF CreatedAlone
<1>4. id[s] \in Ids
  BY <1>1 DEF TypeOK, CreatedAlone
<1>5. TypeOK'
  BY <1>2 DEF mapVars, TypeOK, Labels
<1>6. UsesAreExact' /\ EntriesAreStacks'
  BY <1>1, <1>2 DEF mapVars, TypeOK, UsesAreExact, EntriesAreStacks
<1>7. NoSelfDeadlock'
  BY <1>1, <1>2 DEF TypeOK, NoSelfDeadlock, CallShape
<1>8. CallShape'
  BY <1>1, <1>2, <1>3, <1>4 DEF mapVars, TypeOK, CallShape, Counted
<1>9. CreatedAlone'
  BY <1>2 DEF CreatedAlone
<1>10. Counted'
  BY <1>2, SameHolders DEF mapVars, Counted
<1>. QED  BY <1>5, <1>6, <1>7, <1>8, <1>9, <1>10

LEMMA SetLayersAndRemoveStep ==
  ASSUME NEW t \in Threads, IInv, SetLayersAndRemove(t)
  PROVE  IInv'
<1> USE DEF IInv
<1>1. PICK s \in Stacks : /\ s = created[t] /\ pc[t] = "unregister" /\ s # None
                          /\ refCount[s] = 0 /\ linked[s] /\ layers[s] = {} /\ id[s] \in Ids
  BY LayerStackAssumption DEF SetLayersAndRemove, CallShape, TypeOK, CreatedAlone
<1>2. /\ SetLayers(s, {}) /\ pc' = [pc EXCEPT ![t] = "free"]
      /\ UNCHANGED <<writer, stackVars, want, created, held>>
  BY <1>1 DEF SetLayersAndRemove, Goto
<1>3. identifierToLayerStack' =
        IF identifierToLayerStack[id[s]] = s
        THEN [identifierToLayerStack EXCEPT ![id[s]] = None] ELSE identifierToLayerStack
  BY <1>1 DEF SetLayersAndRemove
<1>4. /\ layerStackToLayers' \in [Stacks -> SUBSET Layers]
      /\ layerToLayerStacks' \in [Layers -> SUBSET Stacks]
      /\ layerStackToLayers'[s] = {}
      /\ \A r \in Stacks \ {s} : layerStackToLayers'[r] = layerStackToLayers[r]
      /\ \A r \in Stacks, l \in Layers :
           r \in layerToLayerStacks'[l] <=> l \in layerStackToLayers'[r]
  BY <1>2, SetLayersExact
<1>5. \A u \in Threads \ {t} : created[u] # s
  BY <1>1 DEF CreatedAlone
<1>6. /\ identifierToLayerStack' \in [Ids -> Stacks \cup {None}]
      /\ identifierToLayerStack'[id[s]] # s
      /\ \A i \in Ids : identifierToLayerStack'[i] \in {identifierToLayerStack[i], None}
      /\ \A i \in Ids : identifierToLayerStack'[i] # identifierToLayerStack[i]
                          => identifierToLayerStack[i] = s
  BY <1>1, <1>3 DEF TypeOK
<1>7. TypeOK'
  BY <1>2, <1>4, <1>6 DEF stackVars, TypeOK, Labels
<1>8. UsesAreExact'
  BY <1>1, <1>2, <1>4 DEF stackVars, TypeOK, UsesAreExact
<1>9. EntriesAreStacks'
  <2>1. \A i \in Ids : identifierToLayerStack'[i] # None => id'[identifierToLayerStack'[i]] = i
    BY <1>2, <1>6 DEF stackVars, EntriesAreStacks
  <2>2. \A r \in Stacks : layerStackToLayers'[r] # {} => id'[r] # None
    BY <1>2, <1>4 DEF stackVars, EntriesAreStacks
  <2>3. ASSUME NEW r \in Stacks, linked'[r], refCount'[r] > 0
        PROVE  identifierToLayerStack'[id'[r]] = r
    <3>1. r # s /\ identifierToLayerStack[id[r]] = r /\ id[r] \in Ids
      BY <1>1, <1>2, <2>3 DEF stackVars, EntriesAreStacks, Counted, TypeOK
    <3>. QED  BY <1>2, <1>6, <3>1 DEF stackVars
  <2>. QED  BY <2>1, <2>2, <2>3 DEF EntriesAreStacks
<1>10. NoSelfDeadlock'
  BY <1>2 DEF TypeOK, NoSelfDeadlock
<1>11. CallShape'
  <2>1. ASSUME NEW u \in Threads \ {t}, pc[u] = "free"
        PROVE  /\ layerStackToLayers'[created[u]] = {}
               /\ identifierToLayerStack'[id[created[u]]] # created[u]
    <3>1. created[u] \in Stacks \ {s} /\ created[u] # None /\ id[created[u]] \in Ids
      BY <1>5, <2>1, LayerStackAssumption DEF CallShape, TypeOK, CreatedAlone
    <3>. QED  BY <1>4, <1>6, <2>1, <3>1 DEF CallShape
  <2>2. writer # t /\ held[t] = None
    BY <1>1 DEF CallShape
  <2>. QED  BY <1>1, <1>2, <1>4, <1>6, <2>1, <2>2 DEF stackVars, TypeOK, CallShape
<1>12. CreatedAlone'
  BY <1>2 DEF stackVars, CreatedAlone
<1>13. Counted'
  BY <1>1, <1>2, <1>4, <1>6, SameHolders, LayerStackAssumption DEF stackVars, TypeOK,
                                                                   Counted
<1>. QED  BY <1>7, <1>8, <1>9, <1>10, <1>11, <1>12, <1>13

LEMMA FreeStep ==
  ASSUME NEW t \in Threads, IInv, Free(t)
  PROVE  IInv'
<1> USE DEF IInv
<1>1. PICK s \in Stacks : /\ s = created[t] /\ pc[t] = "free" /\ s # None
                          /\ refCount[s] = 0 /\ id[s] \in Ids
                          /\ layerStackToLayers[s] = {} /\ identifierToLayerStack[id[s]] # s
  BY LayerStackAssumption DEF Free, CallShape, TypeOK, CreatedAlone
<1>2. /\ id' = [id EXCEPT ![s] = None] /\ linked' = [linked EXCEPT ![s] = FALSE]
      /\ created' = [created EXCEPT ![t] = None]
      /\ pc' = [pc EXCEPT ![t] = IF writer = t THEN "unlock" ELSE "idle"]
      /\ UNCHANGED <<mapVars, writer, refCount, layers, want, held>>
  BY <1>1 DEF Free, Goto
<1>3. \A u \in Threads : (u # t => created[u] # s) /\ held[u] # s
  BY <1>1 DEF CreatedAlone
<1>4. \A i \in Ids : identifierToLayerStack[i] # s
  BY <1>1, LayerStackAssumption DEF EntriesAreStacks
<1>5. TypeOK'
  BY <1>2 DEF mapVars, TypeOK, Labels
<1>6. UsesAreExact'
  BY <1>2 DEF mapVars, TypeOK, UsesAreExact
<1>7. EntriesAreStacks'
  BY <1>1, <1>2, <1>4 DEF mapVars, TypeOK, EntriesAreStacks
<1>8. NoSelfDeadlock'
  BY <1>2 DEF TypeOK, NoSelfDeadlock
<1>9. CallShape'
  BY <1>1, <1>2, <1>3 DEF mapVars, TypeOK, CallShape
<1>10. CreatedAlone'
  BY <1>2, <1>3 DEF TypeOK, CreatedAlone
<1>11. Counted'
  <2>1. Holders(s) = {}
    BY <1>3 DEF Holders
  <2>. QED  BY <1>1, <1>2, <1>4, <2>1, SameHolders DEF mapVars, TypeOK, Counted
<1>. QED  BY <1>5, <1>6, <1>7, <1>8, <1>9, <1>10, <1>11

LEMMA UnlockStep ==
  ASSUME NEW t \in Threads, IInv, Unlock(t)
  PROVE  IInv'
<1> USE DEF IInv
<1>1. pc[t] = "unlock" /\ writer = t /\ t # None
  BY LayerStackAssumption DEF Unlock, CallShape
<1>2. /\ writer' = None /\ want' = [want EXCEPT ![t] = None]
      /\ pc' = [pc EXCEPT ![t] = "idle"]
      /\ UNCHANGED <<mapVars, stackVars, created, held>>
  BY DEF Unlock, Goto
<1>3. TypeOK'
  BY <1>2 DEF mapVars, stackVars, TypeOK, Labels
<1>4. UsesAreExact' /\ EntriesAreStacks'
  BY <1>2 DEF mapVars, stackVars, UsesAreExact, EntriesAreStacks
<1>5. NoSelfDeadlock'
  BY <1>2, LayerStackAssumption DEF NoSelfDeadlock
<1>6. CallShape'
  BY <1>1, <1>2, LayerStackAssumption DEF mapVars, stackVars, TypeOK, CallShape
<1>7. CreatedAlone'
  BY <1>2 DEF stackVars, CreatedAlone
<1>8. Counted'
  BY <1>2, SameHolders DEF mapVars, stackVars, Counted
<1>. QED  BY <1>3, <1>4, <1>5, <1>6, <1>7, <1>8

LEMMA ApplyStep ==
  ASSUME NEW s \in Stacks, IInv, Apply(s)
  PROVE  IInv'
<1> USE DEF IInv
<1>1. PICK ls \in SUBSET Layers : layers' = [layers EXCEPT ![s] = ls] /\ SetLayers(s, ls)
  BY DEF Apply
<1>2. /\ layerStackToLayers' \in [Stacks -> SUBSET Layers]
      /\ layerToLayerStacks' \in [Layers -> SUBSET Stacks]
      /\ layerStackToLayers'[s] = ls
      /\ \A r \in Stacks \ {s} : layerStackToLayers'[r] = layerStackToLayers[r]
      /\ \A r \in Stacks, l \in Layers :
           r \in layerToLayerStacks'[l] <=> l \in layerStackToLayers'[r]
  BY <1>1, SetLayersExact
<1>3. /\ \A t \in Threads : pc[t] = "idle" /\ created[t] = None
      /\ id[s] # None /\ linked[s]
      /\ UNCHANGED <<identifierToLayerStack, writer, id, refCount, linked, pc,
                     want, created, held>>
  BY DEF Apply, CallShape
<1>4. TypeOK'
  BY <1>1, <1>2, <1>3 DEF TypeOK
<1>5. UsesAreExact' /\ EntriesAreStacks'
  BY <1>1, <1>2, <1>3 DEF TypeOK, UsesAreExact, EntriesAreStacks
<1>6. NoSelfDeadlock'
  BY <1>3 DEF NoSelfDeadlock
<1>7. CallShape'
  BY <1>1, <1>3 DEF CallShape
<1>8. CreatedAlone'
  BY <1>3 DEF CreatedAlone
<1>9. Counted'
  BY <1>2, <1>3, SameHolders DEF Counted
<1>. QED  BY <1>4, <1>5, <1>6, <1>7, <1>8, <1>9

LEMMA InitInvariant == Init => IInv
<1> SUFFICES ASSUME Init PROVE IInv
  OBVIOUS
<1> USE LayerStackAssumption DEF Init
<1>1. TypeOK
  BY DEF TypeOK, Labels
<1>2. UsesAreExact /\ EntriesAreStacks /\ NoSelfDeadlock
  BY DEF UsesAreExact, EntriesAreStacks, NoSelfDeadlock
<1>3. CallShape /\ CreatedAlone
  BY DEF CallShape, CreatedAlone
<1>4. Counted
  BY DEF Counted, Holders
<1>. QED  BY <1>1, <1>2, <1>3, <1>4 DEF IInv

LEMMA NextInvariant == IInv /\ [Next]_vars => IInv'
<1> SUFFICES ASSUME IInv, [Next]_vars PROVE IInv'
  OBVIOUS
<1>1. ASSUME NEW t \in Threads, Returns(t)
      PROVE  IInv'
  BY <1>1, FindStep, ComputeStep, InstallLosesStep, InstallStep, DropCreatedStep,
     BlowLayersStep, SetLayersAndRemoveStep, FreeStep, UnlockStep DEF Returns
<1>2. CASE UNCHANGED vars
  BY <1>2, SameHolders DEF vars, mapVars, stackVars, IInv, TypeOK, UsesAreExact,
     EntriesAreStacks, NoSelfDeadlock, CallShape, CreatedAlone, Counted
<1>. QED  BY <1>1, <1>2, CallStep, ReleaseStep, ApplyStep DEF Next

LEMMA Invariant == Spec => []IInv
BY InitInvariant, NextInvariant, PTL DEF Spec

(* No map ever names a layer stack that is gone, the stacks that use a     *)
(* layer are found exactly, and the registry never waits for a lock that   *)
(* its own thread has.                                                     *)
THEOREM TablesExact ==
  Spec => [](UsesAreExact /\ EntriesAreStacks /\ NoSelfDeadlock)
<1>1. IInv => UsesAreExact /\ EntriesAreStacks /\ NoSelfDeadlock
  BY DEF IInv
<1>. QED  BY <1>1, Invariant, PTL

(***************************************************************************)
(* Sharing.                                                                *)
(***************************************************************************)
(* What is held is registered.                                             *)
LEMMA HeldIsRegistered ==
  ASSUME IInv, NEW t \in Threads, held[t] # None
  PROVE  /\ held[t] \in Stacks /\ linked[held[t]] /\ id[held[t]] \in Ids
         /\ refCount[held[t]] \in Nat \ {0}
         /\ identifierToLayerStack[id[held[t]]] = held[t]
<1>1. PICK s \in Stacks : s = held[t]
  BY DEF IInv, TypeOK
<1>2. t \in Holders(s)
  BY <1>1 DEF Holders
<1>3. linked[s] /\ refCount[s] \in Nat \ {0}
  BY <1>2, HoldersFinite DEF IInv, Counted
<1>. QED  BY <1>1, <1>3 DEF IInv, TypeOK, Counted, EntriesAreStacks

(* Other stacks keep their keys when a thread's reference changes.         *)
LEMMA SameKeys ==
  ASSUME IInv, UNCHANGED <<held, id>>
  PROVE  UNCHANGED <<held, SharedId>>
BY DEF SharedId

LEMMA FindJoins ==
  ASSUME IInv, NEW t \in Threads, want[t] \in Ids, held[t] = None, Alive(want[t]),
         TakeReference(t, want[t]), UNCHANGED id
  PROVE  \E s \in Stacks : Sharing!Join(t, s)
<1>1. PICK s \in Stacks : /\ s = identifierToLayerStack[want[t]] /\ id[s] = want[t]
                          /\ Holders(s) # {}
  BY AliveIsShared
<1>2. held' = [held EXCEPT ![t] = s]
  BY <1>1 DEF TakeReference
<1>3. PICK u \in Threads : held[u] = s
  BY <1>1 DEF Holders
<1>4. u # t
  BY <1>3, LayerStackAssumption
<1>5. SharedId[s] # None
  BY <1>1, <1>3, LayerStackAssumption DEF SharedId
<1>6. held'[u] = s
  BY <1>2, <1>3, <1>4 DEF IInv, TypeOK
<1>7. \A r \in Stacks : (\E v \in Threads : held'[v] = r) <=> (\E v \in Threads : held[v] = r)
  <2>1. ASSUME NEW r \in Stacks, NEW v \in Threads, held'[v] = r
        PROVE  \E w \in Threads : held[w] = r
    BY <1>2, <1>3, <2>1 DEF IInv, TypeOK
  <2>2. ASSUME NEW r \in Stacks, NEW v \in Threads, held[v] = r
        PROVE  held'[v] = r
    <3>1. v # t
      BY <2>2, LayerStackAssumption
    <3>. QED  BY <1>2, <2>2, <3>1 DEF IInv, TypeOK
  <2>. QED  BY <2>1, <2>2
<1>8. SharedId' = SharedId
  BY <1>7 DEF SharedId
<1>. QED  BY <1>2, <1>5, <1>8 DEF Sharing!Join

LEMMA InstallMakes ==
  ASSUME IInv, NEW t \in Threads, Install(t)
  PROVE  \E s \in Stacks : Sharing!New(t, s)
<1>1. PICK s \in Stacks, i \in Ids :
        /\ s = created[t] /\ i = want[t] /\ held[t] = None /\ id[s] = i /\ s # None
  BY LayerStackAssumption DEF Install, IInv, CallShape, TypeOK
<1>2. held' = [held EXCEPT ![t] = s] /\ UNCHANGED id
  BY <1>1 DEF Install
<1>3. \A u \in Threads : held[u] # s
  BY <1>1 DEF IInv, CreatedAlone
<1>4. SharedId[s] = None
  BY <1>3 DEF SharedId
<1>5. \A r \in Stacks : SharedId[r] # i
  <2> SUFFICES ASSUME NEW r \in Stacks, SharedId[r] = i PROVE FALSE
    OBVIOUS
  <2>1. PICK u \in Threads : held[u] = r
    BY LayerStackAssumption DEF SharedId
  <2>2. id[r] = i /\ r # None
    BY <2>1, LayerStackAssumption DEF SharedId
  <2>. QED  BY <1>1, <2>1, <2>2, HeldIsRegistered DEF Install, Alive
<1>6. SharedId' = [SharedId EXCEPT ![s] = i]
  <2>1. held'[t] = s /\ id'[s] = i
    BY <1>1, <1>2 DEF IInv, TypeOK
  <2>2. \A r \in Stacks \ {s} :
          (\E v \in Threads : held'[v] = r) <=> (\E v \in Threads : held[v] = r)
    BY <1>1, <1>2, LayerStackAssumption DEF IInv, TypeOK
  <2>. QED  BY <1>2, <2>1, <2>2 DEF SharedId
<1>. QED  BY <1>1, <1>2, <1>4, <1>5, <1>6 DEF Sharing!New

LEMMA ReleaseLeaves ==
  ASSUME IInv, NEW t \in Threads, Release(t)
  PROVE  Sharing!Leave(t)
<1>1. PICK s \in Stacks : s = held[t] /\ s # None
  BY DEF Release, IInv, TypeOK
<1>2. held' = [held EXCEPT ![t] = None] /\ UNCHANGED id
  BY DEF Release
<1>3. \A r \in Stacks \ {s} :
        (\E v \in Threads : held'[v] = r) <=> (\E v \in Threads : held[v] = r)
  BY <1>1, <1>2, LayerStackAssumption DEF IInv, TypeOK
<1>4. (\E v \in Threads : held'[v] = s) <=> (\E v \in Threads \ {t} : held[v] = s)
  BY <1>1, <1>2 DEF IInv, TypeOK
<1>5. SharedId' = IF \E v \in Threads \ {t} : held[v] = s
                    THEN SharedId ELSE [SharedId EXCEPT ![s] = None]
  BY <1>1, <1>2, <1>3, <1>4 DEF SharedId
<1>. QED  BY <1>1, <1>2, <1>5 DEF Sharing!Leave

(* Making and freeing a stack change the identifiers of stacks that nobody *)
(* holds.                                                                  *)
LEMMA UnheldChanges ==
  ASSUME IInv, NEW t \in Threads, Compute(t) \/ Free(t)
  PROVE  UNCHANGED <<held, SharedId>>
<1>1. PICK s \in Stacks : /\ \A r \in Stacks \ {s} : id'[r] = id[r]
                          /\ \A u \in Threads : held[u] # s
  <2>1. CASE Compute(t)
    <3>1. PICK s \in Stacks : id[s] = None /\ id' = [id EXCEPT ![s] = want[t]]
      BY <2>1 DEF Compute
    <3>2. \A u \in Threads : held[u] # s
      BY <3>1, HeldIsRegistered, LayerStackAssumption
    <3>. QED  BY <3>1, <3>2 DEF IInv, TypeOK
  <2>2. CASE Free(t)
    <3>1. created[t] \in Stacks /\ created[t] # None
      BY <2>2 DEF Free, IInv, CallShape, TypeOK
    <3>2. \A u \in Threads : held[u] # created[t]
      BY <3>1 DEF IInv, CreatedAlone
    <3>. QED  BY <2>2, <3>1, <3>2 DEF Free, IInv, TypeOK
  <2>. QED  BY <2>1, <2>2
<1>2. UNCHANGED held
  BY DEF Compute, Free
<1>. QED  BY <1>1, <1>2 DEF SharedId

LEMMA SharingStep ==
  ASSUME IInv, [Next]_vars
  PROVE  [Sharing!Next]_<<held, SharedId>>
<1>1. ASSUME NEW t \in Threads, Returns(t)
      PROVE  Sharing!Next \/ UNCHANGED <<held, SharedId>>
  <2>1. CASE Find(t)
    <3>1. held[t] = None /\ want[t] \in Ids
      BY <2>1 DEF Find, IInv, CallShape
    <3>2. CASE Alive(want[t])
      BY <2>1, <3>1, <3>2, FindJoins DEF Find, Sharing!Next
    <3>3. CASE ~Alive(want[t])
      BY <2>1, <3>3, SameKeys DEF Find
    <3>. QED  BY <3>2, <3>3
  <2>2. CASE InstallLoses(t)
    <3>1. held[t] = None /\ want[t] \in Ids
      BY <2>2, LayerStackAssumption DEF InstallLoses, IInv, CallShape
    <3>. QED  BY <2>2, <3>1, FindJoins DEF InstallLoses, Sharing!Next
  <2>3. CASE Install(t)
    BY <2>3, InstallMakes DEF Sharing!Next
  <2>4. CASE Compute(t) \/ Free(t)
    BY <2>4, UnheldChanges
  <2>5. CASE DropCreated(t) \/ BlowLayers(t) \/ SetLayersAndRemove(t) \/ Unlock(t)
    BY <2>5, SameKeys DEF DropCreated, BlowLayers, SetLayersAndRemove, Unlock, stackVars
  <2>. QED  BY <1>1, <2>1, <2>2, <2>3, <2>4, <2>5 DEF Returns
<1>2. ASSUME NEW t \in Threads, Release(t)
      PROVE  Sharing!Next
  BY <1>2, ReleaseLeaves DEF Sharing!Next
<1>3. CASE (\E t \in Threads : Call(t)) \/ (\E s \in Stacks : Apply(s)) \/ UNCHANGED vars
  BY <1>3, SameKeys DEF Call, Apply, vars, stackVars
<1>. QED  BY <1>1, <1>2, <1>3 DEF Next

(* Computing layer stacks without the lock, losing races and removing late *)
(* amount to threads joining and leaving the one layer stack in use of     *)
(* each identifier.                                                        *)
THEOREM SharingImplemented == Spec => ImplementsSharing
<1>1. Init => Sharing!Init
  BY LayerStackAssumption DEF Init, Sharing!Init, SharedId
<1>. QED  BY <1>1, SharingStep, Invariant, PTL DEF Spec, ImplementsSharing, Sharing!Spec

-----------------------------------------------------------------------------
(***************************************************************************)
(* TfTokenRegistry.  A representation is erased when the lock's holder     *)
(* finds a count of one that is its own; no token is left then: one that   *)
(* believes would be counted, one that does not believe would make it      *)
(* immortal, and one that is still copying has a source that is counted.   *)
(***************************************************************************)

(* Cardinalities and finiteness, as the instance has them.                 *)
LEMMA TokensAreCounted ==
  \A S : (TK!IsFiniteSet(S) <=> IsFiniteSet(S)) /\ TK!Cardinality(S) = Cardinality(S)
BY DEF TK!IsFiniteSet, IsFiniteSet, TK!Cardinality, Cardinality

LEMMA BelieversFinite ==
  ASSUME TK!TokenAssumption, NEW r
  PROVE  TK!IsFiniteSet(TK!Believers(r)) /\ TK!Cardinality(TK!Believers(r)) \in Nat
BY TokensAreCounted, FS_Subset, FS_CardinalityType DEF TK!Believers, TK!TokenAssumption

LEMMA NoneBelieves ==
  ASSUME TK!TokenAssumption, NEW r, \A t \in Tokens : rep[t] # r \/ ~bit[t] \/ ~TK!Counting(t)
  PROVE  TK!Cardinality(TK!Believers(r)) = 0
<1>1. TK!Believers(r) = {}
  BY DEF TK!Believers
<1>. QED  BY <1>1, TokensAreCounted, FS_EmptySet

(* A step that changes what one token believes changes one count by one.   *)
LEMMA SameBelievers ==
  ASSUME NEW r, \A t \in Tokens : t \in TK!Believers(r)' <=> t \in TK!Believers(r)
  PROVE  TK!Cardinality(TK!Believers(r)') = TK!Cardinality(TK!Believers(r))
<1>1. TK!Believers(r)' = TK!Believers(r)
  BY DEF TK!Believers
<1>. QED  BY <1>1

LEMMA TokenGain ==
  ASSUME TK!TokenAssumption, NEW r, NEW t \in Tokens, t \notin TK!Believers(r),
         t \in TK!Believers(r)',
         \A u \in Tokens \ {t} : u \in TK!Believers(r)' <=> u \in TK!Believers(r)
  PROVE  TK!Cardinality(TK!Believers(r)') = TK!Cardinality(TK!Believers(r)) + 1
<1>1. TK!Believers(r)' = TK!Believers(r) \cup {t}
  BY DEF TK!Believers
<1>. QED  BY <1>1, BelieversFinite, TokensAreCounted, FS_AddElement

LEMMA TokenLoss ==
  ASSUME TK!TokenAssumption, NEW r, NEW t \in Tokens, t \in TK!Believers(r),
         t \notin TK!Believers(r)',
         \A u \in Tokens \ {t} : u \in TK!Believers(r)' <=> u \in TK!Believers(r)
  PROVE  TK!Cardinality(TK!Believers(r)') = TK!Cardinality(TK!Believers(r)) - 1
<1>1. TK!Believers(r)' = TK!Believers(r) \ {t}
  BY DEF TK!Believers
<1>. QED  BY <1>1, BelieversFinite, TokensAreCounted, FS_RemoveElement

(* While it is counted, whoever has a representation believes in it, or is *)
(* copied from one who does.                                               *)
LEMMA UsedIsBelieved ==
  ASSUME TK!IInv, NEW t \in Tokens, rep[t] # None, isCounted[rep[t]]
  PROVE  \/ t \in TK!Believers(rep[t])
         \/ /\ source[t] \in Tokens \ {t}
            /\ source[t] \in TK!Believers(rep[t])
<1>1. bit[t]
  BY DEF TK!IInv, TK!BeliefsAreSafe
<1>2. CASE TK!Counting(t)
  BY <1>1, <1>2 DEF TK!Believers
<1>3. CASE ~TK!Counting(t)
  <2>1. source[t] # None /\ source[t] \in Tokens
    BY <1>3 DEF TK!IInv, TK!TypeOK, TK!SourcesHold
  <2>2. /\ TK!Held(source[t]) /\ bit[source[t]] /\ rep[source[t]] = rep[t]
        /\ source[t] # t
    BY <2>1, <1>3 DEF TK!IInv, TK!SourcesHold, TK!Held, TK!Counting
  <2>3. TK!Counting(source[t])
    BY <2>2 DEF TK!Held, TK!Counting
  <2>. QED  BY <2>1, <2>2, <2>3 DEF TK!Believers
<1>. QED  BY <1>2, <1>3

(* What the registry has for an allocated representation.                  *)
LEMMA RepFacts ==
  ASSUME TK!IInv, NEW t \in Tokens, rep[t] # None
  PROVE  /\ rep[t] \in Reps /\ text[t] \in Strings
         /\ tkStr[rep[t]] = text[t] /\ tkTable[text[t]] = rep[t]
BY DEF TK!IInv, TK!TypeOK, TK!Interned, TK!EntriesAreReps

-----------------------------------------------------------------------------
LEMMA TokenInit == TK!TokenAssumption /\ TK!Init => TK!IInv
<1> SUFFICES ASSUME TK!TokenAssumption, TK!Init PROVE TK!IInv
  OBVIOUS
<1>1. TK!TypeOK
  BY DEF TK!Init, TK!TypeOK, TK!Labels
<1>2. TK!Interned /\ TK!EntriesAreReps /\ TK!BeliefsAreSafe /\ TK!CountsCover
  BY DEF TK!Init, TK!Interned, TK!EntriesAreReps, TK!BeliefsAreSafe, TK!CountsCover
<1>3. TK!SourcesHold
  BY DEF TK!Init, TK!SourcesHold, TK!Counting
<1>. QED  BY <1>1, <1>2, <1>3 DEF TK!IInv

LEMMA GetCountedStep ==
  ASSUME TK!IInv, NEW t \in Tokens, NEW s \in Strings, TK!GetCounted(t, s)
  PROVE  TK!IInv'
<1>1. PICK r \in Reps :
        /\ r = tkTable[s] /\ tkStr[r] = s /\ isCounted[r]
        /\ TK!Empty(t)
        /\ tkRefCount' = [tkRefCount EXCEPT ![r] = @ + 1]
        /\ rep' = [rep EXCEPT ![t] = r]
        /\ bit' = [bit EXCEPT ![t] = TRUE]
        /\ text' = [text EXCEPT ![t] = s]
        /\ UNCHANGED <<tkTable, tkStr, isCounted, tkPc, source>>
  BY DEF TK!GetCounted, TK!Point, TK!IInv, TK!TypeOK, TK!EntriesAreReps
<1>2. TK!TypeOK'
  BY <1>1 DEF TK!IInv, TK!TypeOK
<1>3. TK!Interned' /\ TK!EntriesAreReps'
  BY <1>1 DEF TK!IInv, TK!TypeOK, TK!Interned, TK!EntriesAreReps, TK!TokenAssumption
<1>4. TK!BeliefsAreSafe'
  BY <1>1 DEF TK!IInv, TK!TypeOK, TK!BeliefsAreSafe
<1>5. TK!SourcesHold'
  BY <1>1 DEF TK!IInv, TK!TypeOK, TK!SourcesHold, TK!Held, TK!Empty, TK!Counting
<1>6. TK!CountsCover'
  <2> SUFFICES ASSUME NEW m \in Reps, tkStr'[m] # None
               PROVE  /\ tkRefCount'[m] >= TK!Cardinality(TK!Believers(m)')
                      /\ isCounted'[m] => tkRefCount'[m] = TK!Cardinality(TK!Believers(m)')
    BY DEF TK!CountsCover
  <2>1. CASE m = r
    <3>1. TK!Cardinality(TK!Believers(m)') = TK!Cardinality(TK!Believers(m)) + 1
      BY <1>1, <2>1, TokenGain
      DEF TK!IInv, TK!TypeOK, TK!Believers, TK!Empty, TK!Counting, TK!TokenAssumption
    <3>. QED  BY <1>1, <2>1, <3>1, BelieversFinite DEF TK!IInv, TK!TypeOK,
                                                       TK!CountsCover
  <2>2. CASE m # r
    <3>1. \A u \in Tokens : u \in TK!Believers(m)' <=> u \in TK!Believers(m)
      BY <1>1, <2>2 DEF TK!IInv, TK!TypeOK, TK!Believers, TK!Empty, TK!Counting,
                        TK!TokenAssumption
    <3>2. TK!Cardinality(TK!Believers(m)') = TK!Cardinality(TK!Believers(m))
      BY <3>1, SameBelievers
    <3>. QED  BY <1>1, <2>2, <3>2 DEF TK!IInv, TK!TypeOK, TK!CountsCover
  <2>. QED  BY <2>1, <2>2
<1>. QED  BY <1>2, <1>3, <1>4, <1>5, <1>6 DEF TK!IInv, TK!TokenAssumption

(* A token that points to a representation that is not counted, or is not  *)
(* counted any more.                                                       *)
LEMMA GetImmortalStep ==
  ASSUME TK!IInv, NEW t \in Tokens, NEW s \in Strings,
         TK!MakeImmortal(t, s) \/ TK!GetImmortal(t, s)
  PROVE  TK!IInv'
<1>1. PICK r \in Reps :
        /\ r = tkTable[s] /\ tkStr[r] = s
        /\ TK!Empty(t)
        /\ isCounted' = [isCounted EXCEPT ![r] = FALSE]
        /\ rep' = [rep EXCEPT ![t] = r]
        /\ bit' = [bit EXCEPT ![t] = FALSE]
        /\ text' = [text EXCEPT ![t] = s]
        /\ UNCHANGED <<tkTable, tkStr, tkRefCount, tkPc, source>>
  <2>1. tkTable[s] \in Reps /\ tkStr[tkTable[s]] = s
    BY DEF TK!GetImmortal, TK!MakeImmortal, TK!IInv, TK!TypeOK, TK!EntriesAreReps
  <2>2. isCounted' = [isCounted EXCEPT ![tkTable[s]] = FALSE]
    BY <2>1 DEF TK!GetImmortal, TK!MakeImmortal, TK!repVars, TK!IInv, TK!TypeOK
  <2>. QED  BY <2>1, <2>2 DEF TK!GetImmortal, TK!MakeImmortal, TK!Point, TK!repVars
<1>2. TK!TypeOK'
  BY <1>1 DEF TK!IInv, TK!TypeOK
<1>3. TK!Interned' /\ TK!EntriesAreReps'
  BY <1>1 DEF TK!IInv, TK!TypeOK, TK!Interned, TK!EntriesAreReps, TK!TokenAssumption
<1>4. TK!BeliefsAreSafe'
  BY <1>1 DEF TK!IInv, TK!TypeOK, TK!BeliefsAreSafe
<1>5. TK!SourcesHold'
  BY <1>1 DEF TK!IInv, TK!TypeOK, TK!SourcesHold, TK!Held, TK!Empty, TK!Counting
<1>6. ASSUME NEW m \in Reps
      PROVE  TK!Cardinality(TK!Believers(m)') = TK!Cardinality(TK!Believers(m))
  <2>1. \A u \in Tokens : u \in TK!Believers(m)' <=> u \in TK!Believers(m)
    BY <1>1 DEF TK!IInv, TK!TypeOK, TK!Believers, TK!Empty, TK!Counting,
                TK!TokenAssumption
  <2>. QED  BY <2>1, SameBelievers
<1>7. TK!CountsCover'
  BY <1>1, <1>6 DEF TK!IInv, TK!TypeOK, TK!CountsCover
<1>. QED  BY <1>2, <1>3, <1>4, <1>5, <1>7 DEF TK!IInv, TK!TokenAssumption

LEMMA InsertStep ==
  ASSUME TK!IInv, NEW t \in Tokens, NEW s \in Strings, NEW immortal \in BOOLEAN,
         TK!Insert(t, s, immortal)
  PROVE  TK!IInv'
<1>1. PICK r \in Reps :
        /\ tkTable[s] = None /\ tkStr[r] = None
        /\ TK!Empty(t)
        /\ tkStr' = [tkStr EXCEPT ![r] = s]
        /\ tkTable' = [tkTable EXCEPT ![s] = r]
        /\ isCounted' = [isCounted EXCEPT ![r] = ~immortal]
        /\ tkRefCount' = [tkRefCount EXCEPT ![r] = IF immortal THEN @ ELSE 1]
        /\ rep' = [rep EXCEPT ![t] = r]
        /\ bit' = [bit EXCEPT ![t] = ~immortal]
        /\ text' = [text EXCEPT ![t] = s]
        /\ UNCHANGED <<tkPc, source>>
  BY DEF TK!Insert, TK!Point
<1>2. \A u \in Tokens : rep[u] # r
  BY <1>1, RepFacts DEF TK!IInv, TK!TokenAssumption
<1>3. TK!TypeOK'
  BY <1>1 DEF TK!IInv, TK!TypeOK
<1>4. TK!Interned' /\ TK!EntriesAreReps'
  <2>1. \A u \in Tokens : rep[u] # None => text[u] # s
    BY <1>1 DEF TK!IInv, TK!Interned
  <2>2. TK!Interned'
    BY <1>1, <1>2, <2>1 DEF TK!IInv, TK!TypeOK, TK!Interned, TK!EntriesAreReps
  <2>3. \A k \in Strings : k # s => tkTable[k] # r
    BY <1>1 DEF TK!IInv, TK!EntriesAreReps, TK!TokenAssumption
  <2>4. TK!EntriesAreReps'
    BY <1>1, <2>3 DEF TK!IInv, TK!TypeOK, TK!EntriesAreReps, TK!TokenAssumption
  <2>. QED  BY <2>2, <2>4
<1>5. TK!BeliefsAreSafe'
  BY <1>1, <1>2 DEF TK!IInv, TK!TypeOK, TK!BeliefsAreSafe
<1>6. TK!SourcesHold'
  BY <1>1, <1>2 DEF TK!IInv, TK!TypeOK, TK!SourcesHold, TK!Held, TK!Empty, TK!Counting
<1>7. TK!CountsCover'
  <2> SUFFICES ASSUME NEW m \in Reps, tkStr'[m] # None
               PROVE  /\ tkRefCount'[m] >= TK!Cardinality(TK!Believers(m)')
                      /\ isCounted'[m] => tkRefCount'[m] = TK!Cardinality(TK!Believers(m)')
    BY DEF TK!CountsCover
  <2>1. CASE m # r
    <3>1. \A u \in Tokens : u \in TK!Believers(m)' <=> u \in TK!Believers(m)
      BY <1>1, <2>1 DEF TK!IInv, TK!TypeOK, TK!Believers, TK!Empty, TK!Counting,
                        TK!TokenAssumption
    <3>2. TK!Cardinality(TK!Believers(m)') = TK!Cardinality(TK!Believers(m))
      BY <3>1, SameBelievers
    <3>. QED  BY <1>1, <2>1, <3>2 DEF TK!IInv, TK!TypeOK, TK!CountsCover
  <2>2. CASE m = r /\ immortal
    <3>1. \A u \in Tokens : u \in TK!Believers(m)' <=> u \in TK!Believers(m)
      BY <1>1, <1>2, <2>2 DEF TK!IInv, TK!TypeOK, TK!Believers, TK!Counting
    <3>2. TK!Cardinality(TK!Believers(m)') = 0
      BY <1>2, <2>2, <3>1, SameBelievers, NoneBelieves DEF TK!IInv
    <3>3. tkRefCount'[m] \in Nat /\ ~isCounted'[m]
      BY <1>1, <1>3, <2>2 DEF TK!IInv, TK!TypeOK
    <3>. QED  BY <3>2, <3>3
  <2>3. CASE m = r /\ ~immortal
    <3>1. TK!Cardinality(TK!Believers(m)) = 0
      BY <1>2, <2>3, NoneBelieves DEF TK!IInv
    <3>2. /\ t \in TK!Believers(m)' /\ t \notin TK!Believers(m)
          /\ \A u \in Tokens \ {t} : u \in TK!Believers(m)' <=> u \in TK!Believers(m)
      BY <1>1, <1>2, <2>3 DEF TK!IInv, TK!TypeOK, TK!Believers, TK!Empty, TK!Counting
    <3>3. TK!Cardinality(TK!Believers(m)') = TK!Cardinality(TK!Believers(m)) + 1
      BY <3>2, TokenGain DEF TK!IInv
    <3>4. tkRefCount'[m] = 1
      BY <1>1, <2>3 DEF TK!IInv, TK!TypeOK
    <3>. QED  BY <3>1, <3>3, <3>4
  <2>. QED  BY <2>1, <2>2, <2>3
<1>. QED  BY <1>3, <1>4, <1>5, <1>6, <1>7 DEF TK!IInv, TK!TokenAssumption

(* A step that changes neither what tokens point to and believe nor the    *)
(* representations.                                                        *)
LEMMA LabelStep ==
  ASSUME TK!IInv, NEW t \in Tokens, NEW label \in {"increment", "removeRef", "load", "decrement",
                                               "destroy"},
         \/ tkPc[t] = "addRef" /\ label = "increment"
         \/ /\ TK!Counting(t) /\ rep[t] # None /\ bit[t] /\ TK!NotCopied(t)
            /\ label # "increment",
         tkPc' = [tkPc EXCEPT ![t] = label], UNCHANGED <<TK!repVars, rep, bit, text, source>>
  PROVE  TK!IInv'
<1>1. TK!TypeOK' /\ TK!Interned' /\ TK!EntriesAreReps' /\ TK!BeliefsAreSafe'
  BY DEF TK!repVars, TK!IInv, TK!TypeOK, TK!Labels, TK!Interned, TK!EntriesAreReps,
         TK!BeliefsAreSafe
<1>2. \A u \in Tokens : TK!Counting(u)' <=> TK!Counting(u)
  BY DEF TK!IInv, TK!TypeOK, TK!Counting
<1>3. TK!SourcesHold'
  BY <1>2 DEF TK!IInv, TK!TypeOK, TK!SourcesHold, TK!Held, TK!Counting, TK!NotCopied
<1>4. ASSUME NEW m \in Reps
      PROVE  TK!Cardinality(TK!Believers(m)') = TK!Cardinality(TK!Believers(m))
  <2>1. \A u \in Tokens : u \in TK!Believers(m)' <=> u \in TK!Believers(m)
    BY <1>2 DEF TK!Believers
  <2>. QED  BY <2>1, SameBelievers
<1>5. TK!CountsCover'
  BY <1>4 DEF TK!repVars, TK!IInv, TK!CountsCover
<1>. QED  BY <1>1, <1>3, <1>5 DEF TK!IInv, TK!TokenAssumption

LEMMA NotCopiedUnlessIdle ==
  ASSUME TK!IInv, NEW t \in Tokens, tkPc[t] # "idle"
  PROVE  rep[t] # None /\ bit[t] /\ TK!NotCopied(t)
<1>1. rep[t] # None /\ bit[t] /\ t # None
  BY DEF TK!IInv, TK!SourcesHold, TK!TokenAssumption
<1>2. ASSUME NEW u \in Tokens, source[u] = t
      PROVE  FALSE
  BY <1>1, <1>2 DEF TK!IInv, TK!SourcesHold, TK!Held
<1>. QED  BY <1>1, <1>2 DEF TK!NotCopied

LEMMA MarkStep ==
  ASSUME TK!IInv, NEW t \in Tokens, TK!AddRefCounted(t) \/ TK!RemoveRefCounted(t) \/ TK!LoadCount(t)
  PROVE  TK!IInv'
<1>1. rep[t] # None /\ bit[t] /\ TK!NotCopied(t)
  BY NotCopiedUnlessIdle DEF TK!AddRefCounted, TK!RemoveRefCounted, TK!LoadCount
<1>2. CASE TK!AddRefCounted(t)
  BY <1>2, LabelStep DEF TK!AddRefCounted, TK!Goto
<1>3. CASE TK!RemoveRefCounted(t)
  BY <1>1, <1>3, LabelStep DEF TK!RemoveRefCounted, TK!Goto, TK!Counting
<1>4. CASE TK!LoadCount(t)
  <2>1. PICK label \in {"destroy", "decrement"} : tkPc' = [tkPc EXCEPT ![t] = label]
    BY <1>4 DEF TK!LoadCount, TK!Goto
  <2>. QED  BY <1>1, <1>4, <2>1, LabelStep DEF TK!LoadCount, TK!Counting
<1>. QED  BY <1>2, <1>3, <1>4

LEMMA CopyStep ==
  ASSUME TK!IInv, NEW t \in Tokens, NEW u \in Tokens, TK!Copy(t, u)
  PROVE  TK!IInv'
<1>1. /\ TK!Empty(t) /\ TK!Held(u) /\ UNCHANGED TK!repVars
      /\ rep' = [rep EXCEPT ![t] = rep[u]]
      /\ bit' = [bit EXCEPT ![t] = bit[u]]
      /\ text' = [text EXCEPT ![t] = text[u]]
      /\ IF bit[u] THEN /\ tkPc' = [tkPc EXCEPT ![t] = "addRef"]
                        /\ source' = [source EXCEPT ![t] = u]
                   ELSE UNCHANGED <<tkPc, source>>
  BY DEF TK!Copy, TK!Point, TK!Goto
<1>2. TK!TypeOK'
  BY <1>1 DEF TK!repVars, TK!IInv, TK!TypeOK, TK!Labels
<1>3. TK!Interned' /\ TK!EntriesAreReps' /\ TK!BeliefsAreSafe'
  BY <1>1 DEF TK!repVars, TK!IInv, TK!TypeOK, TK!Held, TK!Interned, TK!EntriesAreReps,
              TK!BeliefsAreSafe
<1>4. u # t /\ u # None
  BY <1>1 DEF TK!Empty, TK!Held, TK!IInv, TK!TokenAssumption
<1>5. TK!SourcesHold'
  <2>1. CASE bit[u]
    BY <1>1, <1>4, <2>1 DEF TK!IInv, TK!TypeOK, TK!SourcesHold, TK!Held, TK!Empty,
                            TK!Counting
  <2>2. CASE ~bit[u]
    BY <1>1, <1>4, <2>2 DEF TK!IInv, TK!TypeOK, TK!SourcesHold, TK!Held, TK!Empty,
                            TK!Counting
  <2>. QED  BY <2>1, <2>2
<1>6. ASSUME NEW m \in Reps
      PROVE  TK!Cardinality(TK!Believers(m)') = TK!Cardinality(TK!Believers(m))
  <2>1. \A v \in Tokens : v \in TK!Believers(m)' <=> v \in TK!Believers(m)
    <3>1. CASE bit[u]
      BY <1>1, <3>1 DEF TK!IInv, TK!TypeOK, TK!Believers, TK!Empty, TK!Counting,
                        TK!TokenAssumption
    <3>2. CASE ~bit[u]
      BY <1>1, <3>2 DEF TK!IInv, TK!TypeOK, TK!Believers, TK!Empty, TK!Counting,
                        TK!TokenAssumption
    <3>. QED  BY <3>1, <3>2
  <2>. QED  BY <2>1, SameBelievers
<1>7. TK!CountsCover'
  BY <1>1, <1>6 DEF TK!repVars, TK!IInv, TK!CountsCover
<1>. QED  BY <1>2, <1>3, <1>5, <1>7 DEF TK!IInv, TK!TokenAssumption

LEMMA AddRefNotCountedStep ==
  ASSUME TK!IInv, NEW t \in Tokens, TK!AddRefNotCounted(t)
  PROVE  TK!IInv'
<1>1. rep[t] # None /\ TK!NotCopied(t)
  BY NotCopiedUnlessIdle DEF TK!AddRefNotCounted
<1>2. /\ tkPc[t] = "addRef" /\ ~isCounted[rep[t]]
      /\ bit' = [bit EXCEPT ![t] = FALSE]
      /\ tkPc' = [tkPc EXCEPT ![t] = "idle"]
      /\ source' = [source EXCEPT ![t] = None]
      /\ UNCHANGED <<TK!repVars, rep, text>>
  BY DEF TK!AddRefNotCounted, TK!Goto
<1>3. TK!TypeOK' /\ TK!Interned' /\ TK!EntriesAreReps' /\ TK!BeliefsAreSafe'
  BY <1>2
  DEF TK!repVars, TK!IInv, TK!TypeOK, TK!Labels, TK!Interned, TK!EntriesAreReps,
      TK!BeliefsAreSafe
<1>4. TK!SourcesHold'
  BY <1>1, <1>2 DEF TK!IInv, TK!TypeOK, TK!SourcesHold, TK!Held, TK!Counting,
                    TK!NotCopied
<1>5. ASSUME NEW m \in Reps
      PROVE  TK!Cardinality(TK!Believers(m)') = TK!Cardinality(TK!Believers(m))
  <2>1. \A u \in Tokens : u \in TK!Believers(m)' <=> u \in TK!Believers(m)
    BY <1>2 DEF TK!IInv, TK!TypeOK, TK!Believers, TK!Counting
  <2>. QED  BY <2>1, SameBelievers
<1>6. TK!CountsCover'
  BY <1>2, <1>5 DEF TK!repVars, TK!IInv, TK!CountsCover
<1>. QED  BY <1>3, <1>4, <1>6 DEF TK!IInv, TK!TokenAssumption

LEMMA IncrementStep ==
  ASSUME TK!IInv, NEW t \in Tokens, TK!Increment(t)
  PROVE  TK!IInv'
<1>1. rep[t] \in Reps /\ rep[t] # None /\ bit[t] /\ TK!NotCopied(t)
  BY NotCopiedUnlessIdle, RepFacts DEF TK!Increment
<1>2. /\ tkPc[t] = "increment"
      /\ tkRefCount' = [tkRefCount EXCEPT ![rep[t]] = @ + 1]
      /\ tkPc' = [tkPc EXCEPT ![t] = "idle"]
      /\ source' = [source EXCEPT ![t] = None]
      /\ UNCHANGED <<tkTable, tkStr, isCounted, rep, bit, text>>
  BY DEF TK!Increment, TK!Goto
<1>3. TK!TypeOK' /\ TK!Interned' /\ TK!EntriesAreReps' /\ TK!BeliefsAreSafe'
  BY <1>1, <1>2
  DEF TK!IInv, TK!TypeOK, TK!Labels, TK!Interned, TK!EntriesAreReps, TK!BeliefsAreSafe
<1>4. TK!SourcesHold'
  BY <1>1, <1>2 DEF TK!IInv, TK!TypeOK, TK!SourcesHold, TK!Held, TK!Counting,
                    TK!NotCopied
<1>5. TK!CountsCover'
  <2> SUFFICES ASSUME NEW m \in Reps, tkStr'[m] # None
               PROVE  /\ tkRefCount'[m] >= TK!Cardinality(TK!Believers(m)')
                      /\ isCounted'[m] => tkRefCount'[m] = TK!Cardinality(TK!Believers(m)')
    BY DEF TK!CountsCover
  <2>1. CASE m = rep[t]
    <3>1. /\ t \in TK!Believers(m)' /\ t \notin TK!Believers(m)
          /\ \A u \in Tokens \ {t} : u \in TK!Believers(m)' <=> u \in TK!Believers(m)
      BY <1>1, <1>2, <2>1 DEF TK!IInv, TK!TypeOK, TK!Believers, TK!Counting
    <3>2. TK!Cardinality(TK!Believers(m)') = TK!Cardinality(TK!Believers(m)) + 1
      BY <3>1, TokenGain DEF TK!IInv
    <3>. QED  BY <1>1, <1>2, <2>1, <3>2, BelieversFinite DEF TK!IInv, TK!TypeOK,
                                                             TK!CountsCover
  <2>2. CASE m # rep[t]
    <3>1. \A u \in Tokens : u \in TK!Believers(m)' <=> u \in TK!Believers(m)
      BY <1>2, <2>2 DEF TK!IInv, TK!TypeOK, TK!Believers, TK!Counting
    <3>2. TK!Cardinality(TK!Believers(m)') = TK!Cardinality(TK!Believers(m))
      BY <3>1, SameBelievers
    <3>. QED  BY <1>1, <1>2, <2>2, <3>2 DEF TK!IInv, TK!TypeOK, TK!CountsCover
  <2>. QED  BY <2>1, <2>2
<1>. QED  BY <1>3, <1>4, <1>5 DEF TK!IInv, TK!TokenAssumption

LEMMA MoveStep ==
  ASSUME TK!IInv, NEW t \in Tokens, NEW u \in Tokens, TK!Move(t, u)
  PROVE  TK!IInv'
<1>1. /\ TK!Empty(t) /\ TK!Held(u) /\ TK!NotCopied(u) /\ TK!NotCopied(t) /\ t # u
      /\ rep' = [rep EXCEPT ![t] = rep[u], ![u] = None]
      /\ bit' = [bit EXCEPT ![t] = bit[u], ![u] = FALSE]
      /\ text' = [text EXCEPT ![t] = text[u], ![u] = None]
      /\ UNCHANGED <<TK!repVars, tkPc, source>>
  <2>1. TK!Empty(t) /\ TK!Held(u) /\ TK!NotCopied(u) /\ t # None
    BY DEF TK!Move, TK!IInv, TK!TokenAssumption
  <2>2. TK!NotCopied(t) /\ t # u
    BY <2>1 DEF TK!Empty, TK!Held, TK!NotCopied, TK!IInv, TK!SourcesHold
  <2>. QED  BY <2>1, <2>2 DEF TK!Move
<1>2. TK!TypeOK'
  BY <1>1 DEF TK!repVars, TK!IInv, TK!TypeOK
<1>3. TK!Interned' /\ TK!EntriesAreReps' /\ TK!BeliefsAreSafe'
  BY <1>1 DEF TK!repVars, TK!IInv, TK!TypeOK, TK!Held, TK!Interned, TK!EntriesAreReps,
              TK!BeliefsAreSafe
<1>4. TK!SourcesHold'
  BY <1>1 DEF TK!IInv, TK!TypeOK, TK!SourcesHold, TK!Held, TK!Empty, TK!Counting,
              TK!NotCopied
<1>5. ASSUME NEW m \in Reps
      PROVE  TK!Cardinality(TK!Believers(m)') = TK!Cardinality(TK!Believers(m))
  <2>1. CASE m = rep[u] /\ bit[u]
    <3>1. TK!Believers(m)' = (TK!Believers(m) \ {u}) \cup {t}
      BY <1>1, <2>1
      DEF TK!IInv, TK!TypeOK, TK!Believers, TK!Empty, TK!Held, TK!Counting,
          TK!TokenAssumption
    <3>2. u \in TK!Believers(m) /\ t \notin TK!Believers(m)
      BY <1>1, <2>1
      DEF TK!IInv, TK!Believers, TK!Empty, TK!Held, TK!Counting, TK!TokenAssumption
    <3>3. /\ TK!IsFiniteSet(TK!Believers(m) \ {u})
          /\ TK!Cardinality(TK!Believers(m) \ {u}) = TK!Cardinality(TK!Believers(m)) - 1
      BY <3>2, BelieversFinite, TokensAreCounted, FS_RemoveElement DEF TK!IInv
    <3>4. TK!Cardinality((TK!Believers(m) \ {u}) \cup {t}) = TK!Cardinality(TK!Believers(m) \ {u}) + 1
      BY <3>2, <3>3, TokensAreCounted, FS_AddElement
    <3>. QED  BY <3>1, <3>3, <3>4, BelieversFinite DEF TK!IInv
  <2>2. CASE m # rep[u] \/ ~bit[u]
    <3>1. \A v \in Tokens : v \in TK!Believers(m)' <=> v \in TK!Believers(m)
      BY <1>1, <2>2
      DEF TK!IInv, TK!TypeOK, TK!Believers, TK!Empty, TK!Held, TK!Counting,
          TK!TokenAssumption
    <3>. QED  BY <3>1, SameBelievers
  <2>. QED  BY <2>1, <2>2
<1>6. TK!CountsCover'
  BY <1>1, <1>5 DEF TK!repVars, TK!IInv, TK!CountsCover
<1>. QED  BY <1>2, <1>3, <1>4, <1>6 DEF TK!IInv, TK!TokenAssumption

-----------------------------------------------------------------------------
(* Tokens that are destroyed: one believer less, if the token was one.     *)
LEMMA GoneKeeps ==
  ASSUME TK!IInv, NEW t \in Tokens, rep[t] # None, TK!Counting(t), TK!NotCopied(t), TK!Gone(t),
         UNCHANGED <<source, isCounted>>
  PROVE  /\ rep' \in [Tokens -> Reps \cup {None}] /\ bit' \in [Tokens -> BOOLEAN]
         /\ text' \in [Tokens -> Strings \cup {None}] /\ tkPc' \in [Tokens -> TK!Labels]
         /\ rep'[t] = None
         /\ \A u \in Tokens \ {t} : rep'[u] = rep[u] /\ text'[u] = text[u]
         /\ TK!BeliefsAreSafe' /\ TK!SourcesHold'
<1>1. /\ rep' = [rep EXCEPT ![t] = None] /\ bit' = [bit EXCEPT ![t] = FALSE]
      /\ text' = [text EXCEPT ![t] = None] /\ tkPc' = [tkPc EXCEPT ![t] = "idle"]
  BY DEF TK!Gone, TK!Point, TK!Goto
<1>2. TK!BeliefsAreSafe'
  BY <1>1 DEF TK!IInv, TK!TypeOK, TK!BeliefsAreSafe
<1>3. TK!SourcesHold'
  BY <1>1 DEF TK!IInv, TK!TypeOK, TK!SourcesHold, TK!Held, TK!Counting, TK!NotCopied
<1>. QED  BY <1>1, <1>2, <1>3 DEF TK!IInv, TK!TypeOK, TK!Labels

LEMMA GoneCounts ==
  ASSUME TK!IInv, NEW t \in Tokens, rep[t] # None, TK!Counting(t), TK!Gone(t), NEW m \in Reps
  PROVE  TK!Cardinality(TK!Believers(m)') =
           IF m = rep[t] /\ bit[t] THEN TK!Cardinality(TK!Believers(m)) - 1
                                   ELSE TK!Cardinality(TK!Believers(m))
<1>1. /\ rep' = [rep EXCEPT ![t] = None] /\ bit' = [bit EXCEPT ![t] = FALSE]
      /\ tkPc' = [tkPc EXCEPT ![t] = "idle"]
  BY DEF TK!Gone, TK!Point, TK!Goto
<1>2. \A u \in Tokens \ {t} : u \in TK!Believers(m)' <=> u \in TK!Believers(m)
  BY <1>1 DEF TK!IInv, TK!TypeOK, TK!Believers, TK!Counting
<1>3. t \notin TK!Believers(m)'
  BY <1>1 DEF TK!IInv, TK!TypeOK, TK!Believers, TK!TokenAssumption
<1>4. t \in TK!Believers(m) <=> m = rep[t] /\ bit[t]
  BY DEF TK!Believers
<1>5. CASE m = rep[t] /\ bit[t]
  BY <1>2, <1>3, <1>4, <1>5, TokenLoss DEF TK!IInv
<1>6. CASE ~(m = rep[t] /\ bit[t])
  BY <1>2, <1>3, <1>4, <1>6, SameBelievers
<1>. QED  BY <1>5, <1>6

LEMMA GoneUncountedStep ==
  ASSUME TK!IInv, NEW t \in Tokens, rep[t] # None, TK!Counting(t), TK!NotCopied(t), TK!Gone(t),
         ~isCounted[rep[t]], UNCHANGED <<TK!repVars, source>>
  PROVE  TK!IInv'
<1>1. TK!BeliefsAreSafe' /\ TK!SourcesHold' /\ TK!TypeOK'
  BY GoneKeeps DEF TK!repVars, TK!IInv, TK!TypeOK
<1>2. TK!Interned' /\ TK!EntriesAreReps'
  BY GoneKeeps DEF TK!repVars, TK!IInv, TK!Interned, TK!EntriesAreReps
<1>3. TK!CountsCover'
  <2> SUFFICES ASSUME NEW m \in Reps, tkStr[m] # None
               PROVE  /\ tkRefCount[m] >= TK!Cardinality(TK!Believers(m)')
                      /\ isCounted[m] => tkRefCount[m] = TK!Cardinality(TK!Believers(m)')
    BY DEF TK!repVars, TK!CountsCover
  <2>1. tkRefCount[m] >= TK!Cardinality(TK!Believers(m)) /\ tkRefCount[m] \in Nat
    BY DEF TK!IInv, TK!TypeOK, TK!CountsCover
  <2>2. CASE m = rep[t]
    BY <2>1, <2>2, GoneCounts, BelieversFinite DEF TK!IInv
  <2>3. CASE m # rep[t]
    BY <2>3, GoneCounts DEF TK!IInv, TK!CountsCover
  <2>. QED  BY <2>2, <2>3
<1>. QED  BY <1>1, <1>2, <1>3 DEF TK!IInv, TK!TokenAssumption

(* A believer takes its count away and leaves the representation.          *)
LEMMA GoneCountedStep ==
  ASSUME TK!IInv, NEW t \in Tokens, rep[t] # None, bit[t], TK!Counting(t), TK!NotCopied(t), TK!Gone(t),
         tkRefCount' = [tkRefCount EXCEPT ![rep[t]] = @ - 1],
         UNCHANGED <<tkTable, tkStr, isCounted, source>>
  PROVE  TK!IInv'
<1>1. /\ tkStr[rep[t]] # None /\ rep[t] \in Reps
      /\ tkRefCount[rep[t]] >= TK!Cardinality(TK!Believers(rep[t]))
  BY RepFacts DEF TK!IInv, TK!TokenAssumption, TK!CountsCover
<1>2. TK!Cardinality(TK!Believers(rep[t])) \in Nat \ {0}
  BY <1>1, BelieversFinite, TokensAreCounted, FS_EmptySet DEF TK!IInv, TK!Believers
<1>3. tkRefCount' \in [Reps -> Nat]
  BY <1>1, <1>2 DEF TK!IInv, TK!TypeOK
<1>4. TK!BeliefsAreSafe' /\ TK!SourcesHold' /\ TK!TypeOK'
  BY <1>3, GoneKeeps DEF TK!IInv, TK!TypeOK
<1>5. TK!Interned' /\ TK!EntriesAreReps'
  BY GoneKeeps DEF TK!IInv, TK!Interned, TK!EntriesAreReps
<1>6. TK!CountsCover'
  <2> SUFFICES ASSUME NEW m \in Reps, tkStr[m] # None
               PROVE  /\ tkRefCount'[m] >= TK!Cardinality(TK!Believers(m)')
                      /\ isCounted[m] => tkRefCount'[m] = TK!Cardinality(TK!Believers(m)')
    BY DEF TK!CountsCover
  <2>1. CASE m = rep[t]
    <3>1. /\ TK!Cardinality(TK!Believers(m)') = TK!Cardinality(TK!Believers(m)) - 1
          /\ tkRefCount'[m] = tkRefCount[m] - 1
      BY <2>1, GoneCounts DEF TK!IInv, TK!TypeOK
    <3>2. tkRefCount[m] \in Nat /\ TK!Cardinality(TK!Believers(m)) \in Nat
      BY BelieversFinite DEF TK!IInv, TK!TypeOK
    <3>3. /\ tkRefCount[m] >= TK!Cardinality(TK!Believers(m))
          /\ isCounted[m] => tkRefCount[m] = TK!Cardinality(TK!Believers(m))
      BY DEF TK!IInv, TK!CountsCover
    <3>. QED  BY <3>1, <3>2, <3>3
  <2>2. CASE m # rep[t]
    BY <1>1, <2>2, GoneCounts DEF TK!IInv, TK!TypeOK, TK!CountsCover
  <2>. QED  BY <2>1, <2>2
<1>. QED  BY <1>4, <1>5, <1>6 DEF TK!IInv, TK!TokenAssumption

(* A count of one is the token's own, and nobody else points here.         *)
LEMMA LastOne ==
  ASSUME TK!IInv, NEW t \in Tokens, rep[t] # None, bit[t], TK!Counting(t), TK!NotCopied(t),
         isCounted[rep[t]], tkRefCount[rep[t]] = 1
  PROVE  \A u \in Tokens \ {t} : rep[u] # rep[t]
<1>1. TK!Cardinality(TK!Believers(rep[t])) = 1
  BY RepFacts DEF TK!IInv, TK!TokenAssumption, TK!CountsCover
<1>2. TK!Believers(rep[t]) = {t}
  <2>1. t \in TK!Believers(rep[t])
    BY DEF TK!Believers
  <2>2. \E u : TK!Believers(rep[t]) = {u}
    BY <1>1, BelieversFinite, TokensAreCounted, FS_Singleton DEF TK!IInv
  <2>. QED  BY <2>1, <2>2
<1>3. ASSUME NEW u \in Tokens \ {t}, rep[u] = rep[t]
      PROVE  FALSE
  <2>1. u \in TK!Believers(rep[t]) \/ source[u] \in TK!Believers(rep[t])
    BY <1>3, UsedIsBelieved
  <2>. QED  BY <1>2, <2>1 DEF TK!NotCopied
<1>. QED  BY <1>3

LEMMA EraseStep ==
  ASSUME TK!IInv, NEW t \in Tokens, rep[t] # None, bit[t], TK!Counting(t), TK!NotCopied(t), TK!Gone(t),
         isCounted[rep[t]], tkRefCount[rep[t]] = 1,
         tkRefCount' = [tkRefCount EXCEPT ![rep[t]] = @ - 1],
         tkTable' = [tkTable EXCEPT ![tkStr[rep[t]]] = None],
         tkStr' = [tkStr EXCEPT ![rep[t]] = None],
         UNCHANGED <<isCounted, source>>
  PROVE  TK!IInv'
<1>1. \A u \in Tokens \ {t} : rep[u] # rep[t]
  BY LastOne
<1>2. rep[t] \in Reps /\ tkStr[rep[t]] \in Strings
  BY RepFacts
<1>3. tkRefCount' \in [Reps -> Nat]
  BY <1>2 DEF TK!IInv, TK!TypeOK
<1>4. tkTable' \in [Strings -> Reps \cup {None}] /\ tkStr' \in [Reps -> Strings \cup {None}]
  BY <1>2 DEF TK!IInv, TK!TypeOK
<1>5. TK!BeliefsAreSafe' /\ TK!SourcesHold' /\ TK!TypeOK'
  BY <1>3, <1>4, GoneKeeps DEF TK!IInv, TK!TypeOK
<1>6. TK!Interned'
  <2> SUFFICES ASSUME NEW u \in Tokens, rep'[u] # None
               PROVE  tkTable'[text'[u]] = rep'[u] /\ tkStr'[rep'[u]] = text'[u]
    BY DEF TK!Interned
  <2>1. u # t /\ rep'[u] = rep[u] /\ text'[u] = text[u] /\ rep[u] # rep[t]
    BY <1>1, GoneKeeps
  <2>2. /\ rep[u] \in Reps /\ text[u] \in Strings
        /\ tkStr[rep[u]] = text[u] /\ tkTable[text[u]] = rep[u]
    BY <2>1, RepFacts
  <2>3. text[u] # tkStr[rep[t]]
    BY <2>1, <2>2, RepFacts
  <2>. QED  BY <2>1, <2>2, <2>3 DEF TK!IInv, TK!TypeOK
<1>7. TK!EntriesAreReps'
  <2>1. \A s \in Strings : tkTable'[s] # None => tkStr'[tkTable'[s]] = s
    BY <1>2 DEF TK!IInv, TK!TypeOK, TK!EntriesAreReps
  <2>. QED  BY <2>1, GoneKeeps DEF TK!IInv, TK!EntriesAreReps
<1>8. TK!CountsCover'
  <2> SUFFICES ASSUME NEW m \in Reps, tkStr'[m] # None
               PROVE  /\ tkRefCount'[m] >= TK!Cardinality(TK!Believers(m)')
                      /\ isCounted[m] => tkRefCount'[m] = TK!Cardinality(TK!Believers(m)')
    BY DEF TK!CountsCover
  <2>1. m # rep[t] /\ tkStr[m] # None
    BY <1>2 DEF TK!IInv, TK!TypeOK
  <2>. QED  BY <1>2, <2>1, GoneCounts DEF TK!IInv, TK!TypeOK, TK!CountsCover
<1>. QED  BY <1>5, <1>6, <1>7, <1>8 DEF TK!IInv, TK!TokenAssumption

LEMMA DestructionStep ==
  ASSUME TK!IInv, NEW t \in Tokens,
         \/ TK!Destruct(t) \/ TK!RemoveRefNotCounted(t) \/ TK!Decrement(t)
         \/ TK!PossiblyDestroyRep(t)
  PROVE  TK!IInv'
<1>1. /\ rep[t] # None /\ TK!NotCopied(t) /\ TK!Counting(t)
      /\ tkPc[t] # "idle" => bit[t]
  BY NotCopiedUnlessIdle
  DEF TK!Destruct, TK!RemoveRefNotCounted, TK!Decrement, TK!PossiblyDestroyRep,
      TK!Held, TK!Counting
<1>2. CASE TK!Destruct(t)
  <2>1. CASE bit[t]
    BY <1>1, <1>2, <2>1, LabelStep DEF TK!Destruct, TK!Goto
  <2>2. CASE ~bit[t]
    BY <1>1, <1>2, <2>2, GoneUncountedStep DEF TK!Destruct, TK!IInv, TK!BeliefsAreSafe
  <2>. QED  BY <2>1, <2>2
<1>3. CASE TK!RemoveRefNotCounted(t)
  BY <1>1, <1>3, GoneUncountedStep DEF TK!RemoveRefNotCounted
<1>4. CASE TK!Decrement(t)
  BY <1>1, <1>4, GoneCountedStep DEF TK!Decrement
<1>5. CASE TK!PossiblyDestroyRep(t)
  <2>1. CASE ~isCounted[rep[t]]
    BY <1>1, <1>5, <2>1, GoneUncountedStep DEF TK!PossiblyDestroyRep
  <2>2. CASE isCounted[rep[t]] /\ tkRefCount[rep[t]] # 1
    BY <1>1, <1>5, <2>2, GoneCountedStep DEF TK!PossiblyDestroyRep
  <2>3. CASE isCounted[rep[t]] /\ tkRefCount[rep[t]] = 1
    BY <1>1, <1>5, <2>3, EraseStep DEF TK!PossiblyDestroyRep
  <2>. QED  BY <2>1, <2>2, <2>3
<1>. QED  BY <1>2, <1>3, <1>4, <1>5

LEMMA StutterStep == TK!IInv /\ UNCHANGED TK!vars => TK!IInv'
<1> SUFFICES ASSUME TK!IInv, UNCHANGED TK!vars PROVE TK!IInv'
  OBVIOUS
<1>1. TK!TypeOK' /\ TK!Interned' /\ TK!EntriesAreReps' /\ TK!BeliefsAreSafe'
  BY DEF TK!vars, TK!IInv, TK!TypeOK, TK!Interned, TK!EntriesAreReps, TK!BeliefsAreSafe
<1>2. TK!SourcesHold'
  BY DEF TK!vars, TK!IInv, TK!SourcesHold, TK!Held, TK!Counting
<1>3. \A r \in Reps : TK!Believers(r)' = TK!Believers(r)
  BY DEF TK!vars, TK!Believers, TK!Counting
<1>4. TK!CountsCover'
  BY <1>3 DEF TK!vars, TK!IInv, TK!CountsCover
<1>. QED  BY <1>1, <1>2, <1>4 DEF TK!IInv, TK!TokenAssumption

LEMMA TokenNext == TK!IInv /\ [TK!Next]_TK!vars => TK!IInv'
<1>1. ASSUME TK!IInv, NEW t \in Tokens, TK!Step(t)
      PROVE  TK!IInv'
  BY <1>1, GetCountedStep, GetImmortalStep, InsertStep, CopyStep, MoveStep,
     AddRefNotCountedStep, MarkStep, IncrementStep, DestructionStep DEF TK!Step
<1>. QED  BY <1>1, StutterStep DEF TK!Next

LEMMA TokensInvariant == TK!TokenAssumption /\ TK!Spec => []TK!IInv
BY TokenInit, TokenNext, PTL DEF TK!Spec

LEMMA CountsAreExact == TK!IInv => TK!RepsAreExact
<1> SUFFICES ASSUME TK!IInv, NEW r \in Reps, tkStr[r] # None, isCounted[r]
             PROVE  tkRefCount[r] = TK!Cardinality({t \in Tokens : rep[t] = r /\ TK!Counting(t)})
  BY DEF TK!IInv, TK!RepsAreExact, TK!CountIsExact
<1>1. r # None
  BY DEF TK!IInv, TK!TokenAssumption
<1>2. {t \in Tokens : rep[t] = r /\ TK!Counting(t)} = TK!Believers(r)
  BY <1>1 DEF TK!IInv, TK!BeliefsAreSafe, TK!Believers
<1>. QED  BY <1>2 DEF TK!IInv, TK!CountsCover

(* No token dangles, equal strings have equal pointers, and the count of a *)
(* counted representation is the number of its tokens, for any number of   *)
(* tokens that are made, copied, moved and destroyed at a time.            *)
THEOREM TokensAreExact == TK!TokenAssumption /\ TK!Spec => []TK!RepsAreExact
BY TokensInvariant, CountsAreExact, PTL

-----------------------------------------------------------------------------
(* What a step does to the tokens' pointers: the sharing they see.         *)
LEMMA ErasedIsCounted ==
  ASSUME TK!IInv, NEW t \in Tokens, TK!Step(t), NEW s \in Strings, tkTable[s] # None,
         tkTable'[s] # tkTable[s]
  PROVE  isCounted[tkTable[s]]
<1>1. CASE \E k \in Strings, immortal \in BOOLEAN : TK!Insert(t, k, immortal)
  BY <1>1 DEF TK!Insert, TK!IInv, TK!TypeOK
<1>2. CASE TK!PossiblyDestroyRep(t)
  <2>1. rep[t] # None
    BY <1>2, NotCopiedUnlessIdle DEF TK!PossiblyDestroyRep
  <2>2. isCounted[rep[t]] /\ tkTable' = [tkTable EXCEPT ![tkStr[rep[t]]] = None]
    BY <1>2 DEF TK!PossiblyDestroyRep, TK!repVars
  <2>. QED  BY <2>1, <2>2, RepFacts DEF TK!IInv, TK!TypeOK
<1>. QED
  BY <1>1, <1>2
  DEF TK!Step, TK!GetCounted, TK!MakeImmortal, TK!GetImmortal, TK!Copy, TK!Move,
      TK!AddRefNotCounted,
      TK!AddRefCounted, TK!Increment, TK!Destruct, TK!RemoveRefNotCounted,
      TK!RemoveRefCounted,
      TK!LoadCount, TK!Decrement, TK!repVars

(* A string made immortal keeps its representation for ever.               *)
THEOREM ImmortalsStay == TK!TokenAssumption /\ TK!Spec => TK!ImmortalStays
<1>1. TK!IInv /\ [TK!Next]_TK!vars =>
        [\A s \in Strings : tkTable[s] # None /\ ~isCounted[tkTable[s]]
                               => tkTable'[s] = tkTable[s]]_TK!vars
  BY ErasedIsCounted DEF TK!Next
<1>. QED  BY <1>1, TokensInvariant, PTL DEF TK!Spec, TK!ImmortalStays

Used(r)   == \E t \in Tokens : rep[t] = r
StringOf  == [r \in Reps |-> IF \E t \in Tokens : rep[t] = r THEN tkStr[r] ELSE None]

LEMMA OneString ==
  ASSUME NEW r \in Reps, NEW s, StringOf'[r] = s,
         \A m \in Reps \ {r} : StringOf'[m] = StringOf[m]
  PROVE  StringOf' = [StringOf EXCEPT ![r] = s]
<1> DEFINE f == [StringOf EXCEPT ![r] = s]
<1>1. StringOf' = [m \in Reps |-> StringOf'[m]]
  BY DEF StringOf
<1>2. f = [m \in Reps |-> f[m]] /\ \A m \in Reps : f[m] = StringOf'[m]
  BY DEF StringOf
<1>. QED  BY <1>1, <1>2

LEMMA Pointed ==
  ASSUME TK!IInv, NEW r \in Reps
  PROVE  /\ StringOf[r] = None <=> ~Used(r)
         /\ Used(r) => StringOf[r] = tkStr[r]
<1>1. r # None
  BY DEF TK!IInv, TK!TokenAssumption
<1>. QED  BY <1>1, RepFacts DEF StringOf, Used, TK!IInv, TK!TokenAssumption

(* A token that gets the representation of s, which nobody or somebody had.*)
LEMMA PointsShared ==
  ASSUME TK!IInv, TK!IInv', NEW t \in Tokens, NEW s \in Strings, NEW r \in Reps, rep[t] = None,
         rep' = [rep EXCEPT ![t] = r], tkStr'[r] = s,
         \A m \in Reps \ {r} : tkStr'[m] = tkStr[m],
         tkTable[s] = r \/ tkTable[s] = None,
         Used(r) => tkStr[r] = s
  PROVE  TK!Sharing!Next
<1>1. r # None
  BY DEF TK!IInv, TK!TokenAssumption
<1>2. /\ Used(r)'
      /\ \A m \in Reps \ {r} : Used(m)' <=> Used(m)
  <2>1. \A m \in Reps : m # None
    BY DEF TK!IInv, TK!TokenAssumption
  <2>. QED  BY <2>1 DEF Used, TK!IInv, TK!TypeOK
<1>3. StringOf' = [StringOf EXCEPT ![r] = s]
  <2>1. StringOf'[r] = s
    BY <1>2 DEF StringOf, Used
  <2>2. \A m \in Reps \ {r} : StringOf'[m] = StringOf[m]
    BY <1>2 DEF StringOf, Used
  <2>. QED  BY <2>1, <2>2, OneString
<1>4. CASE Used(r)
  <2>1. StringOf[r] = s /\ StringOf[r] # None
    BY <1>4, Pointed
  <2>2. StringOf' = StringOf
    BY <1>3, <2>1 DEF StringOf
  <2>3. TK!Sharing!Join(t, r)
    BY <2>1, <2>2 DEF TK!Sharing!Join, StringOf
  <2>. QED  BY <2>3 DEF TK!Sharing!Next
<1>5. CASE ~Used(r)
  <2>1. StringOf[r] = None
    BY <1>5, Pointed
  <2>2. \A m \in Reps : StringOf[m] # s
    <3>1. ASSUME NEW m \in Reps, StringOf[m] = s
          PROVE  FALSE
      <4>1. PICK u \in Tokens : rep[u] = m /\ tkStr[m] = s
        BY <3>1 DEF StringOf, TK!IInv, TK!TokenAssumption
      <4>2. m # None /\ tkTable[s] = m
        BY <4>1, RepFacts DEF TK!IInv, TK!TokenAssumption
      <4>. QED  BY <1>5, <4>1, <4>2 DEF Used
    <3>. QED  BY <3>1
  <2>3. TK!Sharing!New(t, r)
    BY <1>3, <2>1, <2>2 DEF TK!Sharing!New, StringOf
  <2>. QED  BY <2>3 DEF TK!Sharing!Next
<1>. QED  BY <1>4, <1>5

(* A token that is gone was the last of its representation, or was not.    *)
LEMMA GoneLeaves ==
  ASSUME TK!IInv, TK!IInv', NEW t \in Tokens, rep[t] # None, rep' = [rep EXCEPT ![t] = None],
         \A u \in Tokens \ {t} : tkStr'[rep[u]] = tkStr[rep[u]]
  PROVE  TK!Sharing!Leave(t)
<1>1. rep[t] \in Reps
  BY RepFacts
<1>2. \A m \in Reps : m # None /\ (Used(m)' <=> \E u \in Tokens \ {t} : rep[u] = m)
  BY DEF Used, TK!IInv, TK!TypeOK, TK!TokenAssumption
<1>3. \A m \in Reps \ {rep[t]} : StringOf'[m] = StringOf[m]
  BY <1>2 DEF StringOf, Used
<1>4. CASE \E u \in Tokens \ {t} : rep[u] = rep[t]
  <2>1. StringOf'[rep[t]] = StringOf[rep[t]]
    BY <1>1, <1>2, <1>4 DEF StringOf, Used
  <2>2. StringOf' = StringOf
    BY <1>3, <2>1 DEF StringOf
  <2>. QED  BY <1>4, <2>2 DEF TK!Sharing!Leave, StringOf
<1>5. CASE ~\E u \in Tokens \ {t} : rep[u] = rep[t]
  <2>1. StringOf'[rep[t]] = None
    BY <1>1, <1>2, <1>5 DEF StringOf, Used
  <2>2. StringOf' = [StringOf EXCEPT ![rep[t]] = None]
    BY <1>1, <1>3, <2>1, OneString
  <2>. QED  BY <1>5, <2>2 DEF TK!Sharing!Leave, StringOf
<1>. QED  BY <1>4, <1>5

LEMMA MovePasses ==
  ASSUME TK!IInv, NEW t \in Tokens, NEW u \in Tokens, TK!Move(t, u)
  PROVE  TK!Sharing!Next
<1>1. /\ rep[t] = None /\ rep[u] # None /\ t # u
      /\ rep' = [rep EXCEPT ![t] = rep[u], ![u] = None] /\ tkStr' = tkStr
  BY DEF TK!Move, TK!Empty, TK!Held, TK!repVars
<1>2. rep' = [rep EXCEPT ![u] = None, ![t] = rep[u]]
  BY <1>1 DEF TK!IInv, TK!TypeOK
<1>3. \A m \in Reps : m # None /\ (Used(m)' <=> Used(m))
  BY <1>1 DEF Used, TK!IInv, TK!TypeOK, TK!TokenAssumption
<1>4. StringOf' = StringOf
  BY <1>1, <1>3 DEF StringOf, Used
<1>. QED  BY <1>1, <1>2, <1>4 DEF StringOf, TK!Sharing!Pass, TK!Sharing!Next

LEMMA TokenSharingStep ==
  ASSUME TK!IInv, TK!IInv', [TK!Next]_TK!vars
  PROVE  [TK!Sharing!Next]_<<rep, StringOf>>
<1>1. CASE UNCHANGED TK!vars
  BY <1>1 DEF TK!vars, StringOf
<1>2. ASSUME NEW t \in Tokens, TK!Step(t)
      PROVE  TK!Sharing!Next \/ UNCHANGED <<rep, StringOf>>
  <2>1. ASSUME NEW s \in Strings,
               TK!GetCounted(t, s) \/ TK!MakeImmortal(t, s) \/ TK!GetImmortal(t, s)
        PROVE  TK!Sharing!Next
    <3>1. /\ rep[t] = None /\ tkTable[s] \in Reps /\ tkStr[tkTable[s]] = s
          /\ rep' = [rep EXCEPT ![t] = tkTable[s]] /\ tkStr' = tkStr
      BY <2>1
      DEF TK!GetCounted, TK!MakeImmortal, TK!GetImmortal, TK!Empty, TK!Point,
          TK!repVars, TK!IInv, TK!TypeOK,
          TK!EntriesAreReps
    <3>. QED  BY <3>1, PointsShared
  <2>2. ASSUME NEW s \in Strings, NEW immortal \in BOOLEAN, TK!Insert(t, s, immortal)
        PROVE  TK!Sharing!Next
    <3>1. PICK r \in Reps : /\ rep[t] = None /\ tkTable[s] = None /\ tkStr[r] = None
                            /\ tkStr' = [tkStr EXCEPT ![r] = s]
                            /\ rep' = [rep EXCEPT ![t] = r]
      BY <2>2 DEF TK!Insert, TK!Empty, TK!Point
    <3>2. ~Used(r)
      BY <3>1, RepFacts DEF Used, TK!IInv, TK!TokenAssumption
    <3>. QED  BY <3>1, <3>2, PointsShared DEF TK!IInv, TK!TypeOK
  <2>3. ASSUME NEW u \in Tokens, TK!Copy(t, u)
        PROVE  TK!Sharing!Next
    <3>1. /\ rep[t] = None /\ rep[u] # None /\ tkStr' = tkStr
          /\ rep' = [rep EXCEPT ![t] = rep[u]]
      BY <2>3 DEF TK!Copy, TK!Empty, TK!Held, TK!Point, TK!repVars
    <3>2. /\ rep[u] \in Reps /\ tkStr[rep[u]] \in Strings
          /\ tkTable[tkStr[rep[u]]] = rep[u]
      BY <3>1, RepFacts
    <3>. QED  BY <3>1, <3>2, PointsShared
  <2>4. ASSUME NEW u \in Tokens, TK!Move(t, u)
        PROVE  TK!Sharing!Next
    BY <2>4, MovePasses
  <2>5. CASE /\ TK!Destruct(t) \/ TK!RemoveRefNotCounted(t) \/ TK!Decrement(t)
                \/ TK!PossiblyDestroyRep(t)
             /\ rep' # rep
    <3>1. /\ rep[t] # None /\ TK!NotCopied(t) /\ TK!Counting(t)
          /\ tkPc[t] # "idle" => bit[t]
      BY <2>5, NotCopiedUnlessIdle
      DEF TK!Destruct, TK!RemoveRefNotCounted, TK!Decrement, TK!PossiblyDestroyRep,
          TK!Held, TK!Counting
    <3>2. rep' = [rep EXCEPT ![t] = None]
      BY <2>5
      DEF TK!Destruct, TK!RemoveRefNotCounted, TK!Decrement, TK!PossiblyDestroyRep,
          TK!Gone, TK!Point
    <3>3. \A u \in Tokens \ {t} : tkStr'[rep[u]] = tkStr[rep[u]]
      <4>1. CASE tkStr' = tkStr
        BY <4>1
      <4>2. CASE tkStr' # tkStr
        <5>1. /\ tkStr' = [tkStr EXCEPT ![rep[t]] = None] /\ bit[t]
              /\ isCounted[rep[t]] /\ tkRefCount[rep[t]] = 1
          BY <2>5, <3>1, <4>2
          DEF TK!Destruct, TK!RemoveRefNotCounted, TK!Decrement,
              TK!PossiblyDestroyRep, TK!repVars
        <5>2. \A u \in Tokens \ {t} : rep[u] # rep[t]
          BY <3>1, <5>1, LastOne
        <5>. QED  BY <5>1, <5>2 DEF TK!IInv, TK!TypeOK
      <4>. QED  BY <4>1, <4>2
    <3>. QED  BY <3>1, <3>2, <3>3, GoneLeaves DEF TK!Sharing!Next
  <2>6. CASE \/ TK!AddRefNotCounted(t) \/ TK!AddRefCounted(t) \/ TK!Increment(t)
             \/ TK!RemoveRefCounted(t) \/ TK!LoadCount(t)
             \/ TK!Destruct(t) /\ rep' = rep
    BY <2>6
    DEF TK!AddRefNotCounted, TK!AddRefCounted, TK!Increment, TK!RemoveRefCounted,
        TK!LoadCount, TK!Destruct,
        TK!repVars, StringOf
  <2>7. CASE /\ TK!RemoveRefNotCounted(t) \/ TK!Decrement(t) \/ TK!PossiblyDestroyRep(t)
             /\ rep' = rep
    <3>1. rep[t] # None
      BY <2>7, NotCopiedUnlessIdle DEF TK!RemoveRefNotCounted, TK!Decrement,
                                       TK!PossiblyDestroyRep
    <3>2. rep'[t] = None
      BY <2>7
      DEF TK!RemoveRefNotCounted, TK!Decrement, TK!PossiblyDestroyRep, TK!Gone,
          TK!Point, TK!IInv, TK!TypeOK
    <3>. QED  BY <2>7, <3>1, <3>2
  <2>. QED
    BY <1>2, <2>1, <2>2, <2>3, <2>4, <2>5, <2>6, <2>7 DEF TK!Step
<1>. QED  BY <1>1, <1>2 DEF TK!Next

(* The representations implement the sharing of one object per key.        *)
THEOREM TokensAreShared == TK!TokenAssumption /\ TK!Spec => TK!ImplementsSharing
<1>1. TK!TokenAssumption /\ TK!Init => TK!Sharing!Init
  BY DEF TK!Init, TK!Sharing!Init, TK!TokenAssumption
<1>. QED
  BY <1>1, TokenSharingStep, TokensInvariant, PTL
  DEF TK!Spec, TK!ImplementsSharing, TK!Sharing!Spec, StringOf

-----------------------------------------------------------------------------
(***************************************************************************)
(* SdfPathNodes.  What has a handle, or a child that has not released it,  *)
(* is not dying; a dying node is in the table only until its thread has    *)
(* looked, and then without a count.  So whoever finds a node with a count *)
(* finds one that lives, and a dying node takes nobody's entry with it.    *)
(***************************************************************************)

(* Cardinalities and finiteness, as the instance has them.                 *)
LEMMA NodesAreCounted ==
  \A S : (PN!IsFiniteSet(S) <=> IsFiniteSet(S)) /\ PN!Cardinality(S) = Cardinality(S)
BY DEF PN!IsFiniteSet, IsFiniteSet, PN!Cardinality, Cardinality

(* The two kinds of references a node counts.                              *)
Users(n)    == {h \in Handles : node[h] = n}
Children(n) == {m \in Nodes : parent[m] = n /\ ~PN!HasReleasedParent(m)}

(* The head of a list of dying nodes is what the thread works on.          *)
DestroyedOnce ==
  \A h, u \in Handles : \A i \in DOMAIN dying[h], j \in DOMAIN dying[u] :
    dying[h][i] = dying[u][j] => h = u /\ i = j

LEMMA CountsFinite ==
  ASSUME PN!PathNodeAssumption, NEW n
  PROVE  /\ PN!IsFiniteSet(Users(n)) /\ PN!Cardinality(Users(n)) \in Nat
         /\ PN!IsFiniteSet(Children(n)) /\ PN!Cardinality(Children(n)) \in Nat
<1>1. PN!IsFiniteSet(Users(n))
  BY NodesAreCounted, FS_Subset DEF Users, PN!PathNodeAssumption
<1>2. PN!IsFiniteSet(Children(n))
  BY NodesAreCounted, FS_Subset DEF Children, PN!PathNodeAssumption
<1>. QED  BY <1>1, <1>2, NodesAreCounted, FS_CardinalityType

LEMMA CountFacts ==
  ASSUME PN!CountIsExact, NEW n \in Nodes, PN!Live(n)
  PROVE  /\ pnTable[<<parent[n], pnName[n]>>] = n
         /\ pnRefCount[n] > 0
         /\ pnRefCount[n] = PN!Cardinality(Users(n)) + PN!Cardinality(Children(n))
BY DEF PN!CountIsExact, PN!Live, Users, Children

(* No node references it: no handle, and no child that might release it.   *)
LEMMA NoneCounted ==
  ASSUME NEW n, \A h \in Handles : node[h] # n,
         \A m \in Nodes : parent[m] = n => PN!HasReleasedParent(m)
  PROVE  PN!Cardinality(Users(n)) = 0 /\ PN!Cardinality(Children(n)) = 0
<1>1. Users(n) = {} /\ Children(n) = {}
  BY DEF Users, Children
<1>. QED  BY <1>1, NodesAreCounted, FS_EmptySet

LEMMA OneUser ==
  ASSUME PN!PathNodeAssumption, NEW n, NEW h \in Handles, node[h] = n,
         PN!Cardinality(Users(n)) + PN!Cardinality(Children(n)) = 1
  PROVE  /\ \A u \in Handles \ {h} : node[u] # n
         /\ \A m \in Nodes : parent[m] = n => PN!HasReleasedParent(m)
<1>1. h \in Users(n)
  BY DEF Users
<1>2. PN!Cardinality(Users(n) \ {h}) = PN!Cardinality(Users(n)) - 1
      /\ PN!IsFiniteSet(Users(n) \ {h}) /\ PN!Cardinality(Users(n) \ {h}) \in Nat
  BY <1>1, CountsFinite, NodesAreCounted, FS_RemoveElement, FS_CardinalityType
<1>3. PN!Cardinality(Users(n) \ {h}) = 0 /\ PN!Cardinality(Children(n)) = 0
  BY <1>2, CountsFinite
<1>4. Users(n) \ {h} = {} /\ Children(n) = {}
  BY <1>2, <1>3, CountsFinite, NodesAreCounted, FS_EmptySet
<1>. QED  BY <1>4 DEF Users, Children

LEMMA OneChild ==
  ASSUME PN!PathNodeAssumption, NEW n, NEW m \in Nodes, parent[m] = n,
         ~PN!HasReleasedParent(m),
         PN!Cardinality(Users(n)) + PN!Cardinality(Children(n)) = 1
  PROVE  /\ \A u \in Handles : node[u] # n
         /\ \A k \in Nodes \ {m} : parent[k] = n => PN!HasReleasedParent(k)
<1>1. m \in Children(n)
  BY DEF Children
<1>2. PN!Cardinality(Children(n) \ {m}) = PN!Cardinality(Children(n)) - 1
      /\ PN!IsFiniteSet(Children(n) \ {m}) /\ PN!Cardinality(Children(n) \ {m}) \in Nat
  BY <1>1, CountsFinite, NodesAreCounted, FS_RemoveElement, FS_CardinalityType
<1>3. PN!Cardinality(Children(n) \ {m}) = 0 /\ PN!Cardinality(Users(n)) = 0
  BY <1>2, CountsFinite
<1>4. Children(n) \ {m} = {} /\ Users(n) = {}
  BY <1>2, <1>3, CountsFinite, NodesAreCounted, FS_EmptySet
<1>. QED  BY <1>4 DEF Users, Children

(* A step changes one set of references at most, by one element.           *)
LEMMA SameUsers ==
  ASSUME NEW n, \A h \in Handles : node'[h] = n <=> node[h] = n
  PROVE  Users(n)' = Users(n)
BY DEF Users

LEMMA SameChildren ==
  ASSUME NEW n,
         \A m \in Nodes : parent'[m] = n /\ ~PN!HasReleasedParent(m)'
                            <=> parent[m] = n /\ ~PN!HasReleasedParent(m)
  PROVE  Children(n)' = Children(n)
BY DEF Children

LEMMA GainUser ==
  ASSUME PN!PathNodeAssumption, NEW n, NEW h \in Handles,
         node[h] # n, node'[h] = n,
         \A u \in Handles \ {h} : node'[u] = n <=> node[u] = n
  PROVE  PN!Cardinality(Users(n)') = PN!Cardinality(Users(n)) + 1
<1>1. Users(n)' = Users(n) \cup {h} /\ h \notin Users(n)
  BY DEF Users
<1>. QED  BY <1>1, CountsFinite, NodesAreCounted, FS_AddElement

LEMMA LoseUser ==
  ASSUME PN!PathNodeAssumption, NEW n, NEW h \in Handles,
         node[h] = n, node'[h] # n,
         \A u \in Handles \ {h} : node'[u] = n <=> node[u] = n
  PROVE  PN!Cardinality(Users(n)') = PN!Cardinality(Users(n)) - 1
<1>1. Users(n)' = Users(n) \ {h} /\ h \in Users(n)
  BY DEF Users
<1>. QED  BY <1>1, CountsFinite, NodesAreCounted, FS_RemoveElement

LEMMA GainChild ==
  ASSUME PN!PathNodeAssumption, NEW n, NEW m \in Nodes,
         m \notin Children(n), m \in Children(n)',
         \A k \in Nodes \ {m} : k \in Children(n)' <=> k \in Children(n)
  PROVE  PN!Cardinality(Children(n)') = PN!Cardinality(Children(n)) + 1
<1>1. Children(n)' = Children(n) \cup {m}
  BY DEF Children
<1>. QED  BY <1>1, CountsFinite, NodesAreCounted, FS_AddElement

LEMMA LoseChild ==
  ASSUME PN!PathNodeAssumption, NEW n, NEW m \in Nodes,
         m \in Children(n), m \notin Children(n)',
         \A k \in Nodes \ {m} : k \in Children(n)' <=> k \in Children(n)
  PROVE  PN!Cardinality(Children(n)') = PN!Cardinality(Children(n)) - 1
<1>1. Children(n)' = Children(n) \ {m}
  BY DEF Children
<1>. QED  BY <1>1, CountsFinite, NodesAreCounted, FS_RemoveElement

-----------------------------------------------------------------------------
(***************************************************************************)
(* The lists of dying nodes.                                               *)
(***************************************************************************)
LEMMA HeadFacts ==
  ASSUME PN!IInv, NEW h \in Handles, pnPc[h] # "idle"
  PROVE  /\ dying[h] \in Seq(Nodes) /\ dying[h] # << >>
         /\ 1 \in DOMAIN dying[h] /\ Head(dying[h]) = dying[h][1]
         /\ Head(dying[h]) \in Nodes
         /\ PN!Allocated(Head(dying[h])) /\ PN!IsDying(Head(dying[h]))
         /\ parent[Head(dying[h])] # None
         /\ pnPc[h] # "free" => ~PN!HasReleasedParent(Head(dying[h]))
         /\ pnPc[h] = "free" => PN!HasReleasedParent(Head(dying[h]))
         /\ pnPc[h] = "remove" => ~PN!Removed(Head(dying[h]))
         /\ pnPc[h] # "remove" => PN!Removed(Head(dying[h]))
<1>1. dying[h] \in Seq(Nodes) /\ dying[h] # << >>
  BY DEF PN!IInv, PN!TypeOK, PN!ThreadsAreShaped
<1>2. 1 \in DOMAIN dying[h] /\ Head(dying[h]) = dying[h][1]
      /\ Head(dying[h]) \in Nodes
  BY <1>1
<1>3. PN!Allocated(Head(dying[h])) /\ PN!IsDying(Head(dying[h]))
  BY <1>2 DEF PN!IInv, PN!NothingDangles, PN!IsDying
<1>4. \A u \in Handles : \A i \in DOMAIN dying[u] :
        dying[u][i] = Head(dying[h]) => u = h /\ i = 1
  BY <1>2 DEF PN!IInv, PN!NothingDangles
<1>. QED  BY <1>1, <1>2, <1>3, <1>4
          DEF PN!IInv, PN!ParentsAreKnown, PN!HasReleasedParent, PN!Removed

LEMMA ReleasedIsDying ==
  ASSUME NEW n
  PROVE  /\ PN!HasReleasedParent(n) => PN!Removed(n)
         /\ PN!Removed(n) => PN!IsDying(n)
BY DEF PN!HasReleasedParent, PN!Removed, PN!IsDying

(* One thread's list changes.                                              *)
LEMMA OneListChanges ==
  ASSUME NEW h \in Handles, NEW t, NEW m, dying'[h] = t,
         \A u \in Handles \ {h} : dying'[u] = dying[u]
  PROVE  PN!IsDying(m)' <=>
           \/ \E u \in Handles \ {h} : \E i \in DOMAIN dying[u] : dying[u][i] = m
           \/ \E i \in DOMAIN t : t[i] = m
<1>1. PN!IsDying(m)' <=>
        \E u \in Handles : \E i \in DOMAIN dying'[u] : dying'[u][i] = m
  BY DEF PN!IsDying
<1>2. ASSUME NEW u \in Handles, NEW i \in DOMAIN dying'[u], dying'[u][i] = m
      PROVE  \/ \E v \in Handles \ {h} : \E k \in DOMAIN dying[v] : dying[v][k] = m
             \/ \E k \in DOMAIN t : t[k] = m
  BY <1>2
<1>3. ASSUME NEW u \in Handles \ {h}, NEW i \in DOMAIN dying[u], dying[u][i] = m
      PROVE  i \in DOMAIN dying'[u] /\ dying'[u][i] = m
  BY <1>3
<1>4. ASSUME NEW i \in DOMAIN t, t[i] = m
      PROVE  i \in DOMAIN dying'[h] /\ dying'[h][i] = m
  BY <1>4
<1>. QED  BY <1>1, <1>2, <1>3, <1>4

(* A thread begins to destroy a node.                                      *)
LEMMA StartDying ==
  ASSUME PN!IInv, NEW h \in Handles, NEW n \in Nodes, ~PN!IsDying(n),
         pnPc[h] = "idle",
         dying' = [dying EXCEPT ![h] = <<n>>],
         pnPc' = [pnPc EXCEPT ![h] = "remove"]
  PROVE  /\ dying' \in [Handles -> Seq(Nodes)] /\ pnPc' \in [Handles -> PN!Labels]
         /\ \A m : /\ PN!IsDying(m)' <=> PN!IsDying(m) \/ m = n
                   /\ PN!HasReleasedParent(m)' <=> PN!HasReleasedParent(m)
                   /\ PN!Removed(m)' <=> PN!Removed(m)
         /\ DestroyedOnce'
<1>1. dying[h] = << >> /\ DOMAIN dying[h] = {}
  BY DEF PN!IInv, PN!ThreadsAreShaped
<1>2. DOMAIN <<n>> = {1} /\ <<n>>[1] = n /\ <<n>> \in Seq(Nodes)
  OBVIOUS
<1>3. /\ \A u \in Handles \ {h} : dying'[u] = dying[u] /\ pnPc'[u] = pnPc[u]
      /\ dying'[h] = <<n>> /\ pnPc'[h] = "remove"
  BY DEF PN!IInv, PN!TypeOK
<1>4. dying' \in [Handles -> Seq(Nodes)] /\ pnPc' \in [Handles -> PN!Labels]
  BY <1>2 DEF PN!IInv, PN!TypeOK, PN!Labels
<1>5. ASSUME NEW m
      PROVE  /\ PN!IsDying(m)' <=> PN!IsDying(m) \/ m = n
             /\ PN!HasReleasedParent(m)' <=> PN!HasReleasedParent(m)
             /\ PN!Removed(m)' <=> PN!Removed(m)
  BY <1>1, <1>2, <1>3 DEF PN!IsDying, PN!HasReleasedParent, PN!Removed
<1>6. DestroyedOnce'
  BY <1>2, <1>3 DEF PN!IInv, PN!NothingDangles, DestroyedOnce, PN!IsDying
<1>. QED  BY <1>4, <1>5, <1>6

(* The label of a thread moves on, the lists stay.                         *)
LEMMA MoveOn ==
  ASSUME PN!IInv, NEW h \in Handles, NEW l \in {"token", "parent", "free"},
         pnPc[h] # "idle", pnPc[h] # "free", pnPc' = [pnPc EXCEPT ![h] = l],
         UNCHANGED dying
  PROVE  /\ pnPc' \in [Handles -> PN!Labels] /\ DestroyedOnce'
         /\ \A m : /\ PN!IsDying(m)' <=> PN!IsDying(m)
                   /\ PN!HasReleasedParent(m)' <=>
                        PN!HasReleasedParent(m) \/ (l = "free" /\ m = Head(dying[h]))
                   /\ PN!Removed(m)' <=> PN!Removed(m) \/ m = Head(dying[h])
<1>1. pnPc' \in [Handles -> PN!Labels] /\ DestroyedOnce'
  BY DEF PN!IInv, PN!TypeOK, PN!Labels, PN!NothingDangles, DestroyedOnce
<1>2. /\ \A u \in Handles \ {h} : pnPc'[u] = pnPc[u]
      /\ pnPc'[h] = l
  BY DEF PN!IInv, PN!TypeOK
<1>3. 1 \in DOMAIN dying[h] /\ Head(dying[h]) = dying[h][1]
      /\ \A i \in DOMAIN dying[h] : i > 1 \/ i = 1
  BY HeadFacts
<1>4. ASSUME NEW m
      PROVE  /\ PN!IsDying(m)' <=> PN!IsDying(m)
             /\ PN!HasReleasedParent(m)' <=>
                  PN!HasReleasedParent(m) \/ (l = "free" /\ m = Head(dying[h]))
             /\ PN!Removed(m)' <=> PN!Removed(m) \/ m = Head(dying[h])
  <2>1. PN!IsDying(m)' <=> PN!IsDying(m)
    BY DEF PN!IsDying
  <2>2. PN!HasReleasedParent(m)' <=>
          PN!HasReleasedParent(m) \/ (l = "free" /\ m = Head(dying[h]))
    BY <1>2, <1>3 DEF PN!HasReleasedParent
  <2>3. PN!Removed(m)' <=> PN!Removed(m) \/ m = Head(dying[h])
    BY <1>2, <1>3 DEF PN!Removed
  <2>. QED  BY <2>1, <2>2, <2>3
<1>. QED  BY <1>1, <1>4

(* The parent is to be destroyed first.                                    *)
LEMMA ParentGoesFirst ==
  ASSUME PN!IInv, NEW h \in Handles, NEW p \in Nodes, ~PN!IsDying(p),
         pnPc[h] = "parent",
         dying' = [dying EXCEPT ![h] = <<p>> \o @],
         pnPc' = [pnPc EXCEPT ![h] = "remove"]
  PROVE  /\ dying' \in [Handles -> Seq(Nodes)] /\ pnPc' \in [Handles -> PN!Labels]
         /\ dying'[h] # << >>
         /\ \A m : /\ PN!IsDying(m)' <=> PN!IsDying(m) \/ m = p
                   /\ PN!HasReleasedParent(m)' <=>
                        PN!HasReleasedParent(m) \/ m = Head(dying[h])
                   /\ PN!Removed(m)' <=> PN!Removed(m)
         /\ DestroyedOnce'
<1>. DEFINE s == dying[h]
            t == <<p>> \o dying[h]
<1>1. s \in Seq(Nodes) /\ 1 \in DOMAIN s /\ Head(s) = s[1]
  BY HeadFacts
<1>2. /\ t \in Seq(Nodes) /\ Len(t) = Len(s) + 1
      /\ t[1] = p
      /\ \A i \in DOMAIN s : i + 1 \in DOMAIN t /\ t[i + 1] = s[i]
      /\ \A i \in DOMAIN t : i = 1 \/ (i > 1 /\ i - 1 \in DOMAIN s /\ t[i] = s[i - 1])
      /\ 1 \in DOMAIN t /\ DOMAIN s \subseteq Nat /\ DOMAIN t \subseteq Nat
      /\ \A i \in DOMAIN s : i >= 1
  BY <1>1
<1>3. /\ \A u \in Handles \ {h} : dying'[u] = dying[u] /\ pnPc'[u] = pnPc[u]
      /\ dying'[h] = t /\ pnPc'[h] = "remove"
  BY DEF PN!IInv, PN!TypeOK
<1>4. /\ dying' \in [Handles -> Seq(Nodes)] /\ pnPc' \in [Handles -> PN!Labels]
      /\ dying'[h] # << >>
  <2>1. dying' \in [Handles -> Seq(Nodes)]
    BY <1>2 DEF PN!IInv, PN!TypeOK
  <2>2. pnPc' \in [Handles -> PN!Labels]
    BY DEF PN!IInv, PN!TypeOK, PN!Labels
  <2>. QED  BY <2>1, <2>2, <1>2, <1>3
<1>. HIDE DEF t
<1>5. ASSUME NEW m
      PROVE  /\ PN!IsDying(m)' <=> PN!IsDying(m) \/ m = p
             /\ PN!HasReleasedParent(m)' <=>
                  PN!HasReleasedParent(m) \/ m = Head(dying[h])
             /\ PN!Removed(m)' <=> PN!Removed(m)
  <2>1. (\E i \in DOMAIN t : t[i] = m) <=> m = p \/ \E i \in DOMAIN s : s[i] = m
    BY <1>2
  <2>2. (\E i \in DOMAIN t : t[i] = m /\ i > 1) <=> \E i \in DOMAIN s : s[i] = m
    <3>1. ASSUME NEW i \in DOMAIN s, s[i] = m
          PROVE  i + 1 \in DOMAIN t /\ t[i + 1] = m /\ i + 1 > 1
      BY <1>2, <3>1
    <3>2. ASSUME NEW i \in DOMAIN t, t[i] = m, i > 1
          PROVE  i - 1 \in DOMAIN s /\ s[i - 1] = m
      BY <1>2, <3>2
    <3>. QED  BY <3>1, <3>2
  <2>3. (\E i \in DOMAIN s : s[i] = m)
          <=> m = Head(s) \/ \E i \in DOMAIN s : s[i] = m /\ i > 1
    BY <1>1, <1>2
  <2>4. PN!IsDying(m)' <=> PN!IsDying(m) \/ m = p
    <3>1. PN!IsDying(m)' <=>
            \/ \E u \in Handles \ {h} : \E i \in DOMAIN dying[u] : dying[u][i] = m
            \/ \E i \in DOMAIN t : t[i] = m
      BY <1>3, OneListChanges
    <3>. QED  BY <3>1, <2>1 DEF PN!IsDying
  <2>5. PN!HasReleasedParent(m)' <=> PN!HasReleasedParent(m) \/ m = Head(dying[h])
    <3>1. PN!HasReleasedParent(m)' <=>
            \/ \E u \in Handles \ {h} : \E i \in DOMAIN dying[u] :
                 dying[u][i] = m /\ (i > 1 \/ pnPc[u] = "free")
            \/ \E i \in DOMAIN t : t[i] = m /\ i > 1
      BY <1>3 DEF PN!HasReleasedParent
    <3>. QED  BY <3>1, <2>2, <2>3 DEF PN!HasReleasedParent
  <2>6. PN!Removed(m)' <=> PN!Removed(m)
    <3>1. PN!Removed(m)' <=>
            \/ \E u \in Handles \ {h} : \E i \in DOMAIN dying[u] :
                 dying[u][i] = m /\ (i > 1 \/ pnPc[u] # "remove")
            \/ \E i \in DOMAIN t : t[i] = m /\ i > 1
      BY <1>3 DEF PN!Removed
    <3>. QED  BY <3>1, <2>2 DEF PN!Removed
  <2>. QED  BY <2>4, <2>5, <2>6
<1>6. DestroyedOnce'
  <2> SUFFICES ASSUME NEW u \in Handles, NEW v \in Handles,
                      NEW i \in DOMAIN dying'[u], NEW j \in DOMAIN dying'[v],
                      dying'[u][i] = dying'[v][j]
               PROVE  u = v /\ i = j
    BY DEF DestroyedOnce
  <2>1. \A w \in Handles : \A k \in DOMAIN dying[w] : dying[w][k] # p
    BY DEF PN!IsDying
  <2>. QED  BY <2>1, <1>2, <1>3 DEF PN!IInv, PN!NothingDangles
<1>. QED  BY <1>4, <1>5, <1>6

(* The head of a list is freed; those after it have released it.           *)
LEMMA HeadGoes ==
  ASSUME PN!IInv, NEW h \in Handles, pnPc[h] = "free",
         dying' = [dying EXCEPT ![h] = Tail(@)],
         pnPc' = [pnPc EXCEPT ![h] = IF Len(dying[h]) = 1 THEN "idle" ELSE "free"]
  PROVE  /\ dying' \in [Handles -> Seq(Nodes)] /\ pnPc' \in [Handles -> PN!Labels]
         /\ (dying'[h] = << >>) <=> (pnPc'[h] = "idle")
         /\ \A m : /\ PN!IsDying(m)' <=> PN!IsDying(m) /\ m # Head(dying[h])
                   /\ PN!HasReleasedParent(m)' <=>
                        PN!HasReleasedParent(m) /\ m # Head(dying[h])
                   /\ PN!Removed(m)' <=> PN!Removed(m) /\ m # Head(dying[h])
         /\ DestroyedOnce'
<1>. DEFINE s == dying[h]
            t == Tail(dying[h])
<1>1. s \in Seq(Nodes) /\ s # << >> /\ 1 \in DOMAIN s /\ Head(s) = s[1]
  BY HeadFacts
<1>2. /\ t \in Seq(Nodes) /\ Len(t) = Len(s) - 1 /\ Len(s) \in Nat
      /\ \A i \in DOMAIN t : i \in Nat /\ i >= 1 /\ i + 1 \in DOMAIN s /\ t[i] = s[i + 1]
      /\ \A i \in DOMAIN s : i = 1 \/ (i > 1 /\ i - 1 \in DOMAIN t /\ t[i - 1] = s[i])
      /\ (t = << >>) <=> (Len(s) = 1)
  <2>1. t \in Seq(Nodes) /\ Len(t) = Len(s) - 1 /\ Len(s) \in Nat
    BY <1>1, HeadTailProperties
  <2>2. \A i \in 1..Len(t) : t[i] = s[i + 1]
    BY <1>1, HeadTailProperties
  <2>3. DOMAIN t = 1..Len(t) /\ DOMAIN s = 1..Len(s)
    BY <1>1, <2>1
  <2>4. (t = << >>) <=> (Len(t) = 0)
    BY <2>1, EmptySeq
  <2>. QED  BY <2>1, <2>2, <2>3, <2>4
<1>3. /\ \A u \in Handles \ {h} : dying'[u] = dying[u] /\ pnPc'[u] = pnPc[u]
      /\ dying'[h] = t /\ pnPc'[h] = IF Len(s) = 1 THEN "idle" ELSE "free"
  BY DEF PN!IInv, PN!TypeOK
<1>4. /\ dying' \in [Handles -> Seq(Nodes)] /\ pnPc' \in [Handles -> PN!Labels]
      /\ (dying'[h] = << >>) <=> (pnPc'[h] = "idle")
  <2>1. dying' \in [Handles -> Seq(Nodes)]
    BY <1>2 DEF PN!IInv, PN!TypeOK
  <2>2. pnPc' \in [Handles -> PN!Labels]
    BY DEF PN!IInv, PN!TypeOK, PN!Labels
  <2>. QED  BY <2>1, <2>2, <1>2, <1>3
<1>5. \A u \in Handles : \A i \in DOMAIN dying[u] :
        dying[u][i] = Head(s) => u = h /\ i = 1
  BY <1>1 DEF PN!IInv, PN!NothingDangles
<1>6. \A i \in DOMAIN t : t[i] # Head(s)
  BY <1>2, <1>5
<1>7. \A i \in DOMAIN t : pnPc'[h] = "free"
  BY <1>2, <1>3
<1>. HIDE DEF t
<1>8. ASSUME NEW m
      PROVE  /\ PN!IsDying(m)' <=> PN!IsDying(m) /\ m # Head(s)
             /\ PN!HasReleasedParent(m)' <=> PN!HasReleasedParent(m) /\ m # Head(s)
             /\ PN!Removed(m)' <=> PN!Removed(m) /\ m # Head(s)
  <2>1. (\E i \in DOMAIN t : t[i] = m)
          <=> m # Head(s) /\ \E i \in DOMAIN s : s[i] = m
    <3>1. ASSUME NEW i \in DOMAIN s, s[i] = m, m # Head(s)
          PROVE  i - 1 \in DOMAIN t /\ t[i - 1] = m
      BY <1>1, <1>2, <3>1
    <3>2. ASSUME NEW i \in DOMAIN t, t[i] = m
          PROVE  i + 1 \in DOMAIN s /\ s[i + 1] = m /\ m # Head(s)
      BY <1>2, <1>6, <3>2
    <3>. QED  BY <3>1, <3>2
  <2>2. PN!IsDying(m)' <=> PN!IsDying(m) /\ m # Head(s)
    <3>1. PN!IsDying(m)' <=>
            \/ \E u \in Handles \ {h} : \E i \in DOMAIN dying[u] : dying[u][i] = m
            \/ \E i \in DOMAIN t : t[i] = m
      BY <1>3, OneListChanges
    <3>. QED  BY <3>1, <2>1, <1>5 DEF PN!IsDying
  <2>3. PN!HasReleasedParent(m)' <=> PN!HasReleasedParent(m) /\ m # Head(s)
    <3>1. PN!HasReleasedParent(m)' <=>
            \/ \E u \in Handles \ {h} : \E i \in DOMAIN dying[u] :
                 dying[u][i] = m /\ (i > 1 \/ pnPc[u] = "free")
            \/ \E i \in DOMAIN t : t[i] = m
      BY <1>3, <1>7 DEF PN!HasReleasedParent
    <3>. QED  BY <3>1, <2>1, <1>5 DEF PN!HasReleasedParent
  <2>4. PN!Removed(m)' <=> PN!Removed(m) /\ m # Head(s)
    <3>1. PN!Removed(m)' <=>
            \/ \E u \in Handles \ {h} : \E i \in DOMAIN dying[u] :
                 dying[u][i] = m /\ (i > 1 \/ pnPc[u] # "remove")
            \/ \E i \in DOMAIN t : t[i] = m
      BY <1>3, <1>7 DEF PN!Removed
    <3>. QED  BY <3>1, <2>1, <1>5 DEF PN!Removed
  <2>. QED  BY <2>2, <2>3, <2>4
<1>9. DestroyedOnce'
  <2> SUFFICES ASSUME NEW u \in Handles, NEW v \in Handles,
                      NEW i \in DOMAIN dying'[u], NEW j \in DOMAIN dying'[v],
                      dying'[u][i] = dying'[v][j]
               PROVE  u = v /\ i = j
    BY DEF DestroyedOnce
  <2>1. DestroyedOnce
    BY DEF PN!IInv, PN!NothingDangles, DestroyedOnce
  <2>2. CASE u = h /\ v = h
    BY <2>1, <2>2, <1>2, <1>3 DEF DestroyedOnce
  <2>3. CASE u = h /\ v # h
    BY <2>1, <2>3, <1>2, <1>3 DEF DestroyedOnce
  <2>4. CASE u # h /\ v = h
    BY <2>1, <2>4, <1>2, <1>3 DEF DestroyedOnce
  <2>5. CASE u # h /\ v # h
    BY <2>1, <2>5, <1>3 DEF DestroyedOnce
  <2>. QED  BY <2>2, <2>3, <2>4, <2>5
<1>. QED  BY <1>4, <1>8, <1>9

-----------------------------------------------------------------------------
LEMMA NodeInitInvariant == PN!PathNodeAssumption /\ PN!Init => PN!IInv
<1> SUFFICES ASSUME PN!PathNodeAssumption, PN!Init PROVE PN!IInv
  OBVIOUS
<1>1. PN!TypeOK /\ PN!ThreadsAreShaped /\ PN!ParentsAreKnown
  BY DEF PN!Init, PN!TypeOK, PN!Labels, PN!ThreadsAreShaped, PN!ParentsAreKnown,
         PN!Allocated
<1>2. PN!NothingDangles
  BY DEF PN!Init, PN!NothingDangles
<1>3. PN!CountIsExact /\ PN!LiveIsUsed /\ PN!DyingIsOut
  BY DEF PN!Init, PN!CountIsExact, PN!LiveIsUsed, PN!DyingIsOut, PN!Allocated
<1>. QED  BY <1>1, <1>2, <1>3 DEF PN!IInv

(* What the table has.                                                     *)
LEMMA EntryFacts ==
  ASSUME PN!PathNodeAssumption, PN!IInv, NEW k \in PN!Keys, pnTable[k] # None
  PROVE  /\ pnTable[k] \in Nodes
         /\ k = <<parent[pnTable[k]], pnName[pnTable[k]]>>
         /\ PN!Allocated(pnTable[k])
         /\ pnRefCount[pnTable[k]] # 0 => PN!Live(pnTable[k])
         /\ pnRefCount[pnTable[k]] = 0 => ~PN!Live(pnTable[k])
<1>1. pnTable[k] \in Nodes
  BY DEF PN!IInv, PN!TypeOK
<1>2. k = <<parent[pnTable[k]], pnName[pnTable[k]]>> /\ PN!Allocated(pnTable[k])
  BY DEF PN!IInv, PN!NothingDangles, PN!Keys, PN!Allocated, PN!PathNodeAssumption
<1>. QED  BY <1>1, <1>2, CountFacts DEF PN!IInv, PN!DyingIsOut, PN!Live

LEMMA KeyOf ==
  ASSUME PN!IInv, NEW n \in Nodes, PN!Allocated(n)
  PROVE  <<parent[n], pnName[n]>> \in PN!Keys
BY DEF PN!IInv, PN!TypeOK, PN!ParentsAreKnown, PN!Allocated, PN!Keys

LEMMA DyingNodes ==
  ASSUME PN!IInv, NEW n, PN!IsDying(n)
  PROVE  n \in Nodes /\ PN!Allocated(n)
BY DEF PN!IInv, PN!TypeOK, PN!NothingDangles, PN!IsDying

(* What the invariant says of nodes that are referenced, by their values.  *)
LEMMA ReferencedLive ==
  ASSUME PN!TypeOK',
         \A u \in Handles, q \in Nodes : node'[u] = q => PN!Live(q)',
         \A m \in Nodes, q \in Nodes \cup {None} :
           parent'[m] = q /\ PN!Allocated(m)' /\ ~PN!HasReleasedParent(m)' => PN!Live(q)'
  PROVE  PN!LiveIsUsed'
<1>1. \A u \in Handles : node'[u] # None => PN!Live(node[u])'
  BY DEF PN!TypeOK, PN!Live, PN!Allocated, PN!IsDying
<1>2. \A m \in Nodes : PN!Allocated(m)' /\ ~PN!HasReleasedParent(m)' /\ parent'[m] # Root
                        => PN!Live(parent[m])'
  BY DEF PN!TypeOK, PN!Live, PN!Allocated, PN!IsDying
<1>. QED  BY <1>1, <1>2 DEF PN!LiveIsUsed

LEMMA EntriesOfNodes ==
  ASSUME PN!TypeOK', DestroyedOnce',
         \A k \in PN!Keys, q \in Nodes : pnTable'[k] = q =>
           /\ parent'[q] = k[1] /\ pnName'[q] = k[2]
           /\ k[1] # Root => PN!Allocated(k[1])',
         \A m \in Nodes : PN!IsDying(m)' => PN!Allocated(m)'
  PROVE  PN!NothingDangles'
<1>1. \A k \in PN!Keys : pnTable'[k] # None =>
        /\ parent'[pnTable'[k]] = k[1] /\ pnName'[pnTable'[k]] = k[2]
        /\ k[1] = Root \/ PN!Allocated(k[1])'
  BY DEF PN!TypeOK
<1>2. \A u \in Handles : \A i \in DOMAIN dying'[u] :
        dying'[u][i] \in Nodes /\ PN!Allocated(dying[u][i])'
  BY DEF PN!TypeOK, PN!IsDying, PN!Allocated
<1>. QED  BY <1>1, <1>2 DEF PN!NothingDangles, DestroyedOnce

(* A handle that has none gets a reference of a node that lives.           *)
LEMMA AddRefStep ==
  ASSUME PN!PathNodeAssumption, PN!IInv, NEW h \in Handles, NEW n \in Nodes, PN!Live(n),
         PN!AddRef(h, n)
  PROVE  PN!IInv'
<1>. USE DEF PN!AddRef
<1>1. node[h] = None /\ pnPc[h] = "idle" /\ n # None
  BY DEF PN!Empty, PN!PathNodeAssumption
<1>2. PN!TypeOK' /\ PN!ThreadsAreShaped' /\ PN!ParentsAreKnown' /\ PN!NothingDangles'
  BY <1>1 DEF PN!IInv, PN!TypeOK, PN!ThreadsAreShaped, PN!ParentsAreKnown,
              PN!NothingDangles, PN!Allocated
<1>3. \A m : /\ PN!IsDying(m)' <=> PN!IsDying(m)
             /\ PN!HasReleasedParent(m)' <=> PN!HasReleasedParent(m)
             /\ PN!Removed(m)' <=> PN!Removed(m)
             /\ PN!Allocated(m)' <=> PN!Allocated(m)
             /\ PN!Live(m)' <=> PN!Live(m)
  BY DEF PN!IsDying, PN!HasReleasedParent, PN!Removed, PN!Allocated, PN!Live
<1>4. PN!LiveIsUsed'
  BY <1>1, <1>3 DEF PN!IInv, PN!TypeOK, PN!LiveIsUsed
<1>5. PN!DyingIsOut'
  BY <1>3 DEF PN!IInv, PN!TypeOK, PN!DyingIsOut, PN!Live
<1>6. PN!CountIsExact'
  <2> SUFFICES ASSUME NEW m \in Nodes, PN!Live(m)
               PROVE  /\ pnTable[<<parent[m], pnName[m]>>] = m
                      /\ pnRefCount'[m] > 0
                      /\ pnRefCount'[m] = PN!Cardinality(Users(m)')
                                          + PN!Cardinality(Children(m)')
    BY <1>3 DEF PN!CountIsExact, PN!Live, Users, Children
  <2>1. Children(m)' = Children(m)
    BY <1>3 DEF Children
  <2>2. CASE m = n
    <3>1. PN!Cardinality(Users(m)') = PN!Cardinality(Users(m)) + 1
      BY <2>2, <1>1, GainUser DEF PN!IInv, PN!TypeOK
    <3>. QED  BY <2>1, <2>2, <3>1, CountFacts, CountsFinite DEF PN!IInv, PN!TypeOK
  <2>3. CASE m # n
    <3>1. Users(m)' = Users(m)
      BY <2>3, <1>1, SameUsers DEF PN!IInv, PN!TypeOK, PN!PathNodeAssumption
    <3>. QED  BY <2>1, <2>3, <3>1, CountFacts DEF PN!IInv, PN!TypeOK
  <2>. QED  BY <2>2, <2>3
<1>. QED  BY <1>2, <1>4, <1>5, <1>6 DEF PN!IInv

(* A node is made for a key that has none, or one that is dying.           *)
LEMMA NewStep ==
  ASSUME PN!PathNodeAssumption, PN!IInv, NEW h \in Handles, NEW p \in PN!Parents,
         NEW x \in Names, NEW counted \in [Nodes -> Nat], PN!Empty(h),
         pnTable[<<p, x>>] # None => ~PN!Live(pnTable[<<p, x>>]),
         \A m \in Nodes : m # pnTable[<<p, x>>] => counted[m] = pnRefCount[m],
         PN!New(h, p, x, counted)
  PROVE  PN!IInv'
<1>1. PICK n \in Nodes :
        /\ ~PN!Allocated(n)
        /\ parent' = [parent EXCEPT ![n] = p]
        /\ pnName' = [pnName EXCEPT ![n] = x]
        /\ pnRefCount' = [m \in Nodes |->
             IF m = n THEN 1 ELSE IF m = p THEN counted[m] + 1 ELSE counted[m]]
        /\ hasToken' = [hasToken EXCEPT ![n] = FALSE]
        /\ pnTable' = [pnTable EXCEPT ![<<p, x>>] = n]
        /\ node' = [node EXCEPT ![h] = n]
        /\ UNCHANGED <<tokens, pnPc, dying>>
  BY DEF PN!New
<1>2. /\ node[h] = None /\ pnPc[h] = "idle"
      /\ n # None /\ n # Root /\ x # None
      /\ parent[n] = None /\ pnName[n] = None
      /\ ~PN!IsDying(n) /\ ~PN!Removed(n) /\ ~PN!HasReleasedParent(n)
  BY <1>1, DyingNodes, ReleasedIsDying
  DEF PN!IInv, PN!ParentsAreKnown, PN!Allocated, PN!Empty, PN!PathNodeAssumption
<1>3. /\ p = Root \/ (p \in Nodes /\ PN!Live(p))
      /\ p # n /\ p # None /\ <<p, x>> \in PN!Keys
  BY <1>1, <1>2 DEF PN!IInv, PN!TypeOK, PN!LiveIsUsed, PN!Parents, PN!Held, PN!Live,
                    PN!Keys, PN!PathNodeAssumption
<1>4. PN!TypeOK'
  BY <1>1, <1>3 DEF PN!IInv, PN!TypeOK
<1>5. PN!ThreadsAreShaped' /\ PN!ParentsAreKnown'
  BY <1>1, <1>2, <1>3 DEF PN!IInv, PN!TypeOK, PN!ThreadsAreShaped, PN!ParentsAreKnown,
                          PN!Allocated
<1>6. \A m : /\ PN!IsDying(m)' <=> PN!IsDying(m)
             /\ PN!HasReleasedParent(m)' <=> PN!HasReleasedParent(m)
             /\ PN!Removed(m)' <=> PN!Removed(m)
  BY <1>1 DEF PN!IsDying, PN!HasReleasedParent, PN!Removed
<1>7. \A m \in Nodes : /\ PN!Allocated(m)' <=> PN!Allocated(m) \/ m = n
                       /\ PN!Live(m)' <=> PN!Live(m) \/ m = n
                       /\ m # n => parent'[m] = parent[m] /\ pnName'[m] = pnName[m]
  BY <1>1, <1>2, <1>6 DEF PN!IInv, PN!TypeOK, PN!Allocated, PN!Live
<1>8. parent'[n] = p /\ pnName'[n] = x
  BY <1>1 DEF PN!IInv, PN!TypeOK
<1>9. PN!NothingDangles'
  <2>1. ASSUME NEW k \in PN!Keys, NEW q \in Nodes, pnTable'[k] = q
        PROVE  /\ parent'[q] = k[1] /\ pnName'[q] = k[2]
               /\ k[1] # Root => PN!Allocated(k[1])'
    <3>1. CASE k = <<p, x>>
      <4>1. q = n
        BY <2>1, <3>1, <1>1, <1>3 DEF PN!IInv, PN!TypeOK
      <4>. QED  BY <3>1, <4>1, <1>3, <1>7, <1>8 DEF PN!Live
    <3>2. CASE k # <<p, x>>
      <4>1. pnTable[k] = q
        BY <2>1, <3>2, <1>1, <1>3 DEF PN!IInv, PN!TypeOK
      <4>2. q # n /\ parent[q] = k[1] /\ pnName[q] = k[2]
            /\ (k[1] = Root \/ PN!Allocated(k[1])) /\ pnTable[k] # None
        BY <4>1, <1>1, EntryFacts DEF PN!IInv, PN!NothingDangles, PN!PathNodeAssumption
      <4>3. k[1] \in Nodes \cup {Root}
        BY DEF PN!Keys
      <4>. QED  BY <4>2, <4>3, <1>7
    <3>. QED  BY <3>1, <3>2
  <2>2. DestroyedOnce'
    BY <1>1 DEF PN!IInv, PN!NothingDangles, DestroyedOnce
  <2>3. \A m \in Nodes : PN!IsDying(m)' => PN!Allocated(m)'
    BY <1>6, <1>7, DyingNodes
  <2>. QED  BY <2>1, <2>2, <2>3, <1>4, EntriesOfNodes
<1>10. PN!LiveIsUsed'
  <2>1. \A u \in Handles, q \in Nodes : node'[u] = q => PN!Live(q)'
    BY <1>1, <1>7 DEF PN!IInv, PN!TypeOK, PN!LiveIsUsed, PN!PathNodeAssumption
  <2>2. ASSUME NEW m \in Nodes, NEW q \in Nodes \cup {None}, parent'[m] = q,
               PN!Allocated(m)', ~PN!HasReleasedParent(m)'
        PROVE  PN!Live(q)'
    <3>1. CASE m = n
      BY <2>2, <3>1, <1>3, <1>7, <1>8 DEF PN!PathNodeAssumption
    <3>2. CASE m # n
      <4>1. PN!Allocated(m) /\ ~PN!HasReleasedParent(m) /\ q = parent[m]
        BY <2>2, <3>2, <1>6, <1>7
      <4>2. PN!Live(q) /\ q \in Nodes
        BY <4>1 DEF PN!IInv, PN!TypeOK, PN!LiveIsUsed, PN!ParentsAreKnown,
                    PN!PathNodeAssumption
      <4>. QED  BY <4>2, <1>7
    <3>. QED  BY <3>1, <3>2
  <2>. QED  BY <2>1, <2>2, <1>4, ReferencedLive
<1>11. \A m \in Nodes : PN!Allocated(m) /\ m # pnTable[<<p, x>>] /\ m # n =>
         /\ pnTable'[<<parent'[m], pnName'[m]>>] = pnTable[<<parent[m], pnName[m]>>]
              \/ pnTable'[<<parent'[m], pnName'[m]>>] = n
         /\ pnTable[<<parent[m], pnName[m]>>] = m => pnTable'[<<parent'[m], pnName'[m]>>] = m
  BY <1>1, <1>3, <1>7, KeyOf DEF PN!IInv, PN!TypeOK
<1>12. ASSUME NEW m \in Nodes, PN!Live(m)
       PROVE  PN!Allocated(m) /\ m # pnTable[<<p, x>>] /\ m # n /\ counted[m] = pnRefCount[m]
  BY <1>12, <1>1, <1>3 DEF PN!Live, PN!PathNodeAssumption
<1>13. PN!DyingIsOut'
  <2> SUFFICES ASSUME NEW m \in Nodes, PN!Allocated(m)',
                      pnTable'[<<parent'[m], pnName'[m]>>] = m
               PROVE  ~PN!Removed(m) /\ (PN!IsDying(m) => pnRefCount'[m] = 0)
    BY <1>6 DEF PN!DyingIsOut
  <2>1. CASE m = n
    BY <2>1, <1>2
  <2>2. CASE m # n
    <3>1. PN!Allocated(m) /\ <<parent[m], pnName[m]>> \in PN!Keys
      BY <2>2, <1>7, KeyOf
    <3>2. <<parent[m], pnName[m]>> # <<p, x>> /\ pnTable[<<parent[m], pnName[m]>>] = m
      BY <2>2, <3>1, <1>1, <1>3, <1>7 DEF PN!IInv, PN!TypeOK
    <3>3. m # pnTable[<<p, x>>]
      BY <3>2, <1>3, EntryFacts DEF PN!PathNodeAssumption
    <3>4. PN!IsDying(m) => m # p
      BY <1>3 DEF PN!Live, PN!PathNodeAssumption
    <3>. QED  BY <2>2, <3>1, <3>2, <3>3, <3>4, <1>1 DEF PN!IInv, PN!DyingIsOut
  <2>. QED  BY <2>1, <2>2
<1>14. PN!CountIsExact'
  <2> SUFFICES ASSUME NEW m \in Nodes, PN!Live(m)'
               PROVE  /\ pnTable'[<<parent'[m], pnName'[m]>>] = m
                      /\ pnRefCount'[m] > 0
                      /\ pnRefCount'[m] = PN!Cardinality(Users(m)')
                                          + PN!Cardinality(Children(m)')
    BY DEF PN!CountIsExact, PN!Live, Users, Children
  <2>1. CASE m = n
    <3>1. \A u \in Handles : node[u] # n
      BY <1>1 DEF PN!IInv, PN!LiveIsUsed, PN!Live, PN!TypeOK, PN!Allocated,
                  PN!PathNodeAssumption
    <3>2. \A k \in Nodes : parent[k] = n => PN!HasReleasedParent(k)
      BY <1>1, <1>2 DEF PN!IInv, PN!LiveIsUsed, PN!ParentsAreKnown, PN!Live
    <3>3. PN!Cardinality(Users(n)') = PN!Cardinality(Users(n)) + 1
      BY <3>1, <1>1, GainUser DEF PN!IInv, PN!TypeOK
    <3>4. Children(n)' = Children(n)
      BY <1>2, <1>3, <1>6, <1>7, <1>8, SameChildren
    <3>5. PN!Cardinality(Users(n)) = 0 /\ PN!Cardinality(Children(n)) = 0
      BY <3>1, <3>2, NoneCounted
    <3>6. pnTable'[<<p, x>>] = n /\ pnRefCount'[n] = 1
      BY <1>1, <1>3 DEF PN!IInv, PN!TypeOK
    <3>. QED  BY <2>1, <3>3, <3>4, <3>5, <3>6, <1>8
  <2>2. CASE m # n
    <3>1. PN!Live(m) /\ counted[m] = pnRefCount[m]
      BY <2>2, <1>7, <1>12
    <3>2. pnTable'[<<parent'[m], pnName'[m]>>] = m
      BY <2>2, <3>1, <1>11, <1>12, CountFacts DEF PN!IInv
    <3>3. Users(m)' = Users(m)
      BY <2>2, <1>1, <1>2, SameUsers DEF PN!IInv, PN!TypeOK, PN!PathNodeAssumption
    <3>4. CASE m = p
      <4>1. PN!Cardinality(Children(m)') = PN!Cardinality(Children(m)) + 1
        <5>1. n \notin Children(m) /\ n \in Children(m)'
          BY <3>4, <1>2, <1>3, <1>6, <1>8 DEF Children
        <5>2. \A k \in Nodes \ {n} : k \in Children(m)' <=> k \in Children(m)
          BY <1>6, <1>7 DEF Children
        <5>. QED  BY <5>1, <5>2, GainChild
      <4>2. pnRefCount'[m] = pnRefCount[m] + 1
        BY <2>2, <3>1, <3>4, <1>1
      <4>3. /\ pnRefCount[m] = PN!Cardinality(Users(m)) + PN!Cardinality(Children(m))
            /\ pnRefCount[m] > 0
            /\ PN!Cardinality(Users(m)) \in Nat /\ PN!Cardinality(Children(m)) \in Nat
        BY <3>1, CountFacts, CountsFinite DEF PN!IInv
      <4>4. PN!Cardinality(Users(m)') = PN!Cardinality(Users(m))
        BY <3>3
      <4>. QED  BY <3>2, <4>1, <4>2, <4>3, <4>4
    <3>5. CASE m # p
      <4>1. Children(m)' = Children(m)
        BY <2>2, <3>5, <1>2, <1>6, <1>7, <1>8, SameChildren DEF PN!PathNodeAssumption
      <4>2. pnRefCount'[m] = pnRefCount[m]
        BY <2>2, <3>1, <3>5, <1>1
      <4>. QED  BY <3>1, <3>2, <3>3, <4>1, <4>2, CountFacts DEF PN!IInv
    <3>. QED  BY <3>4, <3>5
  <2>. QED  BY <2>1, <2>2
<1>. QED  BY <1>4, <1>5, <1>9, <1>10, <1>13, <1>14 DEF PN!IInv

LEMMA FindOrCreateStep ==
  ASSUME PN!PathNodeAssumption, PN!IInv, NEW h \in Handles, NEW p \in PN!Parents,
         NEW x \in Names, PN!FindOrCreate(h, p, x)
  PROVE  PN!IInv'
<1>1. <<p, x>> \in PN!Keys
  BY DEF PN!IInv, PN!TypeOK, PN!Parents, PN!Held, PN!Keys
<1>2. CASE PN!FindLive(h, p, x)
  <2>1. PN!AddRef(h, pnTable[<<p, x>>])
    BY <1>2 DEF PN!FindLive, PN!AddRef
  <2>2. pnTable[<<p, x>>] \in Nodes /\ PN!Live(pnTable[<<p, x>>])
    BY <1>1, <1>2, EntryFacts DEF PN!FindLive
  <2>. QED  BY <2>1, <2>2, AddRefStep
<1>3. CASE PN!ReplaceDying(h, p, x)
  <2>. DEFINE counted == [pnRefCount EXCEPT ![pnTable[<<p, x>>]] = @ + 1]
  <2>1. PN!Empty(h) /\ PN!New(h, p, x, counted) /\ ~PN!Live(pnTable[<<p, x>>])
    BY <1>1, <1>3, EntryFacts DEF PN!ReplaceDying
  <2>2. counted \in [Nodes -> Nat]
        /\ \A m \in Nodes : m # pnTable[<<p, x>>] => counted[m] = pnRefCount[m]
    <3>1. pnTable[<<p, x>>] \in Nodes
      BY <1>1, <1>3, EntryFacts DEF PN!ReplaceDying
    <3>. QED  BY <3>1 DEF PN!IInv, PN!TypeOK
  <2>. HIDE DEF counted
  <2>. QED  BY <2>1, <2>2, NewStep
<1>4. CASE PN!Create(h, p, x)
  <2>1. PN!Empty(h) /\ PN!New(h, p, x, pnRefCount) /\ pnTable[<<p, x>>] = None
    BY <1>4 DEF PN!Create
  <2>2. pnRefCount \in [Nodes -> Nat]
    BY DEF PN!IInv, PN!TypeOK
  <2>. QED  BY <2>1, <2>2, NewStep
<1>. QED  BY <1>2, <1>3, <1>4 DEF PN!FindOrCreate

LEMMA NodeCopyStep ==
  ASSUME PN!PathNodeAssumption, PN!IInv, NEW h \in Handles, NEW u \in Handles,
         PN!CopyHandle(h, u) \/ PN!GetParent(h, u)
  PROVE  PN!IInv'
<1>1. node[u] \in Nodes /\ PN!Live(node[u])
  BY DEF PN!CopyHandle, PN!GetParent, PN!Held, PN!IInv, PN!TypeOK, PN!LiveIsUsed
<1>2. CASE PN!CopyHandle(h, u)
  BY <1>1, <1>2, AddRefStep DEF PN!CopyHandle
<1>3. CASE PN!GetParent(h, u)
  <2>1. PN!Allocated(node[u]) /\ ~PN!HasReleasedParent(node[u]) /\ parent[node[u]] # Root
    BY <1>1, <1>3, ReleasedIsDying DEF PN!Live, PN!GetParent
  <2>2. parent[node[u]] \in Nodes /\ PN!Live(parent[node[u]])
    BY <1>1, <2>1 DEF PN!IInv, PN!TypeOK, PN!LiveIsUsed, PN!ParentsAreKnown
  <2>. QED  BY <1>3, <2>2, AddRefStep DEF PN!GetParent
<1>. QED  BY <1>2, <1>3

(* A token of a node's path changes nothing the invariant is about.        *)
LEMMA GetPathTokenStep ==
  ASSUME PN!IInv, NEW h \in Handles, PN!GetPathToken(h)
  PROVE  PN!IInv'
<1>1. node[h] \in Nodes
  BY DEF PN!GetPathToken, PN!Held, PN!IInv, PN!TypeOK
<1>2. PN!TypeOK'
  BY <1>1 DEF PN!GetPathToken, PN!IInv, PN!TypeOK
<1>3. PN!ThreadsAreShaped' /\ PN!ParentsAreKnown' /\ PN!NothingDangles' /\ PN!CountIsExact'
      /\ PN!LiveIsUsed' /\ PN!DyingIsOut'
  BY DEF PN!GetPathToken, PN!IInv, PN!ThreadsAreShaped, PN!ParentsAreKnown,
         PN!NothingDangles,
         PN!CountIsExact, PN!LiveIsUsed, PN!DyingIsOut, PN!Live, PN!Allocated,
         PN!IsDying,
         PN!HasReleasedParent, PN!Removed
<1>. QED  BY <1>2, <1>3 DEF PN!IInv

LEMMA NodeReleaseStep ==
  ASSUME PN!PathNodeAssumption, PN!IInv, NEW h \in Handles, PN!Release(h)
  PROVE  PN!IInv'
<1>1. PICK n \in Nodes :
      /\ n = node[h] /\ PN!Live(n) /\ pnPc[h] = "idle" /\ n # None
      /\ pnRefCount' = [pnRefCount EXCEPT ![n] = @ - 1]
      /\ node' = [node EXCEPT ![h] = None]
      /\ UNCHANGED <<pnTable, parent, pnName, hasToken, tokens>>
  BY DEF PN!Release, PN!Held, PN!IInv, PN!TypeOK, PN!LiveIsUsed
<1>2. /\ pnTable[<<parent[n], pnName[n]>>] = n
      /\ pnRefCount[n] > 0
      /\ pnRefCount[n] = PN!Cardinality(Users(n)) + PN!Cardinality(Children(n))
      /\ pnRefCount' \in [Nodes -> Nat] /\ pnRefCount'[n] = pnRefCount[n] - 1
  BY <1>1, CountFacts DEF PN!IInv, PN!TypeOK
<1>3. \A m \in Nodes : m # n => pnRefCount'[m] = pnRefCount[m]
  BY <1>1 DEF PN!IInv, PN!TypeOK
<1>4. node'[h] = None /\ \A u \in Handles \ {h} : node'[u] = node[u]
  BY <1>1 DEF PN!IInv, PN!TypeOK
<1>5. \A m : m # None /\ m # n => Users(m)' = Users(m)
  BY <1>1, <1>4 DEF Users
<1>6. CASE pnRefCount[n] = 1
  <2>1. /\ dying' = [dying EXCEPT ![h] = <<n>>]
        /\ pnPc' = [pnPc EXCEPT ![h] = "remove"]
    BY <1>1, <1>6 DEF PN!Release
  <2>2. /\ \A u \in Handles \ {h} : node[u] # n
        /\ \A m \in Nodes : parent[m] = n => PN!HasReleasedParent(m)
    BY <1>1, <1>2, <1>6, OneUser
  <2>3. /\ dying' \in [Handles -> Seq(Nodes)] /\ pnPc' \in [Handles -> PN!Labels]
        /\ \A m : /\ PN!IsDying(m)' <=> PN!IsDying(m) \/ m = n
                  /\ PN!HasReleasedParent(m)' <=> PN!HasReleasedParent(m)
                  /\ PN!Removed(m)' <=> PN!Removed(m)
        /\ DestroyedOnce'
    BY <1>1, <2>1, StartDying DEF PN!Live
  <2>4. \A m : /\ PN!Allocated(m)' <=> PN!Allocated(m)
               /\ PN!Live(m)' <=> PN!Live(m) /\ m # n
    BY <1>1, <2>3 DEF PN!Allocated, PN!Live
  <2>5. PN!TypeOK'
    BY <1>1, <1>2, <2>3 DEF PN!IInv, PN!TypeOK
  <2>6. PN!ThreadsAreShaped' /\ PN!ParentsAreKnown'
    BY <1>1, <1>4, <2>1, <2>4 DEF PN!IInv, PN!TypeOK, PN!ThreadsAreShaped,
                                  PN!ParentsAreKnown
  <2>7. PN!NothingDangles'
    <3>1. \A k \in PN!Keys, q \in Nodes : pnTable'[k] = q =>
            /\ parent'[q] = k[1] /\ pnName'[q] = k[2]
            /\ k[1] # Root => PN!Allocated(k[1])'
      BY <1>1, <2>4 DEF PN!IInv, PN!NothingDangles, PN!PathNodeAssumption
    <3>2. \A m \in Nodes : PN!IsDying(m)' => PN!Allocated(m)'
      BY <1>1, <2>3, <2>4, DyingNodes DEF PN!Live
    <3>. QED  BY <3>1, <3>2, <2>3, <2>5, EntriesOfNodes
  <2>8. PN!LiveIsUsed'
    <3>1. \A u \in Handles, q \in Nodes : node'[u] = q => PN!Live(q)'
      BY <1>4, <2>2, <2>4 DEF PN!IInv, PN!LiveIsUsed, PN!PathNodeAssumption
    <3>2. \A m \in Nodes, q \in Nodes \cup {None} :
            parent'[m] = q /\ PN!Allocated(m)' /\ ~PN!HasReleasedParent(m)' => PN!Live(q)'
      BY <1>1, <2>2, <2>3, <2>4 DEF PN!IInv, PN!LiveIsUsed, PN!PathNodeAssumption
    <3>. QED  BY <3>1, <3>2, <2>5, ReferencedLive
  <2>9. PN!DyingIsOut'
    <3> SUFFICES ASSUME NEW m \in Nodes, PN!Allocated(m),
                        pnTable[<<parent[m], pnName[m]>>] = m
                 PROVE  ~PN!Removed(m) /\ (PN!IsDying(m) \/ m = n => pnRefCount'[m] = 0)
      BY <1>1, <2>3, <2>4 DEF PN!DyingIsOut
    <3>1. ~PN!Removed(m) /\ (PN!IsDying(m) => pnRefCount[m] = 0)
      BY DEF PN!IInv, PN!DyingIsOut
    <3>2. CASE m = n
      BY <1>2, <1>6, <3>1, <3>2
    <3>3. CASE m # n
      BY <1>3, <3>1, <3>3
    <3>. QED  BY <3>2, <3>3
  <2>10. PN!CountIsExact'
    <3> SUFFICES ASSUME NEW m \in Nodes, PN!Live(m), m # n
                 PROVE  /\ pnTable'[<<parent'[m], pnName'[m]>>] = m
                        /\ pnRefCount'[m] > 0
                        /\ pnRefCount'[m] = PN!Cardinality(Users(m)')
                                            + PN!Cardinality(Children(m)')
      BY <2>4 DEF PN!CountIsExact, PN!Live, Users, Children
    <3>1. Users(m)' = Users(m)
      BY <1>5 DEF PN!PathNodeAssumption
    <3>2. Children(m)' = Children(m)
      BY <1>1, <2>3 DEF Children
    <3>. QED  BY <1>1, <1>3, <3>1, <3>2, CountFacts DEF PN!IInv
  <2>. QED  BY <2>5, <2>6, <2>7, <2>8, <2>9, <2>10 DEF PN!IInv
<1>7. CASE pnRefCount[n] # 1
  <2>1. UNCHANGED <<dying, pnPc>>
    BY <1>1, <1>7 DEF PN!Release
  <2>2. \A m : /\ PN!IsDying(m)' <=> PN!IsDying(m)
               /\ PN!HasReleasedParent(m)' <=> PN!HasReleasedParent(m)
               /\ PN!Removed(m)' <=> PN!Removed(m)
               /\ PN!Allocated(m)' <=> PN!Allocated(m)
               /\ PN!Live(m)' <=> PN!Live(m)
    BY <1>1, <2>1 DEF PN!IsDying, PN!HasReleasedParent, PN!Removed, PN!Allocated,
                      PN!Live
  <2>3. PN!TypeOK'
    BY <1>1, <1>2, <2>1 DEF PN!IInv, PN!TypeOK
  <2>4. PN!ThreadsAreShaped' /\ PN!ParentsAreKnown' /\ PN!NothingDangles'
    BY <1>1, <1>4, <2>1
    DEF PN!IInv, PN!ThreadsAreShaped, PN!ParentsAreKnown, PN!NothingDangles,
        PN!Allocated
  <2>5. PN!LiveIsUsed'
    <3>1. \A u \in Handles, q \in Nodes : node'[u] = q => PN!Live(q)'
      BY <1>4, <2>2 DEF PN!IInv, PN!LiveIsUsed, PN!PathNodeAssumption
    <3>2. \A m \in Nodes, q \in Nodes \cup {None} :
            parent'[m] = q /\ PN!Allocated(m)' /\ ~PN!HasReleasedParent(m)' => PN!Live(q)'
      BY <1>1, <2>2 DEF PN!IInv, PN!LiveIsUsed, PN!ParentsAreKnown,
                        PN!PathNodeAssumption
    <3>. QED  BY <3>1, <3>2, <2>3, ReferencedLive
  <2>6. PN!DyingIsOut'
    BY <1>1, <1>3, <2>2 DEF PN!IInv, PN!DyingIsOut, PN!Live
  <2>7. PN!CountIsExact'
    <3> SUFFICES ASSUME NEW m \in Nodes, PN!Live(m)
                 PROVE  /\ pnTable'[<<parent'[m], pnName'[m]>>] = m
                        /\ pnRefCount'[m] > 0
                        /\ pnRefCount'[m] = PN!Cardinality(Users(m)')
                                            + PN!Cardinality(Children(m)')
      BY <2>2 DEF PN!CountIsExact, PN!Live, Users, Children
    <3>1. Children(m)' = Children(m)
      BY <1>1, <2>2 DEF Children
    <3>2. CASE m = n
      <4>1. PN!Cardinality(Users(n)') = PN!Cardinality(Users(n)) - 1
        BY <1>1, <1>4, LoseUser
      <4>2. pnRefCount[n] \in Nat
        BY <1>1 DEF PN!IInv, PN!TypeOK
      <4>3. PN!Cardinality(Users(n)) \in Nat /\ PN!Cardinality(Children(n)) \in Nat
        BY CountsFinite
      <4>4. PN!Cardinality(Children(m)') = PN!Cardinality(Children(n))
        BY <3>1, <3>2
      <4>5. pnTable'[<<parent'[m], pnName'[m]>>] = m
        BY <1>1, <1>2, <3>2
      <4>. QED  BY <1>2, <1>7, <3>2, <4>1, <4>2, <4>3, <4>4, <4>5
    <3>3. CASE m # n
      <4>1. Users(m)' = Users(m)
        BY <1>5, <3>3 DEF PN!PathNodeAssumption
      <4>. QED  BY <1>1, <1>3, <3>1, <3>3, <4>1, CountFacts DEF PN!IInv
    <3>. QED  BY <3>2, <3>3
  <2>. QED  BY <2>3, <2>4, <2>5, <2>6, <2>7 DEF PN!IInv
<1>. QED  BY <1>6, <1>7

-----------------------------------------------------------------------------
LEMMA RemoveStep ==
  ASSUME PN!PathNodeAssumption, PN!IInv, NEW h \in Handles, PN!Remove(h)
  PROVE  PN!IInv'
<1>. DEFINE k == <<parent[Head(dying[h])], pnName[Head(dying[h])]>>
<1>1. PICK n \in Nodes :
        /\ n = Head(dying[h]) /\ pnPc[h] = "remove"
        /\ pnTable' = IF pnTable[k] = n THEN [pnTable EXCEPT ![k] = None] ELSE pnTable
        /\ pnPc' = [pnPc EXCEPT ![h] = "token"]
        /\ UNCHANGED <<parent, pnName, pnRefCount, hasToken, tokens, node, dying>>
        /\ PN!Allocated(n) /\ PN!IsDying(n)
  BY HeadFacts DEF PN!Remove
<1>2. k = <<parent[n], pnName[n]>> /\ k \in PN!Keys
  BY <1>1, KeyOf
<1>. HIDE DEF k
<1>3. /\ pnPc' \in [Handles -> PN!Labels] /\ DestroyedOnce'
      /\ \A m : /\ PN!IsDying(m)' <=> PN!IsDying(m)
                /\ PN!HasReleasedParent(m)' <=> PN!HasReleasedParent(m)
                /\ PN!Removed(m)' <=> PN!Removed(m) \/ m = n
  BY <1>1, MoveOn
<1>4. \A m : /\ PN!Allocated(m)' <=> PN!Allocated(m)
             /\ PN!Live(m)' <=> PN!Live(m)
  BY <1>1, <1>3 DEF PN!Allocated, PN!Live
<1>5. /\ \A l \in PN!Keys : pnTable'[l] = pnTable[l] \/ pnTable'[l] = None
      /\ \A m \in Nodes : m # n /\ PN!Allocated(m)
           /\ pnTable[<<parent[m], pnName[m]>>] = m
           => pnTable'[<<parent[m], pnName[m]>>] = m
      /\ pnTable'[k] # n
  BY <1>1, <1>2, KeyOf DEF PN!IInv, PN!TypeOK, PN!PathNodeAssumption
<1>6. PN!TypeOK'
  BY <1>1, <1>2, <1>3 DEF PN!IInv, PN!TypeOK
<1>7. PN!ThreadsAreShaped' /\ PN!ParentsAreKnown'
  BY <1>1, <1>4 DEF PN!IInv, PN!TypeOK, PN!ThreadsAreShaped, PN!ParentsAreKnown
<1>8. PN!NothingDangles'
  <2>1. \A l \in PN!Keys, q \in Nodes : pnTable'[l] = q =>
          /\ parent'[q] = l[1] /\ pnName'[q] = l[2]
          /\ l[1] # Root => PN!Allocated(l[1])'
    BY <1>1, <1>4, <1>5 DEF PN!IInv, PN!NothingDangles, PN!PathNodeAssumption
  <2>2. \A m \in Nodes : PN!IsDying(m)' => PN!Allocated(m)'
    BY <1>3, <1>4, DyingNodes
  <2>. QED  BY <2>1, <2>2, <1>3, <1>6, EntriesOfNodes
<1>9. PN!LiveIsUsed'
  <2>1. \A u \in Handles, q \in Nodes : node'[u] = q => PN!Live(q)'
    BY <1>1, <1>4 DEF PN!IInv, PN!LiveIsUsed, PN!PathNodeAssumption
  <2>2. \A m \in Nodes, q \in Nodes \cup {None} :
          parent'[m] = q /\ PN!Allocated(m)' /\ ~PN!HasReleasedParent(m)' => PN!Live(q)'
    BY <1>1, <1>3, <1>4 DEF PN!IInv, PN!LiveIsUsed, PN!PathNodeAssumption
  <2>. QED  BY <2>1, <2>2, <1>6, ReferencedLive
<1>10. PN!DyingIsOut'
  <2> SUFFICES ASSUME NEW m \in Nodes, PN!Allocated(m),
                      pnTable'[<<parent[m], pnName[m]>>] = m
               PROVE  ~PN!Removed(m) /\ m # n /\ (PN!IsDying(m) => pnRefCount[m] = 0)
    BY <1>1, <1>3, <1>4 DEF PN!DyingIsOut
  <2>1. m # n
    BY <1>2, <1>5
  <2>2. pnTable[<<parent[m], pnName[m]>>] = m
    BY <1>5, KeyOf DEF PN!PathNodeAssumption
  <2>. QED  BY <2>1, <2>2 DEF PN!IInv, PN!DyingIsOut
<1>11. PN!CountIsExact'
  <2> SUFFICES ASSUME NEW m \in Nodes, PN!Live(m)
               PROVE  /\ pnTable'[<<parent'[m], pnName'[m]>>] = m
                      /\ pnRefCount'[m] > 0
                      /\ pnRefCount'[m] = PN!Cardinality(Users(m)')
                                          + PN!Cardinality(Children(m)')
    BY <1>4 DEF PN!CountIsExact, PN!Live, Users, Children
  <2>1. Users(m)' = Users(m) /\ Children(m)' = Children(m)
    BY <1>1, <1>3 DEF Users, Children
  <2>2. m # n /\ PN!Allocated(m)
    BY <1>1 DEF PN!Live
  <2>. QED  BY <1>1, <1>5, <2>1, <2>2, CountFacts DEF PN!IInv
<1>. QED  BY <1>6, <1>7, <1>8, <1>9, <1>10, <1>11 DEF PN!IInv

LEMMA RemovePathTokenStep ==
  ASSUME PN!PathNodeAssumption, PN!IInv, NEW h \in Handles, PN!RemovePathToken(h)
  PROVE  PN!IInv'
<1>1. PICK n \in Nodes :
        /\ n = Head(dying[h]) /\ pnPc[h] = "token"
        /\ pnPc' = [pnPc EXCEPT ![h] = "parent"]
        /\ UNCHANGED <<pnTable, parent, pnName, pnRefCount, hasToken, node, dying>>
        /\ DOMAIN tokens' = Nodes
        /\ PN!Removed(n)
  BY HeadFacts DEF PN!RemovePathToken, PN!IInv, PN!TypeOK
<1>2. /\ pnPc' \in [Handles -> PN!Labels] /\ DestroyedOnce'
      /\ \A m : /\ PN!IsDying(m)' <=> PN!IsDying(m)
                /\ PN!HasReleasedParent(m)' <=> PN!HasReleasedParent(m)
                /\ PN!Removed(m)' <=> PN!Removed(m)
  BY <1>1, MoveOn
<1>3. \A m : /\ PN!Allocated(m)' <=> PN!Allocated(m)
             /\ PN!Live(m)' <=> PN!Live(m)
  BY <1>1, <1>2 DEF PN!Allocated, PN!Live
<1>4. PN!TypeOK'
  BY <1>1, <1>2 DEF PN!IInv, PN!TypeOK
<1>5. PN!ThreadsAreShaped' /\ PN!ParentsAreKnown' /\ PN!NothingDangles'
  BY <1>1, <1>3
  DEF PN!IInv, PN!TypeOK, PN!ThreadsAreShaped, PN!ParentsAreKnown, PN!NothingDangles,
      PN!Allocated
<1>6. PN!LiveIsUsed'
  <2>1. \A u \in Handles, q \in Nodes : node'[u] = q => PN!Live(q)'
    BY <1>1, <1>3 DEF PN!IInv, PN!LiveIsUsed, PN!PathNodeAssumption
  <2>2. \A m \in Nodes, q \in Nodes \cup {None} :
          parent'[m] = q /\ PN!Allocated(m)' /\ ~PN!HasReleasedParent(m)' => PN!Live(q)'
    BY <1>1, <1>2, <1>3 DEF PN!IInv, PN!LiveIsUsed, PN!PathNodeAssumption
  <2>. QED  BY <2>1, <2>2, <1>4, ReferencedLive
<1>7. PN!DyingIsOut'
  BY <1>1, <1>2, <1>3 DEF PN!IInv, PN!DyingIsOut
<1>8. PN!CountIsExact'
  <2> SUFFICES ASSUME NEW m \in Nodes, PN!Live(m)
               PROVE  /\ pnTable'[<<parent'[m], pnName'[m]>>] = m
                      /\ pnRefCount'[m] > 0
                      /\ pnRefCount'[m] = PN!Cardinality(Users(m)')
                                          + PN!Cardinality(Children(m)')
    BY <1>3 DEF PN!CountIsExact, PN!Live, Users, Children
  <2>1. Users(m)' = Users(m) /\ Children(m)' = Children(m)
    BY <1>1, <1>2 DEF Users, Children
  <2>. QED  BY <1>1, <2>1, CountFacts DEF PN!IInv
<1>. QED  BY <1>4, <1>5, <1>6, <1>7, <1>8 DEF PN!IInv

LEMMA NodeFreeStep ==
  ASSUME PN!PathNodeAssumption, PN!IInv, NEW h \in Handles, PN!Free(h)
  PROVE  PN!IInv'
<1>1. PICK n \in Nodes :
        /\ n = Head(dying[h]) /\ pnPc[h] = "free"
        /\ pnName' = [pnName EXCEPT ![n] = None]
        /\ parent' = [parent EXCEPT ![n] = None]
        /\ pnRefCount' = [pnRefCount EXCEPT ![n] = 0]
        /\ hasToken' = [hasToken EXCEPT ![n] = FALSE]
        /\ dying' = [dying EXCEPT ![h] = Tail(@)]
        /\ pnPc' = [pnPc EXCEPT ![h] = IF Len(dying[h]) = 1 THEN "idle" ELSE "free"]
        /\ UNCHANGED <<pnTable, tokens, node>>
        /\ PN!Allocated(n) /\ PN!IsDying(n) /\ PN!Removed(n) /\ PN!HasReleasedParent(n)
  BY HeadFacts DEF PN!Free
<1>2. /\ dying' \in [Handles -> Seq(Nodes)] /\ pnPc' \in [Handles -> PN!Labels]
      /\ (dying'[h] = << >>) <=> (pnPc'[h] = "idle")
      /\ \A m : /\ PN!IsDying(m)' <=> PN!IsDying(m) /\ m # n
                /\ PN!HasReleasedParent(m)' <=> PN!HasReleasedParent(m) /\ m # n
                /\ PN!Removed(m)' <=> PN!Removed(m) /\ m # n
      /\ DestroyedOnce'
  BY <1>1, HeadGoes
<1>3. \A m \in Nodes : m # n => /\ parent'[m] = parent[m] /\ pnName'[m] = pnName[m]
                               /\ pnRefCount'[m] = pnRefCount[m]
  BY <1>1 DEF PN!IInv, PN!TypeOK
<1>4. parent'[n] = None /\ pnName'[n] = None
  BY <1>1 DEF PN!IInv, PN!TypeOK
<1>5. \A m \in Nodes : /\ PN!Allocated(m)' <=> PN!Allocated(m) /\ m # n
                       /\ PN!Live(m)' <=> PN!Live(m)
  BY <1>1, <1>2, <1>3, <1>4 DEF PN!Allocated, PN!Live
<1>6. PN!TypeOK'
  BY <1>1, <1>2 DEF PN!IInv, PN!TypeOK
<1>7. PN!ThreadsAreShaped' /\ PN!ParentsAreKnown'
  <2>1. PN!ThreadsAreShaped'
    BY <1>1, <1>2 DEF PN!IInv, PN!TypeOK, PN!ThreadsAreShaped
  <2>2. PN!ParentsAreKnown'
    BY <1>3, <1>4, <1>5 DEF PN!IInv, PN!ParentsAreKnown
  <2>. QED  BY <2>1, <2>2
<1>8. PN!NothingDangles'
  <2>1. ASSUME NEW l \in PN!Keys, NEW q \in Nodes, pnTable[l] = q
        PROVE  /\ parent'[q] = l[1] /\ pnName'[q] = l[2]
               /\ l[1] # Root => PN!Allocated(l[1])'
    <3>1. l = <<parent[q], pnName[q]>> /\ PN!Allocated(q) /\ parent[q] = l[1]
          /\ pnName[q] = l[2] /\ l[1] \in Nodes \cup {Root}
      BY <2>1, EntryFacts DEF PN!PathNodeAssumption, PN!Keys
    <3>2. ~PN!Removed(q) /\ q # n
      BY <1>1, <2>1, <3>1 DEF PN!IInv, PN!DyingIsOut
    <3>3. l[1] # Root => PN!Live(l[1])
      BY <3>1, <3>2, ReleasedIsDying DEF PN!IInv, PN!LiveIsUsed
    <3>4. l[1] # Root => PN!Allocated(l[1]) /\ l[1] # n /\ l[1] \in Nodes
      BY <3>1, <3>3, <1>1 DEF PN!Live
    <3>. QED  BY <3>1, <3>2, <3>4, <1>3, <1>5
  <2>2. \A m \in Nodes : PN!IsDying(m)' => PN!Allocated(m)'
    BY <1>2, <1>5, DyingNodes
  <2>. QED  BY <2>1, <2>2, <1>1, <1>2, <1>6, EntriesOfNodes
<1>9. PN!LiveIsUsed'
  <2>1. \A u \in Handles, q \in Nodes : node'[u] = q => PN!Live(q)'
    BY <1>1, <1>5 DEF PN!IInv, PN!LiveIsUsed, PN!PathNodeAssumption
  <2>2. ASSUME NEW m \in Nodes, NEW q \in Nodes \cup {None}, parent'[m] = q,
               PN!Allocated(m)', ~PN!HasReleasedParent(m)'
        PROVE  PN!Live(q)'
    <3>1. m # n /\ PN!Allocated(m) /\ ~PN!HasReleasedParent(m) /\ q = parent[m]
      BY <2>2, <1>2, <1>3, <1>5
    <3>2. PN!Live(q) /\ q \in Nodes
      BY <3>1 DEF PN!IInv, PN!LiveIsUsed, PN!ParentsAreKnown, PN!PathNodeAssumption
    <3>. QED  BY <3>2, <1>5
  <2>. QED  BY <2>1, <2>2, <1>6, ReferencedLive
<1>10. PN!DyingIsOut'
  <2> SUFFICES ASSUME NEW m \in Nodes, PN!Allocated(m)',
                      pnTable'[<<parent'[m], pnName'[m]>>] = m
               PROVE  ~PN!Removed(m)' /\ (PN!IsDying(m)' => pnRefCount'[m] = 0)
    BY DEF PN!DyingIsOut
  <2>1. m # n /\ PN!Allocated(m) /\ pnTable[<<parent[m], pnName[m]>>] = m
    BY <1>1, <1>3, <1>5
  <2>. QED  BY <2>1, <1>2, <1>3 DEF PN!IInv, PN!DyingIsOut
<1>11. PN!CountIsExact'
  <2> SUFFICES ASSUME NEW m \in Nodes, PN!Live(m)'
               PROVE  /\ pnTable'[<<parent'[m], pnName'[m]>>] = m
                      /\ pnRefCount'[m] > 0
                      /\ pnRefCount'[m] = PN!Cardinality(Users(m)')
                                          + PN!Cardinality(Children(m)')
    BY DEF PN!CountIsExact, PN!Live, Users, Children
  <2>1. PN!Live(m) /\ m # n
    BY <1>1, <1>5 DEF PN!Live
  <2>2. Users(m)' = Users(m)
    BY <1>1 DEF Users
  <2>3. Children(m)' = Children(m)
    <3>1. \A c \in Nodes : parent'[c] = m /\ ~PN!HasReleasedParent(c)'
                            <=> parent[c] = m /\ ~PN!HasReleasedParent(c)
      BY <1>1, <1>2, <1>3, <1>4 DEF PN!PathNodeAssumption
    <3>. QED  BY <3>1, SameChildren
  <2>. QED  BY <1>1, <1>3, <2>1, <2>2, <2>3, CountFacts DEF PN!IInv
<1>. QED  BY <1>6, <1>7, <1>8, <1>9, <1>10, <1>11 DEF PN!IInv

(* The parent of a dying node is released: it keeps a count, or has none   *)
(* left and goes first.  The root has no count.                            *)
LEMMA ReleaseParentStep ==
  ASSUME PN!PathNodeAssumption, PN!IInv, NEW h \in Handles, PN!ReleaseParent(h)
  PROVE  PN!IInv'
<1>1. PICK n \in Nodes :
        /\ n = Head(dying[h]) /\ pnPc[h] = "parent"
        /\ UNCHANGED <<pnTable, parent, pnName, hasToken, tokens, node>>
        /\ PN!Allocated(n) /\ PN!IsDying(n) /\ PN!Removed(n) /\ ~PN!HasReleasedParent(n)
        /\ parent[n] # None
  BY HeadFacts DEF PN!ReleaseParent
<1>2. PICK p \in Nodes \cup {Root} : p = parent[n]
  BY <1>1 DEF PN!IInv, PN!TypeOK
<1>3. p # Root => p \in Nodes /\ PN!Live(p)
  BY <1>1, <1>2 DEF PN!IInv, PN!LiveIsUsed
<1>4. \A m : PN!Allocated(m)' <=> PN!Allocated(m)
  BY <1>1 DEF PN!Allocated
<1>5. \A m : Users(m)' = Users(m)
  BY <1>1 DEF Users
<1>6. ASSUME pnPc' = [pnPc EXCEPT ![h] = "free"], UNCHANGED dying,
             pnRefCount' \in [Nodes -> Nat],
             \A m \in Nodes : m # p => pnRefCount'[m] = pnRefCount[m],
             p # Root => pnRefCount[p] # 1 /\ pnRefCount'[p] = pnRefCount[p] - 1
      PROVE  PN!IInv'
  <2>1. /\ pnPc' \in [Handles -> PN!Labels] /\ DestroyedOnce'
        /\ \A m : /\ PN!IsDying(m)' <=> PN!IsDying(m)
                  /\ PN!HasReleasedParent(m)' <=> PN!HasReleasedParent(m) \/ m = n
                  /\ PN!Removed(m)' <=> PN!Removed(m)
    BY <1>1, <1>6, MoveOn
  <2>2. \A m : PN!Live(m)' <=> PN!Live(m)
    BY <1>4, <2>1 DEF PN!Live
  <2>3. PN!TypeOK'
    BY <1>1, <1>6, <2>1 DEF PN!IInv, PN!TypeOK
  <2>4. PN!ThreadsAreShaped' /\ PN!ParentsAreKnown' /\ PN!NothingDangles'
    BY <1>1, <1>4, <1>6
    DEF PN!IInv, PN!TypeOK, PN!ThreadsAreShaped, PN!ParentsAreKnown,
        PN!NothingDangles, PN!Allocated
  <2>5. PN!LiveIsUsed'
    <3>1. \A u \in Handles, q \in Nodes : node'[u] = q => PN!Live(q)'
      BY <1>1, <2>2 DEF PN!IInv, PN!LiveIsUsed, PN!PathNodeAssumption
    <3>2. \A m \in Nodes, q \in Nodes \cup {None} :
            parent'[m] = q /\ PN!Allocated(m)' /\ ~PN!HasReleasedParent(m)' => PN!Live(q)'
      BY <1>1, <1>4, <2>1, <2>2 DEF PN!IInv, PN!LiveIsUsed, PN!PathNodeAssumption
    <3>. QED  BY <3>1, <3>2, <2>3, ReferencedLive
  <2>6. PN!DyingIsOut'
    <3> SUFFICES ASSUME NEW m \in Nodes, PN!Allocated(m),
                        pnTable[<<parent[m], pnName[m]>>] = m
                 PROVE  ~PN!Removed(m) /\ (PN!IsDying(m) => pnRefCount'[m] = 0)
      BY <1>1, <1>4, <2>1 DEF PN!DyingIsOut
    <3>1. ~PN!Removed(m) /\ (PN!IsDying(m) => pnRefCount[m] = 0)
      BY DEF PN!IInv, PN!DyingIsOut
    <3>2. PN!IsDying(m) => m # p
      BY <1>3 DEF PN!Live, PN!PathNodeAssumption
    <3>. QED  BY <3>1, <3>2, <1>6
  <2>7. PN!CountIsExact'
    <3> SUFFICES ASSUME NEW m \in Nodes, PN!Live(m)
                 PROVE  /\ pnTable'[<<parent'[m], pnName'[m]>>] = m
                        /\ pnRefCount'[m] > 0
                        /\ pnRefCount'[m] = PN!Cardinality(Users(m)')
                                            + PN!Cardinality(Children(m)')
      BY <2>2 DEF PN!CountIsExact, PN!Live, Users, Children
    <3>1. /\ pnTable'[<<parent'[m], pnName'[m]>>] = m
          /\ pnRefCount[m] > 0 /\ pnRefCount[m] \in Nat
          /\ pnRefCount[m] = PN!Cardinality(Users(m)) + PN!Cardinality(Children(m))
          /\ PN!Cardinality(Users(m)) \in Nat /\ PN!Cardinality(Children(m)) \in Nat
      BY <1>1, CountFacts, CountsFinite DEF PN!IInv, PN!TypeOK
    <3>2. PN!Cardinality(Users(m)') = PN!Cardinality(Users(m))
      BY <1>5
    <3>3. CASE m = p
      <4>1. n \in Children(m) /\ n \notin Children(m)'
        BY <3>3, <1>1, <1>2, <2>1 DEF Children
      <4>2. \A k \in Nodes \ {n} : k \in Children(m)' <=> k \in Children(m)
        BY <1>1, <2>1 DEF Children
      <4>3. PN!Cardinality(Children(m)') = PN!Cardinality(Children(m)) - 1
        BY <4>1, <4>2, LoseChild
      <4>4. pnRefCount'[m] = pnRefCount[m] - 1 /\ pnRefCount[m] # 1
        BY <3>3, <1>6 DEF PN!PathNodeAssumption
      <4>. QED  BY <3>1, <3>2, <4>3, <4>4
    <3>4. CASE m # p
      <4>1. Children(m)' = Children(m)
        BY <3>4, <1>1, <1>2, <2>1 DEF Children
      <4>. QED  BY <3>1, <3>2, <3>4, <4>1, <1>6
    <3>. QED  BY <3>3, <3>4
  <2>. QED  BY <2>3, <2>4, <2>5, <2>6, <2>7 DEF PN!IInv
<1>7. CASE p = Root
  <2>1. pnPc' = [pnPc EXCEPT ![h] = "free"] /\ UNCHANGED <<pnRefCount, dying>>
    BY <1>1, <1>2, <1>7 DEF PN!ReleaseParent
  <2>. QED  BY <2>1, <1>6, <1>7 DEF PN!IInv, PN!TypeOK
<1>8. CASE p # Root /\ pnRefCount[p] # 1
  <2>1. /\ pnPc' = [pnPc EXCEPT ![h] = "free"] /\ UNCHANGED dying
        /\ pnRefCount' = [pnRefCount EXCEPT ![p] = @ - 1]
    BY <1>1, <1>2, <1>8 DEF PN!ReleaseParent
  <2>2. pnRefCount[p] > 0 /\ pnRefCount[p] \in Nat /\ p \in Nodes
    BY <1>3, <1>8, CountFacts DEF PN!IInv, PN!TypeOK
  <2>3. pnRefCount' \in [Nodes -> Nat]
    BY <2>1, <2>2 DEF PN!IInv, PN!TypeOK
  <2>. QED  BY <2>1, <2>2, <2>3, <1>6, <1>8 DEF PN!IInv, PN!TypeOK
<1>9. CASE p # Root /\ pnRefCount[p] = 1
  <2>1. /\ pnPc' = [pnPc EXCEPT ![h] = "remove"]
        /\ dying' = [dying EXCEPT ![h] = <<p>> \o @]
        /\ pnRefCount' = [pnRefCount EXCEPT ![p] = @ - 1]
    BY <1>1, <1>2, <1>9 DEF PN!ReleaseParent
  <2>2. p \in Nodes /\ PN!Live(p) /\ ~PN!IsDying(p) /\ p # n
    BY <1>1, <1>3, <1>9 DEF PN!Live
  <2>3. /\ pnTable[<<parent[p], pnName[p]>>] = p
        /\ PN!Cardinality(Users(p)) + PN!Cardinality(Children(p)) = 1
    BY <1>9, <2>2, CountFacts DEF PN!IInv
  <2>4. /\ \A u \in Handles : node[u] # p
        /\ \A k \in Nodes \ {n} : parent[k] = p => PN!HasReleasedParent(k)
    BY <1>1, <1>2, <2>3, OneChild
  <2>5. /\ dying' \in [Handles -> Seq(Nodes)] /\ pnPc' \in [Handles -> PN!Labels]
        /\ dying'[h] # << >>
        /\ \A m : /\ PN!IsDying(m)' <=> PN!IsDying(m) \/ m = p
                  /\ PN!HasReleasedParent(m)' <=> PN!HasReleasedParent(m) \/ m = n
                  /\ PN!Removed(m)' <=> PN!Removed(m)
        /\ DestroyedOnce'
    BY <1>1, <2>1, <2>2, ParentGoesFirst
  <2>6. \A m : PN!Live(m)' <=> PN!Live(m) /\ m # p
    BY <1>4, <2>5 DEF PN!Live
  <2>7. /\ pnRefCount' \in [Nodes -> Nat] /\ pnRefCount'[p] = 0
        /\ \A m \in Nodes : m # p => pnRefCount'[m] = pnRefCount[m]
    BY <1>9, <2>1, <2>2 DEF PN!IInv, PN!TypeOK
  <2>8. PN!TypeOK'
    BY <1>1, <2>5, <2>7 DEF PN!IInv, PN!TypeOK
  <2>9. PN!ThreadsAreShaped' /\ PN!ParentsAreKnown'
    BY <1>1, <1>4, <2>1, <2>5 DEF PN!IInv, PN!TypeOK, PN!ThreadsAreShaped,
                                  PN!ParentsAreKnown
  <2>10. PN!NothingDangles'
    <3>1. \A k \in PN!Keys, q \in Nodes : pnTable'[k] = q =>
            /\ parent'[q] = k[1] /\ pnName'[q] = k[2]
            /\ k[1] # Root => PN!Allocated(k[1])'
      BY <1>1, <1>4 DEF PN!IInv, PN!NothingDangles, PN!PathNodeAssumption
    <3>2. \A m \in Nodes : PN!IsDying(m)' => PN!Allocated(m)'
      BY <1>4, <2>2, <2>5, DyingNodes DEF PN!Live
    <3>. QED  BY <3>1, <3>2, <2>5, <2>8, EntriesOfNodes
  <2>11. PN!LiveIsUsed'
    <3>1. \A u \in Handles, q \in Nodes : node'[u] = q => PN!Live(q)'
      BY <1>1, <2>4, <2>6 DEF PN!IInv, PN!LiveIsUsed, PN!PathNodeAssumption
    <3>2. \A m \in Nodes, q \in Nodes \cup {None} :
            parent'[m] = q /\ PN!Allocated(m)' /\ ~PN!HasReleasedParent(m)' => PN!Live(q)'
      BY <1>1, <1>4, <2>4, <2>5, <2>6 DEF PN!IInv, PN!LiveIsUsed, PN!PathNodeAssumption
    <3>. QED  BY <3>1, <3>2, <2>8, ReferencedLive
  <2>12. PN!DyingIsOut'
    <3> SUFFICES ASSUME NEW m \in Nodes, PN!Allocated(m),
                        pnTable[<<parent[m], pnName[m]>>] = m
                 PROVE  ~PN!Removed(m) /\ (PN!IsDying(m) \/ m = p => pnRefCount'[m] = 0)
      BY <1>1, <1>4, <2>5 DEF PN!DyingIsOut
    <3>1. ~PN!Removed(m) /\ (PN!IsDying(m) => pnRefCount[m] = 0)
      BY DEF PN!IInv, PN!DyingIsOut
    <3>2. CASE m = p
      BY <2>7, <3>1, <3>2
    <3>3. CASE m # p
      BY <2>7, <3>1, <3>3
    <3>. QED  BY <3>2, <3>3
  <2>13. PN!CountIsExact'
    <3> SUFFICES ASSUME NEW m \in Nodes, PN!Live(m), m # p
                 PROVE  /\ pnTable'[<<parent'[m], pnName'[m]>>] = m
                        /\ pnRefCount'[m] > 0
                        /\ pnRefCount'[m] = PN!Cardinality(Users(m)')
                                            + PN!Cardinality(Children(m)')
      BY <2>6 DEF PN!CountIsExact, PN!Live, Users, Children
    <3>1. Users(m)' = Users(m)
      BY <1>5
    <3>2. Children(m)' = Children(m)
      BY <1>1, <1>2, <2>5 DEF Children
    <3>. QED  BY <1>1, <2>7, <3>1, <3>2, CountFacts DEF PN!IInv
  <2>. QED  BY <2>8, <2>9, <2>10, <2>11, <2>12, <2>13 DEF PN!IInv
<1>. QED  BY <1>7, <1>8, <1>9

-----------------------------------------------------------------------------
LEMMA NodeNextInvariant == PN!PathNodeAssumption /\ PN!IInv /\ [PN!Next]_PN!vars => PN!IInv'
<1> SUFFICES ASSUME PN!PathNodeAssumption, PN!IInv, [PN!Next]_PN!vars PROVE PN!IInv'
  OBVIOUS
<1>1. CASE UNCHANGED PN!vars
  <2>1. PN!TypeOK' /\ PN!ThreadsAreShaped' /\ PN!ParentsAreKnown' /\ PN!NothingDangles'
    BY <1>1 DEF PN!vars, PN!IInv, PN!TypeOK, PN!ThreadsAreShaped, PN!ParentsAreKnown,
                PN!NothingDangles,
                PN!Allocated
  <2>2. PN!CountIsExact'
    BY <1>1 DEF PN!vars, PN!IInv, PN!CountIsExact, PN!Allocated, PN!IsDying,
                PN!HasReleasedParent
  <2>3. PN!LiveIsUsed' /\ PN!DyingIsOut'
    BY <1>1 DEF PN!vars, PN!IInv, PN!LiveIsUsed, PN!DyingIsOut, PN!Live, PN!Allocated,
                PN!IsDying,
                PN!HasReleasedParent, PN!Removed
  <2>. QED  BY <2>1, <2>2, <2>3 DEF PN!IInv
<1>2. ASSUME NEW h \in Handles, PN!Step(h) PROVE PN!IInv'
  <2>1. CASE \E p \in PN!Parents, x \in Names : PN!FindOrCreate(h, p, x)
    BY <2>1, FindOrCreateStep
  <2>2. CASE \E u \in Handles : PN!CopyHandle(h, u) \/ PN!GetParent(h, u)
    BY <2>2, NodeCopyStep
  <2>3. CASE PN!GetPathToken(h)
    BY <2>3, GetPathTokenStep
  <2>4. CASE PN!Release(h)
    BY <2>4, NodeReleaseStep
  <2>5. CASE PN!Destroy(h)
    BY <2>5, RemoveStep, RemovePathTokenStep, ReleaseParentStep,
       NodeFreeStep DEF PN!Destroy
  <2>. QED  BY <1>2, <2>1, <2>2, <2>3, <2>4, <2>5 DEF PN!Step
<1>. QED  BY <1>1, <1>2 DEF PN!Next

(***************************************************************************)
(* The table and the parents of path nodes never dangle, a node is         *)
(* destroyed once, and a node's count is that of its handles and children, *)
(* however many threads find, copy, release and destroy nodes at a time    *)
(* (Sdf_PathNode::FindOrCreatePrim and intrusive_ptr_release).             *)
(***************************************************************************)
THEOREM NodesExact ==
  PN!PathNodeAssumption /\ PN!Spec => [](PN!NothingDangles /\ PN!CountIsExact)
<1>1. PN!IInv => PN!NothingDangles /\ PN!CountIsExact
  BY DEF PN!IInv
<1>2. PN!PathNodeAssumption /\ PN!IInv /\ [PN!Next]_PN!vars => (PN!PathNodeAssumption /\ PN!IInv)'
  BY NodeNextInvariant DEF PN!PathNodeAssumption
<1>. QED  BY <1>1, <1>2, NodeInitInvariant, PTL DEF PN!Spec

-----------------------------------------------------------------------------
(***************************************************************************)
(* The paths.  IsLine says what Line is, of any parents and names, so that *)
(* the lemmas can speak of two states.                                     *)
(***************************************************************************)
Ends == Nodes \cup {Root, None}

IsLine(f, max, par, nam) ==
  f = [d \in 0..max |->
         [n \in Ends |-> IF d = 0 \/ n \notin Nodes THEN << >>
                         ELSE Append(f[d - 1][par[n]], nam[n])]]

LEMMA Induction ==
  ASSUME NEW G, 0 \in G, \A i \in Nat : i \in G => i + 1 \in G
  PROVE  \A i \in Nat : i \in G
<1>. DEFINE Less == {ss \in Nat \X Nat : ss[1] < ss[2]}
            B == {i \in Nat : i \notin G}
<1>1. IsWellFoundedOn(Less, Nat)
  BY NatLessThanWellFounded DEF OpToRel
<1>2. SUFFICES ASSUME B # {} PROVE FALSE
  OBVIOUS
<1>3. PICK m \in B : \A i \in B : ~(<<i, m>> \in Less)
  BY <1>1, <1>2, WFMin
<1>4. m # 0 /\ m - 1 \in Nat /\ <<m - 1, m>> \in Less
  OBVIOUS
<1> QED BY <1>3, <1>4

LEMMA LineOfRows ==
  ASSUME NEW max, NEW f, NEW par, NEW nam, f = [d \in 0..max |-> f[d]],
         \A d \in 0..max :
           f[d] = [n \in Ends |-> IF d = 0 \/ n \notin Nodes THEN << >>
                                  ELSE Append(f[d - 1][par[n]], nam[n])]
  PROVE  IsLine(f, max, par, nam)
BY Zenon DEF IsLine

(* There is such a function, so Line, which is chosen as one, is one.      *)
LEMMA LinesExist ==
  ASSUME NEW max \in Nat, NEW par, NEW nam
  PROVE  \E f : IsLine(f, max, par, nam)
<1>. DEFINE G == {k \in Nat : \E f : IsLine(f, k, par, nam)}
<1>1. 0 \in G
  <2>. DEFINE f == [d \in 0..0 |-> [n \in Ends |-> << >>]]
  <2>1. IsLine(f, 0, par, nam)
    BY DEF IsLine
  <2> QED BY <2>1
<1>2. ASSUME NEW k \in Nat, k \in G PROVE k + 1 \in G
  <2>1. PICK f : IsLine(f, k, par, nam)
    BY <1>2
  <2>5. \A d \in 0..k : f[d] = [n \in Ends |-> IF d = 0 \/ n \notin Nodes THEN << >>
                                               ELSE Append(f[d - 1][par[n]], nam[n])]
    BY <2>1 DEF IsLine
  <2>. DEFINE h == [n \in Ends |-> IF n \notin Nodes THEN << >>
                                   ELSE Append(f[k][par[n]], nam[n])]
              g == [d \in 0..(k + 1) |-> IF d = k + 1 THEN h ELSE f[d]]
  <2>2. ASSUME NEW d \in 0..(k + 1)
        PROVE  g[d] = [n \in Ends |-> IF d = 0 \/ n \notin Nodes THEN << >>
                                      ELSE Append(g[d - 1][par[n]], nam[n])]
    <3>1. CASE d = k + 1
      <4>1. g[d] = h /\ d # 0 /\ d - 1 = k /\ g[d - 1] = f[k]
        BY <3>1
      <4> QED BY <4>1, <3>1
    <3>2. CASE d # k + 1
      <4>1. /\ d \in 0..k /\ g[d] = f[d]
            /\ d # 0 => d - 1 \in 0..k /\ g[d - 1] = f[d - 1]
        BY <3>2
      <4>2. f[d] = [n \in Ends |-> IF d = 0 \/ n \notin Nodes THEN << >>
                                   ELSE Append(f[d - 1][par[n]], nam[n])]
        BY <2>5, <4>1
      <4>. HIDE DEF g
      <4> QED BY <4>1, <4>2
    <3> QED BY <3>1, <3>2
  <2>3. g = [d \in 0..(k + 1) |-> g[d]]
    OBVIOUS
  <2>. HIDE DEF g
  <2>4. IsLine(g, k + 1, par, nam)
    BY <2>2, <2>3, LineOfRows
  <2> QED BY <2>4
<1>. HIDE DEF G
<1>3. max \in G
  BY <1>1, <1>2, Induction
<1> QED BY <1>3 DEF G

LEMMA LineIsOne ==
  ASSUME PN!PathNodeAssumption
  PROVE  IsLine(PN!Line, MaxDepth, parent, pnName) /\ IsLine(PN!Line', MaxDepth, parent', pnName')
<1>1. MaxDepth \in Nat
  BY DEF PN!PathNodeAssumption
<1>2. /\ \E f : IsLine(f, MaxDepth, parent, pnName)
      /\ \E f : IsLine(f, MaxDepth, parent', pnName')
  BY <1>1, LinesExist
<1> QED BY <1>2 DEF PN!Line, IsLine, Ends

LEMMA LineValue ==
  ASSUME NEW f, NEW max \in Nat, NEW par, NEW nam, IsLine(f, max, par, nam),
         NEW d \in 0..max, NEW n \in Ends
  PROVE  f[d][n] = IF d = 0 \/ n \notin Nodes THEN << >>
                   ELSE Append(f[d - 1][par[n]], nam[n])
<1>1. f[d] = [m \in Ends |-> IF d = 0 \/ m \notin Nodes THEN << >>
                             ELSE Append(f[d - 1][par[m]], nam[m])]
  BY DEF IsLine
<1> QED BY <1>1

(* Among nodes that have their parents among them, and names in N.         *)
Closed(S, par) == S \subseteq Nodes /\ \A n \in S : par[n] \in S \cup (Ends \ Nodes)

LEMMA LineType ==
  ASSUME NEW f, NEW max \in Nat, NEW par, NEW nam, IsLine(f, max, par, nam),
         NEW S, Closed(S, par), NEW N, \A n \in S : nam[n] \in N,
         NEW d \in 0..max, NEW n \in S \cup (Ends \ Nodes)
  PROVE  f[d][n] \in Seq(N) /\ Len(f[d][n]) <= d
<1>. DEFINE E == S \cup (Ends \ Nodes)
            G == {i \in Nat : i <= max => \A m \in E : f[i][m] \in Seq(N)
                                                        /\ Len(f[i][m]) <= i}
<1>0. E \subseteq Ends /\ \A m \in S : m \in Nodes /\ par[m] \in E
  BY DEF Closed, Ends
<1>1. 0 \in G
  <2>1. 0 \in 0..max /\ << >> \in Seq(N) /\ Len(<< >>) = 0
    OBVIOUS
  <2>. HIDE DEF E
  <2>2. ASSUME NEW m \in E PROVE f[0][m] \in Seq(N) /\ Len(f[0][m]) <= 0
    <3>1. f[0][m] = << >>
      BY <1>0, <2>1, LineValue
    <3> QED BY <2>1, <3>1
  <2> QED BY <2>2
<1>2. ASSUME NEW i \in Nat, i \in G PROVE i + 1 \in G
  <2> SUFFICES ASSUME i + 1 <= max, NEW m \in E
               PROVE  f[i + 1][m] \in Seq(N) /\ Len(f[i + 1][m]) <= i + 1
    OBVIOUS
  <2>1. i + 1 \in 0..max /\ (i + 1) - 1 = i /\ i <= max /\ i + 1 # 0
    OBVIOUS
  <2>2. f[i + 1][m] = IF m \notin Nodes THEN << >> ELSE Append(f[i][par[m]], nam[m])
    BY <1>0, <2>1, LineValue
  <2>3. CASE m \notin Nodes
    BY <2>2, <2>3
  <2>4. CASE m \in Nodes
    <3>1. m \in S /\ par[m] \in E /\ nam[m] \in N
      BY <1>0, <2>4
    <3>2. f[i][par[m]] \in Seq(N) /\ Len(f[i][par[m]]) <= i
      BY <1>2, <2>1, <3>1
    <3>3. f[i + 1][m] = Append(f[i][par[m]], nam[m])
      BY <2>2, <2>4
    <3>. HIDE DEF E, G
    <3> QED BY <3>1, <3>2, <3>3
  <2> QED BY <2>3, <2>4
<1>. HIDE DEF G
<1>3. d \in G
  BY <1>1, <1>2, Induction
<1> QED BY <1>3 DEF G

(* A line that is short enough has all of the path.                        *)
LEMMA ShortLine ==
  ASSUME NEW f, NEW max \in Nat, NEW par, NEW nam, IsLine(f, max, par, nam),
         par \in [Nodes -> Ends], NEW d \in Nat, d + 1 <= max, NEW n \in Ends,
         Len(f[d + 1][n]) <= d
  PROVE  f[d][n] = f[d + 1][n]
<1>. DEFINE N == {nam[m] : m \in Nodes}
            G == {i \in Nat : i + 1 <= max =>
                    \A m \in Ends : Len(f[i + 1][m]) <= i => f[i][m] = f[i + 1][m]}
<1>0. \A i \in 0..max, m \in Ends : f[i][m] \in Seq(N)
  <2>1. Closed(Nodes, par) /\ Ends = Nodes \cup (Ends \ Nodes)
    BY DEF Closed, Ends
  <2>2. \A m \in Nodes : nam[m] \in N
    OBVIOUS
  <2>. HIDE DEF N
  <2> QED BY <2>1, <2>2, LineType
<1>1. 0 \in G
  <2> SUFFICES ASSUME 0 + 1 <= max, NEW m \in Ends, Len(f[0 + 1][m]) <= 0
               PROVE  f[0][m] = f[0 + 1][m]
    OBVIOUS
  <2>1. 0 \in 0..max /\ 1 \in 0..max /\ 1 - 1 = 0 /\ 0 + 1 = 1
    OBVIOUS
  <2>2. f[0][m] = << >> /\ f[1][m] = IF m \notin Nodes THEN << >>
                                     ELSE Append(f[0][par[m]], nam[m])
    BY <2>1, LineValue
  <2>3. m \notin Nodes
    <3>1. SUFFICES ASSUME m \in Nodes PROVE FALSE
      OBVIOUS
    <3>2. par[m] \in Ends /\ nam[m] \in N
      BY <3>1
    <3>3. f[0][par[m]] \in Seq(N)
      BY <1>0, <2>1, <3>2
    <3>4. Len(f[1][m]) = Len(f[0][par[m]]) + 1
      BY <2>2, <3>1, <3>2, <3>3
    <3> QED BY <2>1, <3>3, <3>4
  <2> QED BY <2>1, <2>2, <2>3
<1>2. ASSUME NEW i \in Nat, i \in G PROVE i + 1 \in G
  <2> SUFFICES ASSUME (i + 1) + 1 <= max, NEW m \in Ends, Len(f[(i + 1) + 1][m]) <= i + 1
               PROVE  f[i + 1][m] = f[(i + 1) + 1][m]
    OBVIOUS
  <2>1. /\ i + 1 \in 0..max /\ i + 2 \in 0..max /\ i \in 0..max
        /\ (i + 1) - 1 = i /\ (i + 2) - 1 = i + 1 /\ (i + 1) + 1 = i + 2
        /\ i + 1 # 0 /\ i + 2 # 0 /\ i + 1 <= max
    OBVIOUS
  <2>2. /\ f[i + 1][m] = IF m \notin Nodes THEN << >> ELSE Append(f[i][par[m]], nam[m])
        /\ f[i + 2][m] = IF m \notin Nodes THEN << >>
                         ELSE Append(f[i + 1][par[m]], nam[m])
    BY <2>1, LineValue
  <2>3. CASE m \in Nodes
    <3>1. par[m] \in Ends /\ nam[m] \in N
      BY <2>3
    <3>2. f[i + 1][par[m]] \in Seq(N)
      BY <1>0, <2>1, <3>1
    <3>3. Len(f[i + 2][m]) = Len(f[i + 1][par[m]]) + 1
      BY <2>2, <2>3, <3>1, <3>2
    <3>4. Len(f[i + 1][par[m]]) <= i
      BY <2>1, <3>2, <3>3
    <3>5. f[i][par[m]] = f[i + 1][par[m]]
      BY <1>2, <2>1, <3>1, <3>4
    <3> QED BY <2>1, <2>2, <2>3, <3>5
  <2> QED BY <2>1, <2>2, <2>3
<1>. HIDE DEF G
<1>3. d \in G
  BY <1>1, <1>2, Induction
<1> QED BY <1>3 DEF G

(* Nodes that keep their parents and names keep their paths.               *)
LEMMA SameLine ==
  ASSUME NEW max \in Nat, NEW f, NEW par, NEW nam, IsLine(f, max, par, nam),
         NEW g, NEW par2, NEW nam2, IsLine(g, max, par2, nam2),
         NEW S, Closed(S, par), \A n \in S : par2[n] = par[n] /\ nam2[n] = nam[n],
         NEW d \in 0..max, NEW n \in S \cup (Ends \ Nodes)
  PROVE  f[d][n] = g[d][n]
<1>. DEFINE E == S \cup (Ends \ Nodes)
            G == {i \in Nat : i <= max => \A m \in E : f[i][m] = g[i][m]}
<1>0. E \subseteq Ends /\ \A m \in S : m \in Nodes /\ par[m] \in E
  BY DEF Closed, Ends
<1>1. 0 \in G
  BY <1>0, LineValue
<1>2. ASSUME NEW i \in Nat, i \in G PROVE i + 1 \in G
  <2> SUFFICES ASSUME i + 1 <= max, NEW m \in E
               PROVE  f[i + 1][m] = g[i + 1][m]
    OBVIOUS
  <2>1. i + 1 \in 0..max /\ (i + 1) - 1 = i /\ i <= max /\ i + 1 # 0
    OBVIOUS
  <2>2. /\ f[i + 1][m] = IF m \notin Nodes THEN << >> ELSE Append(f[i][par[m]], nam[m])
        /\ g[i + 1][m] = IF m \notin Nodes THEN << >> ELSE Append(g[i][par2[m]], nam2[m])
    BY <1>0, <2>1, LineValue
  <2> QED BY <1>0, <1>2, <2>1, <2>2
<1>. HIDE DEF G
<1>3. d \in G
  BY <1>1, <1>2, Induction
<1> QED BY <1>3 DEF G

-----------------------------------------------------------------------------
(***************************************************************************)
(* The nodes that stand: whoever has one has all of its path.              *)
(***************************************************************************)
Standing == {n \in Nodes : PN!Allocated(n) /\ ~PN!HasReleasedParent(n)}

LEMMA LiveStands == ASSUME NEW n \in Nodes, PN!Live(n) PROVE n \in Standing
BY DEF PN!Live, Standing, PN!IsDying, PN!HasReleasedParent

LEMMA ParentStands ==
  ASSUME PN!PathNodeAssumption, PN!IInv, NEW n \in Standing
  PROVE  /\ parent[n] = Root \/ (parent[n] \in Standing /\ PN!Live(parent[n]))
         /\ parent[n] # None /\ pnName[n] \in Names
<1>1. parent[n] # None /\ parent[n] \in Nodes \cup {Root} /\ pnName[n] \in Names
  BY DEF Standing, PN!IInv, PN!TypeOK, PN!ParentsAreKnown, PN!Allocated
<1>2. CASE parent[n] # Root
  <2>1. parent[n] \in Nodes /\ PN!Live(parent[n])
    BY <1>1, <1>2 DEF PN!IInv, PN!LiveIsUsed, Standing
  <2> QED BY <1>1, <2>1, LiveStands
<1> QED BY <1>1, <1>2

LEMMA StandingClosed ==
  ASSUME PN!PathNodeAssumption, PN!IInv
  PROVE  Closed(Standing, parent) /\ \A n \in Standing : pnName[n] \in Names
BY ParentStands DEF Closed, Standing, Ends, PN!PathNodeAssumption

LEMMA PathType ==
  ASSUME PN!PathNodeAssumption, PN!IInv, NEW n \in Standing \cup {Root}
  PROVE  PN!PathOf(n) \in Seq(Names) /\ Len(PN!PathOf(n)) <= MaxDepth
<1>1. n \in Standing \cup (Ends \ Nodes) /\ MaxDepth \in Nat
      /\ MaxDepth \in 0..MaxDepth
  BY DEF Ends, PN!PathNodeAssumption
<1> QED BY <1>1, LineIsOne, StandingClosed, LineType DEF PN!PathOf

LEMMA PathOfRoot == ASSUME PN!PathNodeAssumption PROVE PN!PathOf(Root) = << >>
<1>1. Root \in Ends /\ Root \notin Nodes /\ MaxDepth \in Nat /\ MaxDepth \in 0..MaxDepth
  BY DEF Ends, PN!PathNodeAssumption
<1> QED BY <1>1, LineIsOne, LineValue DEF PN!PathOf

(* The path of a node is that of its parent, and its name.                 *)
LEMMA PathOfNode ==
  ASSUME PN!PathNodeAssumption, PN!IInv, NEW n \in Standing, Len(PN!PathOf(parent[n])) < MaxDepth
  PROVE  /\ PN!PathOf(n) = Append(PN!PathOf(parent[n]), pnName[n])
         /\ PN!PathOf(n) \in Seq(Names) /\ PN!PathOf(n) # << >> /\ PN!PathOf(n) \in PN!Paths
<1>1. /\ parent[n] \in Standing \cup {Root} /\ pnName[n] \in Names /\ n \in Nodes
      /\ parent[n] \in Ends /\ n \in Ends
  BY ParentStands DEF Standing, Ends
<1>2. MaxDepth \in Nat /\ MaxDepth # 0 /\ MaxDepth - 1 \in Nat
      /\ (MaxDepth - 1) + 1 = MaxDepth /\ MaxDepth \in 0..MaxDepth
  BY DEF PN!PathNodeAssumption
<1>3. PN!PathOf(parent[n]) \in Seq(Names) /\ PN!PathOf(n) \in Seq(Names)
      /\ Len(PN!PathOf(n)) <= MaxDepth
  BY <1>1, PathType
<1>4. parent \in [Nodes -> Ends]
  BY DEF PN!IInv, PN!TypeOK, Ends
<1>5. Len(PN!PathOf(parent[n])) <= MaxDepth - 1
  BY <1>2, <1>3
<1>6. PN!Line[MaxDepth - 1][parent[n]] = PN!PathOf(parent[n])
  BY <1>1, <1>2, <1>4, <1>5, LineIsOne, ShortLine DEF PN!PathOf
<1>7. PN!PathOf(n) = Append(PN!Line[MaxDepth - 1][parent[n]], pnName[n])
  <2>1. IsLine(PN!Line, MaxDepth, parent, pnName)
    BY LineIsOne
  <2>2. PN!Line[MaxDepth][n] = IF MaxDepth = 0 \/ n \notin Nodes THEN << >>
                            ELSE Append(PN!Line[MaxDepth - 1][parent[n]], pnName[n])
    BY <1>1, <1>2, <2>1, LineValue
  <2> QED BY <1>1, <1>2, <2>2 DEF PN!PathOf
<1>8. PN!PathOf(n) = Append(PN!PathOf(parent[n]), pnName[n])
  BY <1>6, <1>7
<1>9. PN!PathOf(n) # << >> /\ Len(PN!PathOf(n)) # 0
  BY <1>1, <1>3, <1>8
<1>10. PN!PathOf(n) \in [1..Len(PN!PathOf(n)) -> Names] /\ Len(PN!PathOf(n)) \in 1..MaxDepth
  BY <1>2, <1>3, <1>9
<1> QED BY <1>3, <1>8, <1>9, <1>10 DEF PN!Paths

(* A step leaves the nodes that stand where they are.                      *)
LEMMA SamePath ==
  ASSUME PN!PathNodeAssumption, PN!IInv,
         \A m \in Standing : parent'[m] = parent[m] /\ pnName'[m] = pnName[m],
         NEW n \in Standing \cup {Root}
  PROVE  PN!PathOf(n)' = PN!PathOf(n)
<1>1. n \in Standing \cup (Ends \ Nodes) /\ MaxDepth \in Nat
      /\ MaxDepth \in 0..MaxDepth
  BY DEF Ends, PN!PathNodeAssumption
<1>2. PN!Line'[MaxDepth][n] = PN!Line[MaxDepth][n]
  BY <1>1, LineIsOne, StandingClosed, SameLine
<1> QED BY <1>2 DEF PN!PathOf

(* What a step must do to keep the paths.                                  *)
LEMMA KeepPaths ==
  ASSUME PN!PathNodeAssumption, PN!IInv, PN!PathsAreKept,
         \A m \in Standing : parent'[m] = parent[m] /\ pnName'[m] = pnName[m],
         \A m \in Standing' : \/ m \in Standing
                              \/ /\ parent'[m] \in Standing \cup {Root}
                                 /\ Len(PN!PathOf(parent'[m])) < MaxDepth,
         \A m \in Nodes : tokens'[m] # << >> =>
           /\ m \in Standing /\ PN!Allocated(m)' /\ hasToken'[m]
           /\ ~PN!HasDroppedToken(m)' /\ tokens'[m] = PN!PathOf(m)
  PROVE  PN!PathsAreKept'
<1>1. ASSUME NEW m \in Standing' PROVE Len(PN!PathOf(parent[m])') < MaxDepth
  <2>1. /\ parent'[m] \in Standing \cup {Root}
        /\ Len(PN!PathOf(parent'[m])) < MaxDepth
    <3>1. CASE m \in Standing
      BY <3>1, ParentStands DEF PN!PathsAreKept, Standing
    <3> QED BY <3>1
  <2>2. \A q \in Standing \cup {Root} : PN!PathOf(q)' = PN!PathOf(q)
    BY SamePath
  <2>3. PN!PathOf(parent[m])' = PN!Line'[MaxDepth][parent'[m]]
    BY DEF PN!PathOf
  <2>4. PN!Line'[MaxDepth][parent'[m]] = PN!PathOf(parent'[m])
    BY <2>1, <2>2 DEF PN!PathOf
  <2> QED BY <2>1, <2>3, <2>4
<1>2. \A m \in Standing : PN!PathOf(m)' = PN!PathOf(m)
  BY SamePath
<1> QED BY <1>1, <1>2 DEF PN!PathsAreKept, Standing

LEMMA KeptByReference ==
  ASSUME PN!PathNodeAssumption, PN!IInv, PN!PathsAreKept,
         UNCHANGED <<parent, pnName, hasToken, tokens, pnPc, dying>>
  PROVE  PN!PathsAreKept'
<1>1. /\ Standing' = Standing
      /\ \A m : /\ PN!Allocated(m)' <=> PN!Allocated(m)
                /\ PN!HasDroppedToken(m)' <=> PN!HasDroppedToken(m)
  BY DEF Standing, PN!HasReleasedParent, PN!HasDroppedToken, PN!Allocated
<1>2. \A m \in Nodes : tokens[m] # << >> => m \in Standing
  BY DEF PN!PathsAreKept, PN!HasDroppedToken, PN!HasReleasedParent, Standing
<1> QED BY <1>1, <1>2, KeepPaths DEF PN!PathsAreKept

LEMMA TokenStands ==
  ASSUME PN!PathsAreKept, NEW m \in Nodes, tokens[m] # << >>
  PROVE  m \in Standing /\ hasToken[m] /\ ~PN!HasDroppedToken(m) /\ tokens[m] = PN!PathOf(m)
BY DEF PN!PathsAreKept, PN!HasDroppedToken, PN!HasReleasedParent, Standing

(* A new node has the address of none that stands.                         *)
LEMMA KeptByNew ==
  ASSUME PN!PathNodeAssumption, PN!IInv, PN!PathsAreKept, NEW h \in Handles, NEW p \in PN!Parents,
         NEW x \in Names, NEW counted, Len(PN!PathOf(p)) < MaxDepth,
         PN!New(h, p, x, counted)
  PROVE  PN!PathsAreKept'
<1>1. PICK n \in Nodes :
        /\ ~PN!Allocated(n)
        /\ parent' = [parent EXCEPT ![n] = p]
        /\ pnName' = [pnName EXCEPT ![n] = x]
        /\ hasToken' = [hasToken EXCEPT ![n] = FALSE]
        /\ UNCHANGED <<tokens, pnPc, dying>>
  BY DEF PN!New
<1>2. p \in Standing \cup {Root}
  BY LiveStands DEF PN!Parents, PN!Held, PN!IInv, PN!TypeOK, PN!LiveIsUsed
<1>3. /\ n \notin Standing
      /\ \A m \in Nodes : m # n => /\ parent'[m] = parent[m] /\ pnName'[m] = pnName[m]
                                   /\ hasToken'[m] = hasToken[m]
                                   /\ PN!Allocated(m)' <=> PN!Allocated(m)
      /\ parent'[n] = p
      /\ \A m : /\ PN!HasReleasedParent(m)' <=> PN!HasReleasedParent(m)
                /\ PN!HasDroppedToken(m)' <=> PN!HasDroppedToken(m)
  BY <1>1 DEF PN!IInv, PN!TypeOK, Standing, PN!Allocated, PN!HasReleasedParent,
              PN!HasDroppedToken
<1>4. \A m \in Standing : parent'[m] = parent[m] /\ pnName'[m] = pnName[m]
  BY <1>3 DEF Standing
<1>5. \A m \in Standing' : m \in Standing \/ m = n
  BY <1>3 DEF Standing
<1>6. ASSUME NEW m \in Nodes, tokens'[m] # << >>
      PROVE  /\ m \in Standing /\ PN!Allocated(m)' /\ hasToken'[m]
             /\ ~PN!HasDroppedToken(m)' /\ tokens'[m] = PN!PathOf(m)
  <2>1. tokens[m] # << >> /\ tokens'[m] = tokens[m]
    BY <1>1, <1>6
  <2>2. m \in Standing /\ hasToken[m] /\ ~PN!HasDroppedToken(m) /\ tokens[m] = PN!PathOf(m)
    BY <2>1, TokenStands
  <2> QED BY <1>3, <2>1, <2>2 DEF Standing
<1> QED BY <1>2, <1>3, <1>4, <1>5, <1>6, KeepPaths

LEMMA KeptByGetPathToken ==
  ASSUME PN!PathNodeAssumption, PN!IInv, PN!PathsAreKept, NEW h \in Handles, PN!GetPathToken(h)
  PROVE  PN!PathsAreKept'
<1>1. PICK n \in Nodes :
        /\ n \in Standing /\ ~PN!IsDying(n)
        /\ hasToken' = [hasToken EXCEPT ![n] = TRUE]
        /\ tokens' = [tokens EXCEPT ![n] = IF @ = << >> THEN PN!PathOf(n) ELSE @]
        /\ UNCHANGED <<pnTable, parent, pnName, pnRefCount, node, pnPc, dying>>
  BY LiveStands DEF PN!GetPathToken, PN!Held, PN!IInv, PN!TypeOK, PN!LiveIsUsed, PN!Live
<1>2. /\ Standing' = Standing
      /\ \A m : /\ PN!Allocated(m)' <=> PN!Allocated(m)
                /\ PN!HasDroppedToken(m)' <=> PN!HasDroppedToken(m)
  BY <1>1 DEF Standing, PN!HasReleasedParent, PN!HasDroppedToken, PN!Allocated
<1>3. ~PN!HasDroppedToken(n)
  BY <1>1 DEF PN!IsDying, PN!HasDroppedToken
<1>4. ASSUME NEW m \in Nodes, tokens'[m] # << >>
      PROVE  /\ m \in Standing /\ PN!Allocated(m)' /\ hasToken'[m]
             /\ ~PN!HasDroppedToken(m)' /\ tokens'[m] = PN!PathOf(m)
  <2>1. CASE m = n
    <3>1. hasToken'[n] /\ PN!Allocated(n)
      BY <1>1 DEF PN!IInv, PN!TypeOK, Standing
    <3>2. tokens'[n] = PN!PathOf(n)
      BY <1>1, TokenStands DEF PN!IInv, PN!TypeOK
    <3> QED BY <1>1, <1>2, <1>3, <2>1, <3>1, <3>2
  <2>2. CASE m # n
    <3>1. tokens[m] # << >> /\ tokens'[m] = tokens[m] /\ hasToken'[m] = hasToken[m]
      BY <1>1, <1>4, <2>2 DEF PN!IInv, PN!TypeOK
    <3>2. m \in Standing /\ hasToken[m] /\ ~PN!HasDroppedToken(m) /\ tokens[m] = PN!PathOf(m)
      BY <3>1, TokenStands
    <3> QED BY <1>2, <3>1, <3>2 DEF Standing
  <2> QED BY <2>1, <2>2
<1> QED BY <1>1, <1>2, <1>4, KeepPaths

(* What the steps of a destruction do to the tokens they leave.            *)
LEMMA KeptByDestroying ==
  ASSUME PN!PathNodeAssumption, PN!IInv, PN!PathsAreKept, UNCHANGED <<parent, pnName, hasToken>>,
         \A m \in Nodes : /\ PN!HasReleasedParent(m) => PN!HasReleasedParent(m)'
                          /\ tokens'[m] # << >> => /\ tokens'[m] = tokens[m]
                                                   /\ ~PN!HasDroppedToken(m)'
  PROVE  PN!PathsAreKept'
<1>1. /\ \A m \in Standing' : m \in Standing
      /\ \A m : PN!Allocated(m)' <=> PN!Allocated(m)
  BY DEF Standing, PN!Allocated
<1>2. ASSUME NEW m \in Nodes, tokens'[m] # << >>
      PROVE  /\ m \in Standing /\ PN!Allocated(m)' /\ hasToken'[m]
             /\ ~PN!HasDroppedToken(m)' /\ tokens'[m] = PN!PathOf(m)
  <2>1. tokens[m] # << >> /\ tokens'[m] = tokens[m] /\ ~PN!HasDroppedToken(m)'
    BY <1>2
  <2>2. m \in Standing /\ hasToken[m] /\ tokens[m] = PN!PathOf(m)
    BY <2>1, TokenStands
  <2> QED BY <1>1, <2>1, <2>2 DEF Standing
<1> QED BY <1>1, <1>2, KeepPaths

LEMMA KeptByRelease ==
  ASSUME PN!PathNodeAssumption, PN!IInv, PN!PathsAreKept, NEW h \in Handles, PN!Release(h)
  PROVE  PN!PathsAreKept'
<1>1. PICK n \in Nodes :
        /\ n = node[h] /\ PN!Live(n) /\ pnPc[h] = "idle"
        /\ UNCHANGED <<pnTable, parent, pnName, hasToken, tokens>>
        /\ \/ /\ dying' = [dying EXCEPT ![h] = <<n>>]
              /\ pnPc' = [pnPc EXCEPT ![h] = "remove"]
           \/ UNCHANGED <<pnPc, dying>>
  BY DEF PN!Release, PN!Held, PN!IInv, PN!TypeOK, PN!LiveIsUsed
<1>2. CASE UNCHANGED <<pnPc, dying>>
  BY <1>1, <1>2, KeptByReference
<1>3. CASE /\ dying' = [dying EXCEPT ![h] = <<n>>]
           /\ pnPc' = [pnPc EXCEPT ![h] = "remove"]
  <2>1. \A m : PN!HasReleasedParent(m)' <=> PN!HasReleasedParent(m)
    BY <1>1, <1>3, StartDying DEF PN!Live
  <2>2. /\ \A u \in Handles \ {h} : dying'[u] = dying[u] /\ pnPc'[u] = pnPc[u]
        /\ dying'[h] = <<n>> /\ pnPc'[h] = "remove" /\ DOMAIN <<n>> = {1}
    BY <1>3 DEF PN!IInv, PN!TypeOK
  <2>3. \A m : PN!HasDroppedToken(m)' => PN!HasDroppedToken(m)
    BY <2>2 DEF PN!HasDroppedToken
  <2> QED BY <1>1, <2>1, <2>3, KeptByDestroying, TokenStands
<1> QED BY <1>1, <1>2, <1>3

LEMMA KeptByRemove ==
  ASSUME PN!PathNodeAssumption, PN!IInv, PN!PathsAreKept, NEW h \in Handles,
         PN!Remove(h) \/ PN!RemovePathToken(h)
  PROVE  PN!PathsAreKept'
<1>1. PICK n \in Nodes, l \in {"token", "parent"} :
        /\ n = Head(dying[h]) /\ pnPc[h] # "idle" /\ pnPc[h] # "free"
        /\ pnPc' = [pnPc EXCEPT ![h] = l]
        /\ UNCHANGED <<parent, pnName, hasToken, dying>>
        /\ l = "token" => tokens' = tokens
        /\ l = "parent" => tokens' = IF hasToken[n] THEN [tokens EXCEPT ![n] = << >>]
                                     ELSE tokens
        /\ l = "token" => pnPc[h] = "remove"
  BY HeadFacts DEF PN!Remove, PN!RemovePathToken
<1>2. \A m : PN!HasReleasedParent(m)' <=> PN!HasReleasedParent(m)
  BY <1>1, MoveOn
<1>3. /\ \A u \in Handles \ {h} : pnPc'[u] = pnPc[u]
      /\ pnPc'[h] = l
  BY <1>1 DEF PN!IInv, PN!TypeOK
<1>4. 1 \in DOMAIN dying[h] /\ Head(dying[h]) = dying[h][1]
      /\ \A i \in DOMAIN dying[h] : i > 1 \/ i = 1
  BY <1>1, HeadFacts
<1>5. ASSUME NEW m \in Nodes, PN!HasDroppedToken(m)'
      PROVE  PN!HasDroppedToken(m) \/ (l = "parent" /\ m = n)
  BY <1>1, <1>3, <1>4, <1>5 DEF PN!HasDroppedToken
<1>6. \A m \in Nodes : tokens'[m] # << >> =>
        /\ tokens'[m] = tokens[m]
        /\ l = "parent" => m # n
  BY <1>1, TokenStands DEF PN!IInv, PN!TypeOK
<1>7. \A m \in Nodes : tokens'[m] # << >> => ~PN!HasDroppedToken(m)'
  BY <1>5, <1>6, TokenStands
<1> QED BY <1>1, <1>2, <1>6, <1>7, KeptByDestroying

LEMMA KeptByReleaseParent ==
  ASSUME PN!PathNodeAssumption, PN!IInv, PN!PathsAreKept, NEW h \in Handles, PN!ReleaseParent(h)
  PROVE  PN!PathsAreKept'
<1>1. PICK n \in Nodes :
        /\ n = Head(dying[h]) /\ pnPc[h] = "parent"
        /\ UNCHANGED <<parent, pnName, hasToken, tokens>>
        /\ n \in Standing
  BY HeadFacts DEF PN!ReleaseParent, Standing
<1>2. 1 \in DOMAIN dying[h] /\ Head(dying[h]) = dying[h][1] /\ dying[h] \in Seq(Nodes)
      /\ \A i \in DOMAIN dying[h] : i > 1 \/ i = 1
  BY <1>1, HeadFacts
<1>3. CASE pnPc' = [pnPc EXCEPT ![h] = "free"] /\ UNCHANGED dying
  <2>1. \A m : PN!HasReleasedParent(m) => PN!HasReleasedParent(m)'
    BY <1>1, <1>3, MoveOn
  <2>2. /\ \A u \in Handles \ {h} : pnPc'[u] = pnPc[u]
        /\ pnPc'[h] = "free"
    BY <1>3 DEF PN!IInv, PN!TypeOK
  <2>3. \A m : PN!HasDroppedToken(m)' => PN!HasDroppedToken(m)
    BY <1>1, <1>3, <2>2 DEF PN!HasDroppedToken
  <2> QED BY <1>1, <2>1, <2>3, KeptByDestroying, TokenStands
<1>4. CASE ~(pnPc' = [pnPc EXCEPT ![h] = "free"] /\ UNCHANGED dying)
  <2>1. PICK p \in Nodes : /\ p = parent[n] /\ PN!Live(p)
                           /\ dying' = [dying EXCEPT ![h] = <<p>> \o @]
                           /\ pnPc' = [pnPc EXCEPT ![h] = "remove"]
    <3>1. /\ parent[n] # Root
          /\ dying' = [dying EXCEPT ![h] = <<parent[n]>> \o @]
          /\ pnPc' = [pnPc EXCEPT ![h] = "remove"]
      BY <1>1, <1>4 DEF PN!ReleaseParent
    <3> QED BY <1>1, <3>1, ParentStands DEF Standing
  <2>2. \A m : PN!HasReleasedParent(m) => PN!HasReleasedParent(m)'
    BY <1>1, <2>1, ParentGoesFirst DEF PN!Live
  <2>3. /\ \A u \in Handles \ {h} : dying'[u] = dying[u] /\ pnPc'[u] = pnPc[u]
        /\ dying'[h] = <<p>> \o dying[h] /\ pnPc'[h] = "remove"
    BY <2>1 DEF PN!IInv, PN!TypeOK
  <2>4. \A i \in DOMAIN dying'[h] : i > 1 =>
          i - 1 \in DOMAIN dying[h] /\ dying'[h][i] = dying[h][i - 1]
    BY <1>2, <2>3
  <2>5. ASSUME NEW m, PN!HasDroppedToken(m)' PROVE PN!HasDroppedToken(m)
    <3>1. PICK u \in Handles : \E i \in DOMAIN dying'[u] :
           dying'[u][i] = m /\ (i > 1 \/ pnPc'[u] \in {"parent", "free"})
      BY <2>5 DEF PN!HasDroppedToken
    <3>2. CASE u = h
      <4>1. PICK i \in DOMAIN dying'[h] : dying'[h][i] = m /\ i > 1
        BY <2>3, <3>1, <3>2
      <4>2. i - 1 \in DOMAIN dying[h] /\ dying[h][i - 1] = m
        BY <2>4, <4>1
      <4> QED BY <1>1, <4>2 DEF PN!HasDroppedToken
    <3>3. CASE u # h
      BY <2>3, <3>1, <3>3 DEF PN!HasDroppedToken
    <3> QED BY <3>2, <3>3
  <2> QED BY <1>1, <2>2, <2>5, KeptByDestroying, TokenStands
<1> QED BY <1>3, <1>4

LEMMA KeptByFree ==
  ASSUME PN!PathNodeAssumption, PN!IInv, PN!PathsAreKept, NEW h \in Handles, PN!Free(h)
  PROVE  PN!PathsAreKept'
<1>1. PICK n \in Nodes :
        /\ n = Head(dying[h]) /\ pnPc[h] = "free" /\ PN!HasReleasedParent(n)
        /\ pnName' = [pnName EXCEPT ![n] = None]
        /\ parent' = [parent EXCEPT ![n] = None]
        /\ hasToken' = [hasToken EXCEPT ![n] = FALSE]
        /\ dying' = [dying EXCEPT ![h] = Tail(@)]
        /\ pnPc' = [pnPc EXCEPT ![h] = IF Len(dying[h]) = 1 THEN "idle" ELSE "free"]
        /\ UNCHANGED tokens
  BY HeadFacts DEF PN!Free
<1>2. \A m : PN!HasReleasedParent(m)' <=> PN!HasReleasedParent(m) /\ m # n
  BY <1>1, HeadGoes
<1>3. /\ dying[h] \in Seq(Nodes) /\ dying[h] # << >> /\ 1 \in DOMAIN dying[h]
      /\ n = dying[h][1]
  BY <1>1, HeadFacts
<1>4. /\ \A u \in Handles \ {h} : dying'[u] = dying[u] /\ pnPc'[u] = pnPc[u]
      /\ dying'[h] = Tail(dying[h])
  BY <1>1 DEF PN!IInv, PN!TypeOK
<1>5. \A i \in DOMAIN dying'[h] : i + 1 \in DOMAIN dying[h]
                                  /\ dying'[h][i] = dying[h][i + 1]
  BY <1>3, <1>4, HeadTailProperties
<1>6. ASSUME NEW m, PN!HasDroppedToken(m)' PROVE PN!HasDroppedToken(m)
  <2>1. PICK u \in Handles : \E i \in DOMAIN dying'[u] :
         dying'[u][i] = m /\ (i > 1 \/ pnPc'[u] \in {"parent", "free"})
    BY <1>6 DEF PN!HasDroppedToken
  <2>2. CASE u = h
    BY <1>1, <1>5, <2>1, <2>2 DEF PN!HasDroppedToken
  <2>3. CASE u # h
    BY <1>4, <2>1, <2>3 DEF PN!HasDroppedToken
  <2> QED BY <2>2, <2>3
<1>7. n \notin Standing
  BY <1>1 DEF Standing
<1>8. /\ \A m \in Nodes : m # n => /\ parent'[m] = parent[m] /\ pnName'[m] = pnName[m]
                                   /\ hasToken'[m] = hasToken[m]
                                   /\ PN!Allocated(m)' <=> PN!Allocated(m)
      /\ pnName'[n] = None
  BY <1>1 DEF PN!IInv, PN!TypeOK, PN!Allocated
<1>9. \A m \in Standing : parent'[m] = parent[m] /\ pnName'[m] = pnName[m]
  BY <1>7, <1>8 DEF Standing
<1>10. \A m \in Standing' : m \in Standing
  BY <1>2, <1>8 DEF Standing, PN!Allocated
<1>11. ASSUME NEW m \in Nodes, tokens'[m] # << >>
       PROVE  /\ m \in Standing /\ PN!Allocated(m)' /\ hasToken'[m]
              /\ ~PN!HasDroppedToken(m)' /\ tokens'[m] = PN!PathOf(m)
  <2>1. tokens[m] # << >> /\ tokens'[m] = tokens[m]
    BY <1>1, <1>11
  <2>2. m \in Standing /\ hasToken[m] /\ ~PN!HasDroppedToken(m) /\ tokens[m] = PN!PathOf(m)
    BY <2>1, TokenStands
  <2> QED BY <1>6, <1>7, <1>8, <2>1, <2>2 DEF Standing
<1> QED BY <1>9, <1>10, <1>11, KeepPaths

LEMMA PathsStep ==
  ASSUME PN!PathNodeAssumption, PN!IInv, PN!PathsAreKept, [PN!Next]_PN!vars
  PROVE  PN!PathsAreKept'
<1>1. CASE UNCHANGED PN!vars
  BY <1>1, KeptByReference DEF PN!vars
<1>2. ASSUME NEW h \in Handles, PN!Step(h) PROVE PN!PathsAreKept'
  <2>1. ASSUME NEW p \in PN!Parents, NEW x \in Names, PN!FindOrCreate(h, p, x)
        PROVE  PN!PathsAreKept'
    <3>1. CASE PN!FindLive(h, p, x)
      BY <3>1, KeptByReference DEF PN!FindLive
    <3>2. CASE PN!ReplaceDying(h, p, x) \/ PN!Create(h, p, x)
      BY <2>1, <3>2, KeptByNew DEF PN!FindOrCreate, PN!ReplaceDying, PN!Create
    <3> QED BY <2>1, <3>1, <3>2 DEF PN!FindOrCreate
  <2>2. CASE \E u \in Handles : PN!CopyHandle(h, u) \/ PN!GetParent(h, u)
    BY <2>2, KeptByReference DEF PN!CopyHandle, PN!GetParent, PN!AddRef
  <2>3. CASE PN!Destroy(h)
    BY <2>3, KeptByRemove, KeptByReleaseParent, KeptByFree DEF PN!Destroy
  <2> QED BY <1>2, <2>1, <2>2, <2>3, KeptByGetPathToken, KeptByRelease DEF PN!Step
<1> QED BY <1>1, <1>2 DEF PN!Next

LEMMA PathsInit == PN!PathNodeAssumption /\ PN!Init => PN!PathsAreKept
BY DEF PN!Init, PN!PathsAreKept, PN!Allocated

(* The table of path tokens and every other is exact.                      *)
THEOREM PathNodesExact == PN!PathNodeAssumption /\ PN!Spec => []PN!NodesAreExact
<1>1. PN!PathNodeAssumption /\ PN!Init => PN!PathNodeAssumption /\ PN!IInv /\ PN!PathsAreKept
  BY NodeInitInvariant, PathsInit
<1>2. PN!PathNodeAssumption /\ PN!IInv /\ PN!PathsAreKept /\ [PN!Next]_PN!vars
        => (PN!PathNodeAssumption /\ PN!IInv /\ PN!PathsAreKept)'
  BY NodeNextInvariant, PathsStep DEF PN!PathNodeAssumption
<1>3. PN!IInv /\ PN!PathsAreKept => PN!NodesAreExact
  BY DEF PN!IInv, PN!PathsAreKept, PN!NodesAreExact, PN!TokensAreFresh
<1>. QED  BY <1>1, <1>2, <1>3, PTL DEF PN!Spec

-----------------------------------------------------------------------------
(***************************************************************************)
(* What a step does to the handles' pointers: the sharing they see.        *)
(***************************************************************************)
NodeUsed(n)   == \E h \in Handles : node[h] = n
PathInUse == [n \in Nodes |-> IF \E h \in Handles : node[h] = n THEN PN!PathOf(n) ELSE None]

LEMMA LivePath ==
  ASSUME PN!PathNodeAssumption, PN!IInv, PN!PathsAreKept, NEW n \in Nodes, PN!Live(n)
  PROVE  /\ n \in Standing /\ pnName[n] \in Names
         /\ parent[n] = Root \/ (parent[n] \in Nodes /\ PN!Live(parent[n]))
         /\ PN!PathOf(parent[n]) \in Seq(Names) /\ Len(PN!PathOf(parent[n])) < MaxDepth
         /\ PN!PathOf(n) = Append(PN!PathOf(parent[n]), pnName[n])
         /\ PN!PathOf(n) \in PN!Paths /\ PN!PathOf(n) # None /\ PN!PathOf(n) # << >>
         /\ pnTable[<<parent[n], pnName[n]>>] = n
<1>1. n \in Standing
  BY LiveStands
<1>2. /\ parent[n] = Root \/ (parent[n] \in Standing /\ PN!Live(parent[n]))
      /\ pnName[n] \in Names
  BY <1>1, ParentStands
<1>3. parent[n] = Root \/ (parent[n] \in Nodes /\ PN!Live(parent[n]))
  BY <1>2 DEF Standing
<1>4. PN!PathOf(parent[n]) \in Seq(Names)
  BY <1>2, PathType
<1>5. Len(PN!PathOf(parent[n])) < MaxDepth
  BY <1>1 DEF PN!PathsAreKept, Standing
<1>6. /\ PN!PathOf(n) = Append(PN!PathOf(parent[n]), pnName[n])
      /\ PN!PathOf(n) # << >> /\ PN!PathOf(n) \in PN!Paths
  BY <1>1, <1>5, PathOfNode
<1>7. PN!PathOf(n) # None
  BY <1>6 DEF PN!PathNodeAssumption
<1>8. pnTable[<<parent[n], pnName[n]>>] = n
  BY CountFacts DEF PN!IInv
<1> QED BY <1>1, <1>2, <1>3, <1>4, <1>5, <1>6, <1>7, <1>8

(* Nodes that live and have the same path are the same, by induction on    *)
(* the path.                                                               *)
LEMMA OnePath ==
  ASSUME PN!PathNodeAssumption, PN!IInv, PN!PathsAreKept,
         NEW a \in Nodes \cup {Root}, a = Root \/ PN!Live(a),
         NEW b \in Nodes \cup {Root}, b = Root \/ PN!Live(b),
         PN!PathOf(a) = PN!PathOf(b)
  PROVE  a = b
<1>. DEFINE L == {n \in Nodes \cup {Root} : n = Root \/ PN!Live(n)}
            G == {i \in Nat : \A m, n \in L :
                    Len(PN!PathOf(m)) = i /\ PN!PathOf(m) = PN!PathOf(n) => m = n}
<1>1. \A n \in L : n # Root => n \in Nodes /\ PN!Live(n)
  OBVIOUS
<1>2. \A n \in L : PN!PathOf(n) \in Seq(Names)
  <2>1. \A n \in L : n \in Standing \cup {Root}
    BY <1>1, LiveStands
  <2> QED BY <2>1, PathType
<1>3. \A n \in L : n # Root => /\ parent[n] \in L /\ pnName[n] \in Names
                               /\ PN!PathOf(n) = Append(PN!PathOf(parent[n]), pnName[n])
                               /\ PN!PathOf(n) # << >>
                               /\ pnTable[<<parent[n], pnName[n]>>] = n
  BY <1>1, LivePath
<1>. HIDE DEF L
<1>4. ASSUME NEW m \in L, NEW n \in L, PN!PathOf(m) = PN!PathOf(n), m = Root \/ n = Root
      PROVE  m = n
  BY <1>3, <1>4, PathOfRoot
<1>5. 0 \in G
  <2>1. ASSUME NEW m \in L, Len(PN!PathOf(m)) = 0 PROVE m = Root
    <3>1. PN!PathOf(m) = << >>
      BY <1>2, <2>1, EmptySeq
    <3> QED BY <1>3, <3>1
  <2> QED BY <1>4, <2>1
<1>6. ASSUME NEW i \in Nat, i \in G PROVE i + 1 \in G
  <2> SUFFICES ASSUME NEW m \in L, NEW n \in L,
                      Len(PN!PathOf(m)) = i + 1, PN!PathOf(m) = PN!PathOf(n),
                      m # Root, n # Root
               PROVE  m = n
    BY <1>4
  <2>1. /\ PN!PathOf(m) = Append(PN!PathOf(parent[m]), pnName[m])
        /\ PN!PathOf(n) = Append(PN!PathOf(parent[n]), pnName[n])
        /\ parent[m] \in L /\ parent[n] \in L
        /\ pnName[m] \in Names /\ pnName[n] \in Names
        /\ PN!PathOf(parent[m]) \in Seq(Names) /\ PN!PathOf(parent[n]) \in Seq(Names)
    BY <1>2, <1>3
  <2>2. PN!PathOf(parent[m]) = PN!PathOf(parent[n]) /\ pnName[m] = pnName[n]
    <3>1. Append(PN!PathOf(parent[m]), pnName[m]) = Append(PN!PathOf(parent[n]), pnName[n])
      BY <2>1
    <3> QED BY <2>1, <3>1, AppendInjective
  <2>3. Len(PN!PathOf(parent[m])) = i
    BY <2>1
  <2>4. parent[m] = parent[n]
    BY <1>6, <2>1, <2>2, <2>3
  <2> QED BY <1>3, <2>2, <2>4
<1>7. a \in L /\ b \in L
  BY DEF L
<1>8. Len(PN!PathOf(a)) \in Nat
  BY <1>2, <1>7
<1>. HIDE DEF G
<1>9. Len(PN!PathOf(a)) \in G
  BY <1>5, <1>6, <1>8, Induction
<1> QED BY <1>7, <1>9 DEF G

LEMMA UsedPath ==
  ASSUME PN!PathNodeAssumption, PN!IInv, PN!PathsAreKept, NEW n \in Nodes
  PROVE  /\ PathInUse[n] = None <=> ~NodeUsed(n)
         /\ NodeUsed(n) => PN!Live(n) /\ PathInUse[n] = PN!PathOf(n)
<1>1. NodeUsed(n) => PN!Live(n)
  BY DEF NodeUsed, PN!IInv, PN!LiveIsUsed, PN!PathNodeAssumption
<1> QED BY <1>1, LivePath DEF PathInUse, NodeUsed

LEMMA OnePathChanges ==
  ASSUME NEW n \in Nodes, NEW s, PathInUse'[n] = s,
         \A m \in Nodes \ {n} : PathInUse'[m] = PathInUse[m]
  PROVE  PathInUse' = [PathInUse EXCEPT ![n] = s]
<1> DEFINE f == [PathInUse EXCEPT ![n] = s]
<1>1. PathInUse' = [m \in Nodes |-> PathInUse'[m]]
  BY DEF PathInUse
<1>2. f = [m \in Nodes |-> f[m]] /\ \A m \in Nodes : f[m] = PathInUse'[m]
  BY DEF PathInUse
<1>. QED  BY <1>1, <1>2

(* Nobody else loses a path, when one handle changes.                      *)
LEMMA OthersKeepPaths ==
  ASSUME PN!PathNodeAssumption, PN!IInv, PN!PathsAreKept, NEW n \in Nodes,
         \A m \in Nodes \ {n} : NodeUsed(m)' <=> NodeUsed(m),
         \A m \in Standing : parent'[m] = parent[m] /\ pnName'[m] = pnName[m],
         NEW m \in Nodes \ {n}
  PROVE  PathInUse'[m] = PathInUse[m]
<1>1. NodeUsed(m) => PN!PathOf(m)' = PN!PathOf(m)
  BY UsedPath, LivePath, SamePath
<1> QED BY <1>1 DEF PathInUse, NodeUsed

(* A handle gets a node that lives: of a path in use, or not.              *)
LEMMA ReferenceShares ==
  ASSUME PN!PathNodeAssumption, PN!IInv, PN!PathsAreKept, NEW h \in Handles, NEW n \in Nodes,
         PN!Live(n), PN!AddRef(h, n)
  PROVE  PN!Sharing!Next
<1>1. /\ node[h] = None /\ node' = [node EXCEPT ![h] = n]
      /\ UNCHANGED <<parent, pnName>> /\ n # None
  BY DEF PN!AddRef, PN!Empty, PN!PathNodeAssumption
<1>2. NodeUsed(n)' /\ \A m \in Nodes \ {n} : NodeUsed(m)' <=> NodeUsed(m)
  BY <1>1 DEF NodeUsed, PN!IInv, PN!TypeOK, PN!PathNodeAssumption
<1>3. \A m \in Nodes \ {n} : PathInUse'[m] = PathInUse[m]
  BY <1>1, <1>2, OthersKeepPaths
<1>4. PN!PathOf(n)' = PN!PathOf(n)
  BY <1>1, LivePath, SamePath
<1>5. PathInUse'[n] = PN!PathOf(n)
  BY <1>2, <1>4 DEF PathInUse, NodeUsed
<1>6. PathInUse' = [PathInUse EXCEPT ![n] = PN!PathOf(n)]
  BY <1>3, <1>5, OnePathChanges
<1>7. CASE NodeUsed(n)
  <2>1. PathInUse[n] = PN!PathOf(n) /\ PathInUse[n] # None
    BY <1>7, UsedPath
  <2>2. PathInUse' = PathInUse
    BY <1>6, <2>1 DEF PathInUse
  <2>3. PN!Sharing!Join(h, n)
    BY <1>1, <2>1, <2>2 DEF PN!Sharing!Join, PathInUse
  <2> QED BY <2>3 DEF PN!Sharing!Next
<1>8. CASE ~NodeUsed(n)
  <2>1. PathInUse[n] = None /\ PN!PathOf(n) \in PN!Paths /\ PN!PathOf(n) # None
    BY <1>8, UsedPath, LivePath
  <2>2. \A m \in Nodes : PathInUse[m] # PN!PathOf(n)
    <3>1. ASSUME NEW m \in Nodes, PathInUse[m] = PN!PathOf(n) PROVE FALSE
      <4>1. NodeUsed(m) /\ PN!Live(m) /\ PN!PathOf(m) = PN!PathOf(n)
        BY <2>1, <3>1, UsedPath
      <4>2. m = n
        BY <4>1, OnePath
      <4> QED BY <1>8, <4>1, <4>2
    <3> QED BY <3>1
  <2>3. PICK k \in PN!Paths : k = PN!PathOf(n)
    BY <2>1
  <2>4. PN!Sharing!New(h, n)
    BY <1>1, <1>6, <2>1, <2>2, <2>3 DEF PN!Sharing!New, PathInUse
  <2> QED BY <2>4 DEF PN!Sharing!Next
<1> QED BY <1>7, <1>8

(* A node is made for a path that no node in use has.                      *)
LEMMA NewShares ==
  ASSUME PN!PathNodeAssumption, PN!IInv, PN!PathsAreKept, NEW h \in Handles, NEW p \in PN!Parents,
         NEW x \in Names, NEW counted, PN!Empty(h), Len(PN!PathOf(p)) < MaxDepth,
         pnTable[<<p, x>>] # None => ~PN!Live(pnTable[<<p, x>>]),
         PN!New(h, p, x, counted)
  PROVE  PN!Sharing!Next
<1>1. PICK n \in Nodes :
        /\ ~PN!Allocated(n) /\ node[h] = None /\ n # None
        /\ parent' = [parent EXCEPT ![n] = p]
        /\ pnName' = [pnName EXCEPT ![n] = x]
        /\ node' = [node EXCEPT ![h] = n]
        /\ UNCHANGED <<pnPc, dying>>
  BY DEF PN!New, PN!Empty, PN!PathNodeAssumption
<1>2. p \in Nodes \cup {Root} /\ (p = Root \/ PN!Live(p)) /\ p \in Standing \cup {Root}
  BY LiveStands DEF PN!Parents, PN!Held, PN!IInv, PN!TypeOK, PN!LiveIsUsed
<1>3. ~NodeUsed(n) /\ n \notin Standing
  BY <1>1, UsedPath DEF PN!Live, Standing
<1>4. /\ \A m \in Standing : parent'[m] = parent[m] /\ pnName'[m] = pnName[m]
      /\ parent'[n] = p /\ pnName'[n] = x
  BY <1>1, <1>3 DEF PN!IInv, PN!TypeOK, Standing
<1>5. NodeUsed(n)' /\ \A m \in Nodes \ {n} : NodeUsed(m)' <=> NodeUsed(m)
  BY <1>1 DEF NodeUsed, PN!IInv, PN!TypeOK, PN!PathNodeAssumption
<1>6. \A m \in Nodes \ {n} : PathInUse'[m] = PathInUse[m]
  BY <1>4, <1>5, OthersKeepPaths
<1>7. PN!PathOf(p)' = PN!PathOf(p) /\ PN!PathOf(p) \in Seq(Names)
  BY <1>2, <1>4, SamePath, PathType
<1>8. PN!PathOf(n)' = Append(PN!PathOf(p), x) /\ PN!PathOf(n)' \in PN!Paths
  <2>1. /\ n \in Ends /\ p \in Ends /\ p \in Standing \cup (Ends \ Nodes)
        /\ MaxDepth \in Nat /\ MaxDepth # 0 /\ MaxDepth - 1 \in 0..MaxDepth
        /\ MaxDepth - 1 \in Nat /\ (MaxDepth - 1) + 1 = MaxDepth /\ MaxDepth \in 0..MaxDepth
    BY <1>2 DEF Ends, PN!PathNodeAssumption
  <2>2. /\ IsLine(PN!Line, MaxDepth, parent, pnName) /\ IsLine(PN!Line', MaxDepth, parent', pnName')
    BY LineIsOne
  <2>3. PN!Line'[MaxDepth][n] = IF MaxDepth = 0 \/ n \notin Nodes THEN << >>
                             ELSE Append(PN!Line'[MaxDepth - 1][parent'[n]], pnName'[n])
    BY <2>1, <2>2, LineValue
  <2>4. PN!Line[MaxDepth - 1][p] = PN!Line'[MaxDepth - 1][p]
    BY <1>4, <2>1, <2>2, StandingClosed, SameLine
  <2>5. Len(PN!Line[MaxDepth][p]) <= MaxDepth - 1
    BY <1>7, <2>1 DEF PN!PathOf
  <2>6. PN!Line[MaxDepth - 1][p] = PN!Line[MaxDepth][p]
    <3>1. parent \in [Nodes -> Ends]
      BY DEF PN!IInv, PN!TypeOK, Ends
    <3> QED BY <2>1, <2>2, <2>5, <3>1, ShortLine
  <2>7. PN!PathOf(n)' = Append(PN!PathOf(p), x)
    BY <1>4, <2>1, <2>3, <2>4, <2>6 DEF PN!PathOf
  <2>8. /\ Append(PN!PathOf(p), x) \in Seq(Names)
        /\ Len(Append(PN!PathOf(p), x)) = Len(PN!PathOf(p)) + 1
        /\ Len(PN!PathOf(p)) \in Nat
    BY <1>7
  <2>. DEFINE q == Append(PN!PathOf(p), x)
  <2>. HIDE DEF q
  <2>9. q \in Seq(Names) /\ Len(q) \in 1..MaxDepth
    BY <2>1, <2>8 DEF q
  <2>10. q \in [1..Len(q) -> Names]
    BY <2>9
  <2>11. q \in PN!Paths
    BY <2>9, <2>10 DEF PN!Paths
  <2> QED BY <2>7, <2>11 DEF q
<1>9. PathInUse'[n] = Append(PN!PathOf(p), x)
  BY <1>5, <1>8 DEF PathInUse, NodeUsed
<1>10. PathInUse' = [PathInUse EXCEPT ![n] = Append(PN!PathOf(p), x)]
  BY <1>6, <1>9, OnePathChanges
<1>11. PathInUse[n] = None
  BY <1>3, UsedPath
<1>12. ASSUME NEW m \in Nodes, PathInUse[m] = Append(PN!PathOf(p), x)
       PROVE  FALSE
  <2>1. Append(PN!PathOf(p), x) # None
    BY <1>8 DEF PN!PathNodeAssumption
  <2>2. NodeUsed(m) /\ PN!Live(m) /\ PN!PathOf(m) = Append(PN!PathOf(p), x)
    BY <1>12, <2>1, UsedPath
  <2>3. /\ PN!PathOf(m) = Append(PN!PathOf(parent[m]), pnName[m]) /\ pnName[m] \in Names
        /\ PN!PathOf(parent[m]) \in Seq(Names)
        /\ parent[m] = Root \/ (parent[m] \in Nodes /\ PN!Live(parent[m]))
        /\ pnTable[<<parent[m], pnName[m]>>] = m
    BY <2>2, LivePath
  <2>4. PN!PathOf(parent[m]) = PN!PathOf(p) /\ pnName[m] = x
    <3>1. Append(PN!PathOf(parent[m]), pnName[m]) = Append(PN!PathOf(p), x)
      BY <2>2, <2>3
    <3> QED BY <1>7, <2>3, <3>1, AppendInjective
  <2>5. parent[m] = p
    BY <1>2, <2>3, <2>4, OnePath
  <2> QED BY <2>2, <2>3, <2>4, <2>5 DEF PN!PathNodeAssumption
<1>13. PICK k \in PN!Paths : k = Append(PN!PathOf(p), x)
  BY <1>8
<1>14. PN!Sharing!New(h, n)
  BY <1>1, <1>10, <1>11, <1>12, <1>13 DEF PN!Sharing!New, PathInUse
<1> QED BY <1>14 DEF PN!Sharing!Next

LEMMA NodeReleaseLeaves ==
  ASSUME PN!PathNodeAssumption, PN!IInv, PN!PathsAreKept, NEW h \in Handles, PN!Release(h)
  PROVE  PN!Sharing!Next
<1>1. PICK n \in Nodes :
        /\ n = node[h] /\ n # None /\ node' = [node EXCEPT ![h] = None]
        /\ UNCHANGED <<parent, pnName>>
  BY DEF PN!Release, PN!Held, PN!IInv, PN!TypeOK
<1>2. /\ NodeUsed(n)' <=> \E u \in Handles \ {h} : node[u] = n
      /\ \A m \in Nodes \ {n} : NodeUsed(m)' <=> NodeUsed(m)
  BY <1>1 DEF NodeUsed, PN!IInv, PN!TypeOK, PN!PathNodeAssumption
<1>3. \A m \in Nodes \ {n} : PathInUse'[m] = PathInUse[m]
  BY <1>1, <1>2, OthersKeepPaths
<1>4. NodeUsed(n) /\ PathInUse[n] = PN!PathOf(n) /\ PN!PathOf(n)' = PN!PathOf(n)
  <2>1. NodeUsed(n)
    BY <1>1 DEF NodeUsed
  <2> QED BY <1>1, <2>1, UsedPath, LivePath, SamePath
<1>5. CASE \E u \in Handles \ {h} : node[u] = n
  <2>1. PathInUse'[n] = PathInUse[n]
    BY <1>2, <1>4, <1>5 DEF PathInUse, NodeUsed
  <2>2. PathInUse' = PathInUse
    BY <1>3, <2>1 DEF PathInUse
  <2>3. PN!Sharing!Leave(h)
    BY <1>1, <1>5, <2>2 DEF PN!Sharing!Leave, PathInUse
  <2> QED BY <2>3 DEF PN!Sharing!Next
<1>6. CASE ~\E u \in Handles \ {h} : node[u] = n
  <2>1. PathInUse'[n] = None
    BY <1>2, <1>6 DEF PathInUse, NodeUsed
  <2>2. PathInUse' = [PathInUse EXCEPT ![n] = None]
    BY <1>3, <2>1, OnePathChanges
  <2>3. PN!Sharing!Leave(h)
    BY <1>1, <1>6, <2>2 DEF PN!Sharing!Leave, PathInUse
  <2> QED BY <2>3 DEF PN!Sharing!Next
<1> QED BY <1>5, <1>6

LEMMA UnusedChanges ==
  ASSUME PN!PathNodeAssumption, PN!IInv, PN!PathsAreKept, UNCHANGED node,
         \A m \in Standing : parent'[m] = parent[m] /\ pnName'[m] = pnName[m]
  PROVE  UNCHANGED <<node, PathInUse>>
<1>1. ASSUME NEW m \in Nodes PROVE PathInUse'[m] = PathInUse[m]
  <2>1. NodeUsed(m)' <=> NodeUsed(m)
    BY DEF NodeUsed
  <2>2. NodeUsed(m) => PN!PathOf(m)' = PN!PathOf(m)
    BY UsedPath, LivePath, SamePath
  <2> QED BY <2>1, <2>2 DEF PathInUse, NodeUsed
<1>2. PathInUse' = [m \in Nodes |-> PathInUse'[m]]
      /\ PathInUse = [m \in Nodes |-> PathInUse[m]]
  BY DEF PathInUse
<1> QED BY <1>1, <1>2

LEMMA NodeSharingStep ==
  ASSUME PN!PathNodeAssumption, PN!IInv, PN!PathsAreKept, [PN!Next]_PN!vars
  PROVE  [PN!Sharing!Next]_<<node, PathInUse>>
<1>1. ASSUME UNCHANGED <<node, parent, pnName>>
      PROVE  UNCHANGED <<node, PathInUse>>
  BY <1>1, UnusedChanges
<1>2. CASE UNCHANGED PN!vars
  BY <1>1, <1>2 DEF PN!vars
<1>3. ASSUME NEW h \in Handles, PN!Step(h)
      PROVE  PN!Sharing!Next \/ UNCHANGED <<node, PathInUse>>
  <2>1. ASSUME NEW p \in PN!Parents, NEW x \in Names, PN!FindOrCreate(h, p, x)
        PROVE  PN!Sharing!Next
    <3>1. <<p, x>> \in PN!Keys
      BY DEF PN!IInv, PN!TypeOK, PN!Parents, PN!Held, PN!Keys
    <3>2. CASE PN!FindLive(h, p, x)
      <4>1. PN!AddRef(h, pnTable[<<p, x>>])
        BY <3>2 DEF PN!FindLive, PN!AddRef
      <4>2. pnTable[<<p, x>>] \in Nodes /\ PN!Live(pnTable[<<p, x>>])
        BY <3>1, <3>2, EntryFacts DEF PN!FindLive
      <4> QED BY <4>1, <4>2, ReferenceShares
    <3>3. CASE PN!ReplaceDying(h, p, x)
      <4>1. PN!Empty(h) /\ ~PN!Live(pnTable[<<p, x>>])
        BY <3>1, <3>3, EntryFacts DEF PN!ReplaceDying
      <4> QED BY <2>1, <3>3, <4>1, NewShares DEF PN!ReplaceDying, PN!FindOrCreate
    <3>4. CASE PN!Create(h, p, x)
      BY <2>1, <3>4, NewShares DEF PN!Create, PN!FindOrCreate
    <3> QED BY <2>1, <3>2, <3>3, <3>4 DEF PN!FindOrCreate
  <2>2. ASSUME NEW u \in Handles, PN!CopyHandle(h, u) \/ PN!GetParent(h, u)
        PROVE  PN!Sharing!Next
    <3>1. node[u] \in Nodes /\ PN!Live(node[u])
      BY <2>2 DEF PN!CopyHandle, PN!GetParent, PN!Held, PN!IInv, PN!TypeOK,
                  PN!LiveIsUsed
    <3>2. CASE PN!CopyHandle(h, u)
      BY <3>1, <3>2, ReferenceShares DEF PN!CopyHandle
    <3>3. CASE PN!GetParent(h, u)
      <4>1. parent[node[u]] \in Nodes /\ PN!Live(parent[node[u]])
        BY <3>1, <3>3, LivePath DEF PN!GetParent
      <4> QED BY <3>3, <4>1, ReferenceShares DEF PN!GetParent
    <3> QED BY <2>2, <3>2, <3>3
  <2>3. CASE PN!GetPathToken(h) \/ PN!Remove(h) \/ PN!RemovePathToken(h) \/ PN!ReleaseParent(h)
    BY <1>1, <2>3 DEF PN!GetPathToken, PN!Remove, PN!RemovePathToken, PN!ReleaseParent
  <2>4. CASE PN!Free(h)
    <3>1. PICK n \in Nodes : /\ PN!HasReleasedParent(n) /\ UNCHANGED node
                             /\ pnName' = [pnName EXCEPT ![n] = None]
                             /\ parent' = [parent EXCEPT ![n] = None]
      BY <2>4, HeadFacts DEF PN!Free
    <3>2. \A m \in Standing : parent'[m] = parent[m] /\ pnName'[m] = pnName[m]
      BY <3>1 DEF Standing, PN!IInv, PN!TypeOK
    <3> QED BY <3>1, <3>2, UnusedChanges
  <2> QED BY <1>3, <2>1, <2>2, <2>3, <2>4, NodeReleaseLeaves DEF PN!Step, PN!Destroy
<1> QED BY <1>2, <1>3 DEF PN!Next

(***************************************************************************)
(* The nodes implement the sharing of one object per key: while handles of *)
(* a path are in use, they have one node.                                  *)
(***************************************************************************)
THEOREM NodesAreShared == PN!PathNodeAssumption /\ PN!Spec => PN!ImplementsSharing
<1>1. PN!PathNodeAssumption /\ PN!Init => PN!PathNodeAssumption /\ PN!IInv /\ PN!PathsAreKept
  BY NodeInitInvariant, PathsInit
<1>2. PN!PathNodeAssumption /\ PN!IInv /\ PN!PathsAreKept /\ [PN!Next]_PN!vars
        => (PN!PathNodeAssumption /\ PN!IInv /\ PN!PathsAreKept)'
  BY NodeNextInvariant, PathsStep DEF PN!PathNodeAssumption
<1>3. PN!PathNodeAssumption /\ PN!Init => PN!Sharing!Init
  BY DEF PN!Init, PN!Sharing!Init, PN!PathNodeAssumption
<1>4. PN!PathNodeAssumption /\ PN!IInv /\ PN!PathsAreKept /\ [PN!Next]_PN!vars
        => [PN!Sharing!Next]_<<node, PathInUse>>
  BY NodeSharingStep
<1>. QED
  BY <1>1, <1>2, <1>3, <1>4, PTL
  DEF PN!Spec, PN!ImplementsSharing, PN!Sharing!Spec, PathInUse

-----------------------------------------------------------------------------
(***************************************************************************)
(* Filtering a sequence: f[k] has the elements of the first k that are at  *)
(* good places, up to n.                                                   *)
(***************************************************************************)
IsFilter(f, s, good, n) ==
  f = [k \in 0..n |-> IF k = 0 THEN << >>
                      ELSE IF k \in good THEN Append(f[k - 1], s[k])
                      ELSE f[k - 1]]

(* The sequence r is of the good ones of the first n of s in their order:  *)
(* g says where they were.                                                 *)
Embeds(g, r, s, good, n) ==
  /\ g \in [1..Len(r) -> good \cap 1..n]
  /\ \A i, j \in 1..Len(r) : i < j => g[i] < g[j]
  /\ \A i \in 1..Len(r) : r[i] = s[g[i]]
  /\ \A k \in good \cap 1..n : \E i \in 1..Len(r) : g[i] = k

LEMMA FilterExists ==
  ASSUME NEW s, NEW good, NEW m \in Nat PROVE \E f : IsFilter(f, s, good, m)
<1>. DEFINE G == {n \in Nat : \E f : IsFilter(f, s, good, n)}
<1>1. 0 \in G
  <2>1. IsFilter([k \in 0..0 |-> << >>], s, good, 0)
    BY DEF IsFilter
  <2> QED BY <2>1
<1>2. ASSUME NEW n \in Nat, n \in G PROVE n + 1 \in G
  <2>1. PICK f : IsFilter(f, s, good, n)
    BY <1>2
  <2>2. \A k \in 0..n : f[k] = IF k = 0 THEN << >>
                               ELSE IF k \in good THEN Append(f[k - 1], s[k])
                               ELSE f[k - 1]
    BY <2>1 DEF IsFilter
  <2>. DEFINE g == [k \in 0..(n + 1) |->
                      IF k = n + 1 THEN IF n + 1 \in good THEN Append(f[n], s[n + 1])
                                        ELSE f[n]
                      ELSE f[k]]
  <2>3. \A k \in 0..(n + 1) : g[k] = IF k = 0 THEN << >>
                                     ELSE IF k \in good THEN Append(g[k - 1], s[k])
                                     ELSE g[k - 1]
    BY <2>2
  <2>4. g = [k \in 0..(n + 1) |-> g[k]]
    OBVIOUS
  <2>. HIDE DEF g
  <2>5. IsFilter(g, s, good, n + 1)
    BY <2>3, <2>4 DEF IsFilter
  <2> QED BY <2>5
<1>. HIDE DEF G
<1>3. m \in G
  BY <1>1, <1>2, Induction
<1> QED BY <1>3 DEF G

(* What is kept is in its old order.                                       *)
LEMMA FilterKeepsOrder ==
  ASSUME NEW S, NEW s \in Seq(S), NEW good, NEW f, IsFilter(f, s, good, Len(s))
  PROVE  /\ f[Len(s)] \in Seq(S)
         /\ \E g : Embeds(g, f[Len(s)], s, good, Len(s))
<1>. DEFINE G == {n \in Nat : n <= Len(s) =>
                    f[n] \in Seq(S) /\ \E g : Embeds(g, f[n], s, good, n)}
<1>0. \A k \in 0..Len(s) : f[k] = IF k = 0 THEN << >>
                                  ELSE IF k \in good THEN Append(f[k - 1], s[k])
                                  ELSE f[k - 1]
  BY DEF IsFilter
<1>1. 0 \in G
  <2>1. f[0] = << >> /\ f[0] \in Seq(S)
    <3>1. 0 \in 0..Len(s)
      OBVIOUS
    <3>2. f[0] = << >>
      BY <1>0, <3>1
    <3> QED BY <3>2
  <2>2. Embeds([i \in 1..0 |-> 0], f[0], s, good, 0)
    BY <2>1 DEF Embeds
  <2>3. \E g : Embeds(g, f[0], s, good, 0)
    BY <2>2
  <2> QED BY <2>1, <2>3
<1>2. ASSUME NEW n \in Nat, n \in G PROVE n + 1 \in G
  <2>. SUFFICES ASSUME n + 1 <= Len(s)
                PROVE  f[n + 1] \in Seq(S) /\ \E g : Embeds(g, f[n + 1], s, good, n + 1)
    OBVIOUS
  <2>1. f[n] \in Seq(S)
    BY <1>2
  <2>2. PICK g : Embeds(g, f[n], s, good, n)
    BY <1>2
  <2>3. f[n + 1] = IF n + 1 \in good THEN Append(f[n], s[n + 1]) ELSE f[n]
    BY <1>0
  <2>4. CASE n + 1 \notin good
    <3>1. Embeds(g, f[n + 1], s, good, n + 1)
      BY <2>2, <2>3, <2>4 DEF Embeds
    <3> QED BY <2>1, <2>3, <2>4, <3>1
  <2>5. CASE n + 1 \in good
    <3>. DEFINE m == Len(f[n])
                h == [i \in 1..(m + 1) |-> IF i = m + 1 THEN n + 1 ELSE g[i]]
    <3>1. /\ f[n + 1] = Append(f[n], s[n + 1]) /\ f[n + 1] \in Seq(S)
          /\ Len(f[n + 1]) = m + 1 /\ m \in Nat
          /\ f[n + 1][m + 1] = s[n + 1] /\ \A i \in 1..m : f[n + 1][i] = f[n][i]
      BY <2>1, <2>3, <2>5
    <3>. HIDE DEF m
    <3>2. /\ g \in [1..m -> good \cap 1..n]
          /\ \A i, j \in 1..m : i < j => g[i] < g[j]
          /\ \A i \in 1..m : f[n][i] = s[g[i]]
          /\ \A k \in good \cap 1..n : \E i \in 1..m : g[i] = k
      BY <2>2 DEF m, Embeds
    <3>3. h \in [1..(m + 1) -> good \cap 1..(n + 1)]
      BY <3>1, <3>2, <2>5
    <3>4. \A i, j \in 1..(m + 1) : i < j => h[i] < h[j]
      <4>1. ASSUME NEW i \in 1..(m + 1), NEW j \in 1..(m + 1), i < j
            PROVE  h[i] < h[j]
        <5>1. i \in 1..m /\ h[i] = g[i] /\ g[i] \in 1..n
          BY <3>1, <3>2, <4>1
        <5>2. CASE j = m + 1
          BY <5>1, <5>2, <4>1
        <5>3. CASE j # m + 1
          <6>1. j \in 1..m /\ h[j] = g[j]
            BY <5>3, <4>1, <3>1
          <6> QED BY <5>1, <6>1, <4>1, <3>2
        <5> QED BY <5>2, <5>3
      <4> QED BY <4>1
    <3>5. \A i \in 1..(m + 1) : f[n + 1][i] = s[h[i]]
      BY <3>1, <3>2
    <3>6. \A k \in good \cap 1..(n + 1) : \E i \in 1..(m + 1) : h[i] = k
      <4>. SUFFICES ASSUME NEW k \in good \cap 1..(n + 1)
                    PROVE  \E i \in 1..(m + 1) : h[i] = k
        OBVIOUS
      <4>1. CASE k = n + 1
        BY <3>1, <4>1
      <4>2. CASE k # n + 1
        <5>1. PICK i \in 1..m : g[i] = k
          BY <3>2, <4>2
        <5>2. i \in 1..(m + 1) /\ h[i] = k
          BY <3>1, <5>1
        <5> QED BY <5>2
      <4> QED BY <4>1, <4>2
    <3>. HIDE DEF h
    <3>7. Embeds(h, f[n + 1], s, good, n + 1)
      BY <3>1, <3>3, <3>4, <3>5, <3>6 DEF Embeds
    <3> QED BY <3>1, <3>7
  <2> QED BY <2>4, <2>5
<1>. HIDE DEF G
<1>3. Len(s) \in G
  BY <1>1, <1>2, Induction
<1> QED BY <1>3 DEF G

-----------------------------------------------------------------------------
(***************************************************************************)
(* TfNoticeRegistry.                                                       *)
(***************************************************************************)
LEMMA NoticesStutter ==
  ASSUME NR!IInv, UNCHANGED NR!vars PROVE NR!IInv'
<1>. /\ lists' = lists /\ nrState' = nrState /\ keyed' = keyed /\ active' = active
     /\ marked' = marked /\ expired' = expired /\ userCount' = userCount
     /\ deadEntries' = deadEntries /\ calls' = calls
  BY DEF NR!vars
<1>1. NR!TypeOK' /\ NR!CallsNest' /\ NR!OneOwner'
  BY DEF NR!IInv, NR!TypeOK, NR!CallsNest, NR!OneOwner
<1>2. NR!ListsAreExact' /\ NR!DeliverersLive'
  BY DEF NR!IInv, NR!ListsAreExact, NR!DeliverersLive, NR!DeadEntriesAreExact
<1>3. NR!UsersAreCounted'
  <2>1. NR!Users' = NR!Users
    BY DEF NR!Users
  <2> QED BY <2>1 DEF NR!IInv, NR!UsersAreCounted, NR!Cardinality
<1>4. NR!FramesAreSound'
  <2>1. NR!AllFrames' = NR!AllFrames
    BY DEF NR!AllFrames
  <2>2. \A f \in NR!AllFrames : NR!FrameIsSound(f)
    BY DEF NR!IInv, NR!FramesAreSound
  <2>3. ASSUME NEW f, NR!FrameIsSound(f) PROVE NR!FrameIsSound(f)'
    <3>1. \A i : NR!IsAt(f, i) => NR!IsAt(f, i)'
      BY DEF NR!IsAt
    <3> QED BY <2>3, <3>1 DEF NR!FrameIsSound, NR!Revoking, NR!Dying
  <2> QED BY <2>1, <2>2, <2>3 DEF NR!FramesAreSound
<1> QED BY <1>1, <1>2, <1>3, <1>4 DEF NR!IInv

LEMMA NoticesInit ==
  ASSUME NR!NoticeAssumption, NR!Init PROVE NR!IInv
<1>. USE DEF NR!Init
<1>1. NR!TypeOK
  <2>1. << >> \in Seq(Deliverers) /\ << >> \in Seq(NR!Frames)
    OBVIOUS
  <2> QED BY <2>1 DEF NR!TypeOK
<1>2. \A t \in Callers : calls[t] = << >> /\ Len(calls[t]) = 0 /\ DOMAIN calls[t] = {}
  OBVIOUS
<1>3. NR!Users = {} /\ NR!AllFrames = {}
  BY <1>2 DEF NR!Users, NR!AllFrames
<1>4. NR!UsersAreCounted
  BY <1>3, FS_EmptySet DEF NR!UsersAreCounted, NR!Cardinality, Cardinality
<1>5. NR!ListsAreExact
  BY DEF NR!ListsAreExact
<1>6. NR!CallsNest /\ NR!OneOwner /\ NR!FramesAreSound
  BY <1>2, <1>3 DEF NR!CallsNest, NR!OneOwner, NR!FramesAreSound, NR!NoticeAssumption
<1> QED BY <1>1, <1>4, <1>5, <1>6 DEF NR!IInv, NR!DeliverersLive, NR!DeadEntriesAreExact

(* The list without some deliverers, in its order.                         *)
LEMMA WithoutIs ==
  ASSUME NEW list \in Seq(Deliverers), NEW ds
  PROVE  /\ NR!Without(list, ds) \in Seq(Deliverers)
         /\ \E g : Embeds(g, NR!Without(list, ds), list,
                          {k \in DOMAIN list : list[k] \notin ds}, Len(list))
<1>. DEFINE good == {k \in DOMAIN list : list[k] \notin ds}
<1>1. \A k \in 0..Len(list) : k # 0 => (k \in good <=> list[k] \notin ds)
  OBVIOUS
<1>. HIDE DEF good
<1>2. PICK f : IsFilter(f, list, good, Len(list))
  <2>1. Len(list) \in Nat
    OBVIOUS
  <2> QED BY <2>1, FilterExists, Zenon
<1>3. \A k \in 0..Len(list) :
        f[k] = IF k = 0 THEN << >>
               ELSE IF list[k] \notin ds THEN Append(f[k - 1], list[k])
               ELSE f[k - 1]
  <2>1. \A k \in 0..Len(list) : f[k] = IF k = 0 THEN << >>
                                       ELSE IF k \in good THEN Append(f[k - 1], list[k])
                                       ELSE f[k - 1]
    BY <1>2 DEF IsFilter
  <2> QED BY <1>1, <2>1
<1>4. f = [k \in 0..Len(list) |-> f[k]]
  BY <1>2 DEF IsFilter
<1>5. f = [k \in 0..Len(list) |->
             IF k = 0 THEN << >>
             ELSE IF list[k] \notin ds THEN Append(f[k - 1], list[k])
             ELSE f[k - 1]]
  BY <1>3, <1>4
<1>6. PICK h : /\ h = [k \in 0..Len(list) |->
                         IF k = 0 THEN << >>
                         ELSE IF list[k] \notin ds THEN Append(h[k - 1], list[k])
                         ELSE h[k - 1]]
               /\ NR!Without(list, ds) = h[Len(list)]
  BY <1>5, Zenon DEF NR!Without
<1>7. \A k \in 0..Len(list) :
        h[k] = IF k = 0 THEN << >>
               ELSE IF k \in good THEN Append(h[k - 1], list[k])
               ELSE h[k - 1]
  BY <1>1, <1>6
<1>8. h = [k \in 0..Len(list) |-> h[k]]
  BY <1>6
<1>9. IsFilter(h, list, good, Len(list))
  BY <1>7, <1>8 DEF IsFilter
<1>10. /\ h[Len(list)] \in Seq(Deliverers)
       /\ \E g : Embeds(g, h[Len(list)], list, good, Len(list))
  BY <1>9, FilterKeepsOrder
<1> QED BY <1>6, <1>10 DEF good

(* Freeing deliverers takes them, and nobody else, out of the lists.       *)
LEMMA FreeKeeps ==
  ASSUME NR!TypeOK, NR!ListsAreExact, NEW ds, NR!Free(ds)
  PROVE  /\ lists' \in [NR!Walked -> Seq(Deliverers)]
         /\ NR!ListsAreExact'
         /\ nrState' = [d \in Deliverers |-> IF d \in ds THEN "freed" ELSE nrState[d]]
<1>. DEFINE good(l) == {k \in DOMAIN lists[l] : lists[l][k] \notin ds}
<1>1. \A l \in NR!Walked :
        /\ lists[l] \in Seq(Deliverers) /\ lists'[l] \in Seq(Deliverers)
        /\ \E g : Embeds(g, lists'[l], lists[l], good(l), Len(lists[l]))
  BY WithoutIs DEF NR!Free, NR!TypeOK
<1>2. lists' \in [NR!Walked -> Seq(Deliverers)]
  <2>1. lists' = [l \in NR!Walked |-> lists'[l]]
    BY DEF NR!Free
  <2> QED BY <1>1, <2>1
<1>3. nrState' = [d \in Deliverers |-> IF d \in ds THEN "freed" ELSE nrState[d]]
  BY DEF NR!Free
<1>. HIDE DEF good
(* Every place of the new list comes from a place of the old one, no two   *)
(* from the same.                                                          *)
<1>4. ASSUME NEW l \in NR!Walked, NEW g,
             Embeds(g, lists'[l], lists[l], good(l), Len(lists[l]))
      PROVE  /\ \A i \in DOMAIN lists'[l] :
                  /\ g[i] \in DOMAIN lists[l] /\ lists'[l][i] = lists[l][g[i]]
                  /\ lists'[l][i] \notin ds
             /\ \A i, j \in DOMAIN lists'[l] : g[i] = g[j] => i = j
             /\ \A k \in DOMAIN lists[l] : lists[l][k] \notin ds =>
                  \E i \in DOMAIN lists'[l] : lists'[l][i] = lists[l][k]
  <2>0. /\ DOMAIN lists'[l] = 1..Len(lists'[l]) /\ DOMAIN lists[l] = 1..Len(lists[l])
        /\ Len(lists'[l]) \in Nat /\ Len(lists[l]) \in Nat
    BY <1>1
  <2>1. \A i \in 1..Len(lists'[l]) :
          g[i] \in good(l) /\ g[i] \in 1..Len(lists[l]) /\ lists'[l][i] = lists[l][g[i]]
    BY <1>4 DEF Embeds
  <2>2. \A i, j \in 1..Len(lists'[l]) : g[i] = g[j] => i = j
    <3>. SUFFICES ASSUME NEW i \in 1..Len(lists'[l]), NEW j \in 1..Len(lists'[l]),
                         g[i] = g[j], i < j
                  PROVE  FALSE
      BY <2>0
    <3>1. g[i] < g[j] /\ g[i] \in Int
      BY <1>4, <2>1, <2>0 DEF Embeds
    <3> QED BY <3>1
  <2>3. \A k \in DOMAIN lists[l] : lists[l][k] \notin ds =>
          \E i \in 1..Len(lists'[l]) : lists'[l][i] = lists[l][k]
    <3>. SUFFICES ASSUME NEW k \in DOMAIN lists[l], lists[l][k] \notin ds
                  PROVE  \E i \in 1..Len(lists'[l]) : lists'[l][i] = lists[l][k]
      OBVIOUS
    <3>1. k \in good(l) \cap 1..Len(lists[l])
      BY <2>0 DEF good
    <3>2. PICK i \in 1..Len(lists'[l]) : g[i] = k
      BY <1>4, <3>1 DEF Embeds
    <3> QED BY <2>1, <3>2
  <2> QED BY <2>0, <2>1, <2>2, <2>3 DEF good
<1>5. ASSUME NEW l \in NR!Walked, NEW m \in NR!Walked,
             NEW i \in DOMAIN lists'[l], NEW j \in DOMAIN lists'[m],
             lists'[l][i] = lists'[m][j]
      PROVE  l = m /\ i = j
  <2>1. PICK g : Embeds(g, lists'[l], lists[l], good(l), Len(lists[l]))
    BY <1>1
  <2>2. PICK h : Embeds(h, lists'[m], lists[m], good(m), Len(lists[m]))
    BY <1>1
  <2>3. /\ g[i] \in DOMAIN lists[l] /\ h[j] \in DOMAIN lists[m]
        /\ lists[l][g[i]] = lists[m][h[j]]
    BY <1>4, <1>5, <2>1, <2>2
  <2>4. l = m
    BY <2>3 DEF NR!ListsAreExact
  <2>5. g[j] \in DOMAIN lists[l] /\ lists[l][g[i]] = lists[l][g[j]]
    BY <1>4, <1>5, <2>1, <2>4
  <2>6. g[i] = g[j]
    BY <2>3, <2>5 DEF NR!ListsAreExact
  <2> QED BY <1>4, <2>1, <2>4, <2>6
<1>6. ASSUME NEW d \in Deliverers
      PROVE  nrState'[d] = "allocated" <=>
               \E l \in NR!Walked : \E i \in DOMAIN lists'[l] : lists'[l][i] = d
  <2>1. nrState'[d] = "allocated" <=> nrState[d] = "allocated" /\ d \notin ds
    BY <1>3
  <2>2. ASSUME nrState'[d] = "allocated"
        PROVE  \E l \in NR!Walked : \E i \in DOMAIN lists'[l] : lists'[l][i] = d
    <3>1. PICK l \in NR!Walked : \E k \in DOMAIN lists[l] : lists[l][k] = d
      BY <2>1, <2>2 DEF NR!ListsAreExact
    <3>2. PICK g : Embeds(g, lists'[l], lists[l], good(l), Len(lists[l]))
      BY <1>1
    <3> QED BY <1>4, <2>1, <2>2, <3>1, <3>2
  <2>3. ASSUME NEW l \in NR!Walked, NEW i \in DOMAIN lists'[l], lists'[l][i] = d
        PROVE  nrState'[d] = "allocated"
    <3>1. PICK g : Embeds(g, lists'[l], lists[l], good(l), Len(lists[l]))
      BY <1>1
    <3>2. g[i] \in DOMAIN lists[l] /\ lists[l][g[i]] = d /\ d \notin ds
      BY <1>4, <2>3, <3>1
    <3>3. nrState[d] = "allocated"
      BY <3>2 DEF NR!ListsAreExact
    <3> QED BY <2>1, <3>2, <3>3
  <2> QED BY <2>2, <2>3
<1>7. NR!ListsAreExact'
  BY <1>5, <1>6 DEF NR!ListsAreExact
<1> QED BY <1>2, <1>3, <1>7

(***************************************************************************)
(* Stacks of calls.  What the invariant says of them is that they nest,    *)
(* how many of their frames are users, and who owns a deliverer.           *)
(***************************************************************************)
IsUser(f) == f.pc \notin NR!Uncounted

LEMMA UsersFinite ==
  ASSUME NR!NoticeAssumption
  PROVE  /\ IsFiniteSet(NR!Users) /\ Cardinality(NR!Users) \in Nat
         /\ NR!UsersAreCounted <=> userCount = Cardinality(NR!Users)
<1>1. IsFiniteSet(Callers)
  BY Zenon DEF NR!NoticeAssumption, NR!IsFiniteSet, IsFiniteSet
<1>2. 1 \in Int /\ MaxCalls \in Int
  BY DEF NR!NoticeAssumption
<1>3. IsFiniteSet(1..MaxCalls)
  BY <1>2, FS_Interval
<1>4. IsFiniteSet(Callers \X (1..MaxCalls))
  BY <1>1, <1>3, FS_Product
<1>5. NR!Users \in SUBSET (Callers \X (1..MaxCalls))
  BY DEF NR!Users
<1>6. IsFiniteSet(NR!Users)
  BY <1>4, <1>5, FS_Subset
<1>7. NR!UsersAreCounted <=> userCount = Cardinality(NR!Users)
  BY DEF NR!UsersAreCounted, NR!Cardinality, Cardinality
<1> QED BY <1>6, <1>7, FS_CardinalityType

(* What a step does to the users, the others being the same.               *)
LEMMA UsersStep ==
  ASSUME NR!NoticeAssumption, NR!UsersAreCounted, NEW x
  PROVE  /\ NR!Users' = NR!Users /\ userCount' = userCount => NR!UsersAreCounted'
         /\ /\ NR!Users' = NR!Users \cup {x} /\ x \notin NR!Users
            /\ userCount' = userCount + 1
            => NR!UsersAreCounted'
         /\ /\ NR!Users' = NR!Users \ {x} /\ x \in NR!Users
            /\ userCount' = userCount - 1
            => NR!UsersAreCounted'
<1>1. IsFiniteSet(NR!Users) /\ userCount = Cardinality(NR!Users)
  BY UsersFinite
<1>2. /\ x \notin NR!Users => Cardinality(NR!Users \cup {x}) = Cardinality(NR!Users) + 1
      /\ x \in NR!Users => Cardinality(NR!Users \ {x}) = Cardinality(NR!Users) - 1
  BY <1>1, FS_AddElement, FS_RemoveElement
<1>3. userCount' = Cardinality(NR!Users') => NR!UsersAreCounted'
  BY DEF NR!UsersAreCounted, NR!Cardinality, Cardinality
<1> QED BY <1>1, <1>2, <1>3

(* With no user, or with one that is known, nobody else is one.            *)
LEMMA NoOtherUsers ==
  ASSUME NR!NoticeAssumption, NR!CallsNest, NR!TypeOK, NR!UsersAreCounted,
         NEW t \in Callers, calls[t] # << >>
  PROVE  /\ userCount = 0 => \A f \in NR!AllFrames : ~IsUser(f)
         /\ userCount = 1 /\ IsUser(NR!Top(t)) =>
              \A u \in Callers : \A i \in DOMAIN calls[u] :
                u # t \/ i # Len(calls[t]) => ~IsUser(calls[u][i])
<1>0. Len(calls[t]) \in DOMAIN calls[t]
  BY DEF NR!TypeOK
<1>1. \A u \in Callers : \A i \in DOMAIN calls[u] :
        i \in 1..MaxCalls /\ (IsUser(calls[u][i]) => <<u, i>> \in NR!Users)
  <2>1. \A u \in Callers : DOMAIN calls[u] = 1..Len(calls[u]) /\ Len(calls[u]) \in Nat
    BY DEF NR!TypeOK
  <2>2. \A u \in Callers : \A i \in DOMAIN calls[u] : i \in 1..MaxCalls
    BY <2>1 DEF NR!CallsNest, NR!NoticeAssumption
  <2> QED BY <2>2 DEF NR!Users, IsUser
<1>2. IsFiniteSet(NR!Users) /\ userCount = Cardinality(NR!Users)
  BY UsersFinite
<1>3. ASSUME userCount = 0 PROVE \A f \in NR!AllFrames : ~IsUser(f)
  <2>1. NR!Users = {}
    BY <1>2, <1>3, FS_EmptySet
  <2> QED BY <1>1, <2>1 DEF NR!AllFrames
<1>4. ASSUME userCount = 1, IsUser(NR!Top(t)), NEW u \in Callers,
             NEW i \in DOMAIN calls[u], u # t \/ i # Len(calls[t])
      PROVE  ~IsUser(calls[u][i])
  <2>1. PICK x : NR!Users = {x}
    BY <1>2, <1>4, FS_Singleton
  <2>2. <<t, Len(calls[t])>> \in NR!Users
    BY <1>0, <1>1, <1>4 DEF NR!Top
  <2> QED BY <1>1, <1>4, <2>1, <2>2
<1> QED BY <1>3, <1>4

(* What is left of the stacks without a thread's innermost call.           *)
IsOther(t, f) ==
  \E u \in Callers : \E i \in DOMAIN calls[u] :
    (u # t \/ i # Len(calls[t])) /\ f = calls[u][i]

LEMMA OthersOwnOthers ==
  ASSUME NR!OneOwner, NR!TypeOK, NEW t \in Callers, calls[t] # << >>,
         NR!Top(t).pc \in NR!Owning, NEW f, IsOther(t, f), f.pc \in NR!Owning
  PROVE  f.at # NR!Top(t).at
<1>1. Len(calls[t]) \in DOMAIN calls[t]
  BY DEF NR!TypeOK
<1> QED BY <1>1 DEF IsOther, NR!OneOwner, NR!Top

(* The innermost call goes on.                                             *)
LEMMA BecomeKeeps ==
  ASSUME NR!NoticeAssumption, NR!TypeOK, NR!CallsNest, NR!OneOwner,
         NEW t \in Callers, calls[t] # << >>, NEW f \in NR!Frames, NR!Become(t, f),
         f.pc \in NR!Owning => NR!Top(t).pc \in NR!Owning /\ f.at = NR!Top(t).at
  PROVE  /\ calls' \in [Callers -> Seq(NR!Frames)] /\ NR!CallsNest' /\ NR!OneOwner'
         /\ \A g \in NR!AllFrames' : g = f \/ (g \in NR!AllFrames /\ IsOther(t, g))
         /\ (IsUser(f) <=> IsUser(NR!Top(t))) => NR!Users' = NR!Users
         /\ IsUser(NR!Top(t)) /\ ~IsUser(f) =>
              /\ <<t, Len(calls[t])>> \in NR!Users
              /\ NR!Users' = NR!Users \ {<<t, Len(calls[t])>>}
<1>. DEFINE n == Len(calls[t])
<1>0. /\ n \in Nat \ {0} /\ DOMAIN calls[t] = 1..n /\ calls[t] \in Seq(NR!Frames)
      /\ calls' = [calls EXCEPT ![t] = [calls[t] EXCEPT ![n] = f]]
  BY DEF NR!TypeOK, NR!Become
<1>1. /\ [calls[t] EXCEPT ![n] = f] \in Seq(NR!Frames)
      /\ Len([calls[t] EXCEPT ![n] = f]) = n
  BY <1>0
<1>2. calls' \in [Callers -> Seq(NR!Frames)]
  BY <1>0, <1>1 DEF NR!TypeOK
<1>3. /\ \A u \in Callers : Len(calls'[u]) = Len(calls[u]) /\ DOMAIN calls'[u] = DOMAIN calls[u]
      /\ calls'[t][n] = f
      /\ \A u \in Callers : \A i \in DOMAIN calls[u] :
           u # t \/ i # n => calls'[u][i] = calls[u][i]
  BY <1>0, <1>1 DEF NR!TypeOK
<1>4. NR!Top(t) = calls[t][n] /\ n \in DOMAIN calls[t] /\ n \in 1..MaxCalls
  BY <1>0 DEF NR!Top, NR!CallsNest, NR!NoticeAssumption
<1>. HIDE DEF n
<1>5. NR!CallsNest'
  <2>1. \A i \in DOMAIN calls[t] : i < Len(calls[t]) => i # n
    BY <1>0 DEF n
  <2> QED BY <1>3, <2>1 DEF NR!CallsNest
<1>6. NR!OneOwner'
  <2>. SUFFICES ASSUME NEW u \in Callers, NEW v \in Callers,
                       NEW i \in DOMAIN calls[u], NEW j \in DOMAIN calls[v],
                       calls'[u][i].pc \in NR!Owning, calls'[v][j].pc \in NR!Owning,
                       calls'[u][i].at = calls'[v][j].at
                PROVE  u = v /\ i = j
    BY <1>3 DEF NR!OneOwner, NR!Owning, NR!Revoking
  <2>1. calls[u][i].pc \in NR!Owning /\ calls'[u][i].at = calls[u][i].at
    BY <1>3, <1>4
  <2>2. calls[v][j].pc \in NR!Owning /\ calls'[v][j].at = calls[v][j].at
    BY <1>3, <1>4
  <2>3. calls[u][i].at = calls[v][j].at
    BY <2>1, <2>2
  <2> QED BY <2>1, <2>2, <2>3 DEF NR!OneOwner
<1>7. \A g \in NR!AllFrames' : g = f \/ (g \in NR!AllFrames /\ IsOther(t, g))
  <2>. SUFFICES ASSUME NEW u \in Callers, NEW i \in DOMAIN calls[u], calls'[u][i] # f
                PROVE  calls'[u][i] \in NR!AllFrames /\ IsOther(t, calls'[u][i])
    BY <1>3 DEF NR!AllFrames
  <2>1. calls'[u][i] = calls[u][i] /\ (u # t \/ i # n)
    BY <1>3
  <2> QED BY <2>1 DEF NR!AllFrames, IsOther, n
<1>8. \A x \in Callers \X (1..MaxCalls) :
        x \in NR!Users' <=> IF x = <<t, n>> THEN IsUser(f) ELSE x \in NR!Users
  <2>. SUFFICES ASSUME NEW u \in Callers, NEW i \in 1..MaxCalls
                PROVE  <<u, i>> \in NR!Users' <=>
                         IF <<u, i>> = <<t, n>> THEN IsUser(f) ELSE <<u, i>> \in NR!Users
    OBVIOUS
  <2>1. <<u, i>> \in NR!Users <=> i \in DOMAIN calls[u] /\ IsUser(calls[u][i])
    BY DEF NR!Users, IsUser
  <2>2. <<u, i>> \in NR!Users' <=> i \in DOMAIN calls[u] /\ IsUser(calls'[u][i])
    BY <1>3 DEF NR!Users, IsUser
  <2> QED BY <1>3, <1>4, <2>1, <2>2
<1>9. <<t, n>> \in NR!Users <=> IsUser(NR!Top(t))
  BY <1>4 DEF NR!Users, IsUser
<1>10. NR!Users \subseteq Callers \X (1..MaxCalls) /\ NR!Users' \subseteq Callers \X (1..MaxCalls)
  BY DEF NR!Users
<1>11. (IsUser(f) <=> IsUser(NR!Top(t))) => NR!Users' = NR!Users
  BY <1>8, <1>9, <1>10
<1>12. IsUser(NR!Top(t)) /\ ~IsUser(f) =>
         <<t, n>> \in NR!Users /\ NR!Users' = NR!Users \ {<<t, n>>}
  BY <1>8, <1>9, <1>10
<1> QED BY <1>2, <1>5, <1>6, <1>7, <1>11, <1>12 DEF n

(* A thread makes a call.                                                  *)
LEMMA PushKeeps ==
  ASSUME NR!NoticeAssumption, NR!TypeOK, NR!CallsNest, NR!OneOwner,
         NEW t \in Callers, NR!MayCall(t), NEW f \in NR!Frames, NR!Push(t, f),
         \A g \in NR!AllFrames : f.pc \in NR!Owning /\ g.pc \in NR!Owning => g.at # f.at
  PROVE  /\ calls' \in [Callers -> Seq(NR!Frames)] /\ NR!CallsNest' /\ NR!OneOwner'
         /\ \A g \in NR!AllFrames' : g = f \/ g \in NR!AllFrames
         /\ ~IsUser(f) => NR!Users' = NR!Users
         /\ IsUser(f) => \E x : x \notin NR!Users /\ NR!Users' = NR!Users \cup {x}
<1>. DEFINE n == Len(calls[t]) + 1
<1>0. /\ n \in Nat \ {0} /\ n <= MaxCalls /\ calls[t] \in Seq(NR!Frames)
      /\ DOMAIN calls[t] = 1..(n - 1) /\ calls' = [calls EXCEPT ![t] = Append(calls[t], f)]
  BY DEF NR!TypeOK, NR!Push, NR!MayCall, NR!NoticeAssumption
<1>1. /\ Append(calls[t], f) \in Seq(NR!Frames) /\ Len(Append(calls[t], f)) = n
      /\ DOMAIN Append(calls[t], f) = 1..n /\ Append(calls[t], f)[n] = f
      /\ \A i \in 1..(n - 1) : Append(calls[t], f)[i] = calls[t][i]
  BY <1>0
<1>2. calls' \in [Callers -> Seq(NR!Frames)]
  BY <1>0, <1>1 DEF NR!TypeOK
<1>3. /\ Len(calls'[t]) = n /\ DOMAIN calls'[t] = DOMAIN calls[t] \cup {n} /\ calls'[t][n] = f
      /\ n \notin DOMAIN calls[t]
      /\ \A i \in DOMAIN calls[t] : calls'[t][i] = calls[t][i]
      /\ \A u \in Callers \ {t} : calls'[u] = calls[u]
  BY <1>0, <1>1 DEF NR!TypeOK
<1>4. \A i \in DOMAIN calls[t] : calls[t][i].pc = "handler"
  <2>1. calls[t] # << >> => calls[t][n - 1].pc = "handler"
    BY DEF NR!MayCall, NR!In, NR!Top
  <2>2. \A i \in DOMAIN calls[t] : i < n - 1 => calls[t][i].pc = "handler"
    BY <1>0 DEF NR!CallsNest
  <2>3. \A i \in DOMAIN calls[t] : calls[t] # << >> /\ (i < n - 1 \/ i = n - 1)
    BY <1>0
  <2> QED BY <2>1, <2>2, <2>3
<1>. HIDE DEF n
<1>5. NR!CallsNest'
  BY <1>0, <1>3, <1>4 DEF NR!CallsNest
<1>6. NR!OneOwner'
  <2>. SUFFICES ASSUME NEW u \in Callers, NEW v \in Callers,
                       NEW i \in DOMAIN calls'[u], NEW j \in DOMAIN calls'[v],
                       calls'[u][i].pc \in NR!Owning, calls'[v][j].pc \in NR!Owning,
                       calls'[u][i].at = calls'[v][j].at
                PROVE  u = v /\ i = j
    BY DEF NR!OneOwner, NR!Owning, NR!Revoking
  <2>1. CASE u = t /\ i = n
    <3>1. CASE v = t /\ j = n
      BY <2>1, <3>1
    <3>2. CASE ~(v = t /\ j = n)
      <4>1. j \in DOMAIN calls[v] /\ calls'[v][j] = calls[v][j]
        BY <1>3, <3>2
      <4>2. calls[v][j] \in NR!AllFrames
        BY <4>1 DEF NR!AllFrames
      <4> QED BY <1>3, <2>1, <4>1, <4>2
    <3> QED BY <3>1, <3>2
  <2>2. CASE ~(u = t /\ i = n)
    <3>0. i \in DOMAIN calls[u] /\ calls'[u][i] = calls[u][i]
      BY <1>3, <2>2
    <3>1. CASE v = t /\ j = n
      <4>1. calls[u][i] \in NR!AllFrames
        BY <3>0 DEF NR!AllFrames
      <4> QED BY <1>3, <3>0, <3>1, <4>1
    <3>2. CASE ~(v = t /\ j = n)
      <4>1. j \in DOMAIN calls[v] /\ calls'[v][j] = calls[v][j]
        BY <1>3, <3>2
      <4> QED BY <3>0, <4>1 DEF NR!OneOwner
    <3> QED BY <3>1, <3>2
  <2> QED BY <2>1, <2>2
<1>7. \A g \in NR!AllFrames' : g = f \/ g \in NR!AllFrames
  BY <1>3 DEF NR!AllFrames
<1>8. \A x \in Callers \X (1..MaxCalls) :
        x \in NR!Users' <=> x \in NR!Users \/ (x = <<t, n>> /\ IsUser(f))
  <2>. SUFFICES ASSUME NEW u \in Callers, NEW i \in 1..MaxCalls
                PROVE  <<u, i>> \in NR!Users' <=>
                         <<u, i>> \in NR!Users \/ (<<u, i>> = <<t, n>> /\ IsUser(f))
    OBVIOUS
  <2>1. <<u, i>> \in NR!Users <=> i \in DOMAIN calls[u] /\ IsUser(calls[u][i])
    BY DEF NR!Users, IsUser
  <2>2. <<u, i>> \in NR!Users' <=> i \in DOMAIN calls'[u] /\ IsUser(calls'[u][i])
    BY DEF NR!Users, IsUser
  <2> QED BY <1>3, <2>1, <2>2
<1>9. <<t, n>> \notin NR!Users /\ <<t, n>> \in Callers \X (1..MaxCalls)
  BY <1>0, <1>3 DEF NR!Users
<1>10. NR!Users \subseteq Callers \X (1..MaxCalls) /\ NR!Users' \subseteq Callers \X (1..MaxCalls)
  BY DEF NR!Users
<1>11. ~IsUser(f) => NR!Users' = NR!Users
  BY <1>8, <1>10
<1>12. IsUser(f) => NR!Users' = NR!Users \cup {<<t, n>>}
  BY <1>8, <1>9, <1>10
<1> QED BY <1>2, <1>5, <1>6, <1>7, <1>9, <1>11, <1>12

(* The innermost call returns.                                             *)
LEMMA ReturnKeeps ==
  ASSUME NR!NoticeAssumption, NR!TypeOK, NR!CallsNest, NR!OneOwner,
         NEW t \in Callers, calls[t] # << >>, NR!Return(t)
  PROVE  /\ calls' \in [Callers -> Seq(NR!Frames)] /\ NR!CallsNest' /\ NR!OneOwner'
         /\ \A g \in NR!AllFrames' : g \in NR!AllFrames /\ IsOther(t, g)
         /\ ~IsUser(NR!Top(t)) => NR!Users' = NR!Users
         /\ IsUser(NR!Top(t)) => \E x \in NR!Users : NR!Users' = NR!Users \ {x}
<1>. DEFINE n == Len(calls[t])
            s == SubSeq(calls[t], 1, n - 1)
<1>0. /\ n \in Nat \ {0} /\ DOMAIN calls[t] = 1..n /\ calls[t] \in Seq(NR!Frames)
      /\ calls' = [calls EXCEPT ![t] = s]
  BY DEF NR!TypeOK, NR!Return
<1>1. /\ s \in Seq(NR!Frames) /\ Len(s) = n - 1 /\ DOMAIN s = 1..(n - 1)
      /\ \A i \in 1..(n - 1) : s[i] = calls[t][i]
  BY <1>0
<1>. HIDE DEF s
<1>2. calls' \in [Callers -> Seq(NR!Frames)]
  BY <1>0, <1>1 DEF NR!TypeOK
<1>3. /\ Len(calls'[t]) = n - 1 /\ DOMAIN calls'[t] = DOMAIN calls[t] \ {n}
      /\ n \in DOMAIN calls[t]
      /\ \A i \in DOMAIN calls[t] \ {n} : calls'[t][i] = calls[t][i]
      /\ \A u \in Callers \ {t} : calls'[u] = calls[u]
  <2>. HIDE DEF n
  <2>1. calls'[t] = s /\ \A u \in Callers \ {t} : calls'[u] = calls[u]
    BY <1>0 DEF NR!TypeOK
  <2>2. n \in DOMAIN calls[t] /\ 1..(n - 1) = DOMAIN calls[t] \ {n}
    BY <1>0
  <2> QED BY <1>1, <2>1, <2>2
<1>4. NR!Top(t) = calls[t][n] /\ n \in 1..MaxCalls
  BY <1>0 DEF NR!Top, NR!CallsNest, NR!NoticeAssumption
<1>5. NR!CallsNest'
  <2>1. \A i \in DOMAIN calls'[t] : i \in DOMAIN calls[t] /\ i < n /\ i # n
    BY <1>0, <1>3
  <2>2. Len(calls'[t]) <= MaxCalls
    <3>1. n <= MaxCalls /\ MaxCalls \in Nat
      BY <1>4 DEF NR!NoticeAssumption
    <3>. HIDE DEF n
    <3> QED BY <1>0, <1>3, <3>1
  <2> QED BY <1>3, <2>1, <2>2 DEF NR!CallsNest
<1>. HIDE DEF n
<1>6. NR!OneOwner'
  <2>1. \A u \in Callers : \A i \in DOMAIN calls'[u] :
          i \in DOMAIN calls[u] /\ calls'[u][i] = calls[u][i]
    BY <1>3
  <2> QED BY <2>1 DEF NR!OneOwner, NR!Owning, NR!Revoking
<1>7. \A g \in NR!AllFrames' : g \in NR!AllFrames /\ IsOther(t, g)
  <2>. SUFFICES ASSUME NEW u \in Callers, NEW i \in DOMAIN calls'[u]
                PROVE  calls'[u][i] \in NR!AllFrames /\ IsOther(t, calls'[u][i])
    BY DEF NR!AllFrames
  <2>1. i \in DOMAIN calls[u] /\ calls'[u][i] = calls[u][i] /\ (u # t \/ i # n)
    BY <1>3
  <2> QED BY <2>1 DEF NR!AllFrames, IsOther, n
<1>8. \A x \in Callers \X (1..MaxCalls) :
        x \in NR!Users' <=> x \in NR!Users /\ x # <<t, n>>
  <2>. SUFFICES ASSUME NEW u \in Callers, NEW i \in 1..MaxCalls
                PROVE  <<u, i>> \in NR!Users' <=> <<u, i>> \in NR!Users /\ <<u, i>> # <<t, n>>
    OBVIOUS
  <2>1. <<u, i>> \in NR!Users <=> i \in DOMAIN calls[u] /\ IsUser(calls[u][i])
    BY DEF NR!Users, IsUser
  <2>2. <<u, i>> \in NR!Users' <=> i \in DOMAIN calls'[u] /\ IsUser(calls'[u][i])
    BY DEF NR!Users, IsUser
  <2> QED BY <1>3, <2>1, <2>2
<1>9. <<t, n>> \in NR!Users <=> IsUser(NR!Top(t))
  BY <1>3, <1>4 DEF NR!Users, IsUser
<1>10. NR!Users \subseteq Callers \X (1..MaxCalls) /\ NR!Users' \subseteq Callers \X (1..MaxCalls)
  BY DEF NR!Users
<1>11. NR!Users' = NR!Users \ {<<t, n>>}
  BY <1>8, <1>10
<1> QED BY <1>2, <1>5, <1>6, <1>7, <1>9, <1>11

(* What is known of a frame stays true as long as nobody is freed.         *)
LEMMA SoundnessStays ==
  ASSUME UNCHANGED <<lists, nrState, keyed>>, NR!TypeOK,
         \A d \in Deliverers : active'[d] => active[d], expired \subseteq expired',
         NEW f \in NR!Frames, NR!FrameIsSound(f)
  PROVE  NR!FrameIsSound(f)'
<1>. USE DEF NR!Walking
<1>1. f.got \subseteq Deliverers /\ f.due \subseteq Deliverers /\ f.pc \in NR!Labels
  BY DEF NR!Frames
<1>2. f.pc \in NR!Walking => f.list \in NR!Walked /\ f.at \in Deliverers
  BY DEF NR!FrameIsSound, NR!Revoking, NR!Dying
<1>3. ASSUME NEW i \in DOMAIN lists[f.list], f.pc \in NR!Walking, NR!IsAt(f, i)
      PROVE  NR!IsAt(f, i)'
  <2>1. \A j \in DOMAIN lists[f.list] : lists[f.list][j] \in Deliverers
    BY <1>2, <1>3 DEF NR!TypeOK
  <2>2. \A d \in Deliverers : active'[d] /\ d \notin expired' => active[d] /\ d \notin expired
    OBVIOUS
  <2>3. lists'[f.list] = lists[f.list]
    OBVIOUS
  <2> QED BY <1>1, <1>3, <2>1, <2>2, <2>3 DEF NR!IsAt
<1>4. f.pc \in NR!Walking => \E i \in DOMAIN lists'[f.list] : NR!IsAt(f, i)'
  <2>1. f.pc \in NR!Walking => \E i \in DOMAIN lists[f.list] : NR!IsAt(f, i)
    BY DEF NR!FrameIsSound, NR!Revoking, NR!Dying
  <2> QED BY <1>3, <2>1
<1>5. f.pc = "bury" => ~active'[f.at] \/ f.at \in expired'
  BY <1>2 DEF NR!FrameIsSound, NR!Revoking, NR!Dying
<1>6. f.pc = "next" =>
         \A d \in f.due : active'[d] /\ d \notin expired' => d \in f.got
  BY <1>1 DEF NR!FrameIsSound, NR!Revoking, NR!Dying
<1> QED BY <1>4, <1>5, <1>6 DEF NR!FrameIsSound, NR!Revoking, NR!Dying

(* An iterator goes on to the next element, or to the end.                 *)
LEMMA AdvanceIsSound ==
  ASSUME NR!NoticeAssumption, NR!TypeOK, NR!ListsAreExact,
         NEW f \in NR!Frames, NR!FrameIsSound(f), f.pc \in {"handler", "bury"},
         NEW q, q = NR!AtNext(f, NR!After(f))
  PROVE  q \in NR!Frames /\ q.pc \in {"check", "next"} /\ NR!FrameIsSound(q)
<1>. DEFINE s == lists[f.list]
<1>1. /\ f.list \in NR!Walked /\ f.at \in Deliverers /\ f.got \subseteq f.due
      /\ f.pc = "handler" => f.at \in f.got
      /\ f.pc = "bury" => ~active[f.at] \/ f.at \in expired
      /\ f.got \subseteq Deliverers /\ f.due \subseteq Deliverers
  BY DEF NR!FrameIsSound, NR!Walking, NR!Frames, NR!Revoking, NR!Dying
<1>2. PICK i \in DOMAIN s : NR!IsAt(f, i)
  BY DEF NR!FrameIsSound, NR!Walking, NR!Revoking, NR!Dying
<1>3. /\ s \in Seq(Deliverers) /\ DOMAIN s = 1..Len(s) /\ Len(s) \in Nat /\ i \in 1..Len(s)
      /\ s[i] = f.at /\ \A j \in DOMAIN s : s[j] = s[i] => j = i
  BY <1>1, <1>2 DEF NR!TypeOK, NR!IsAt, NR!ListsAreExact
<1>4. /\ \A j \in DOMAIN s : j >= i =>
           /\ s[j] \in f.got => j = i /\ f.pc = "handler"
           /\ active[s[j]] /\ s[j] \notin expired => s[j] \in f.due
      /\ \A d \in f.due : active[d] /\ d \notin expired =>
           d \in f.got \/ \E j \in DOMAIN s : j >= i /\ s[j] = d
  BY <1>2 DEF NR!IsAt
<1>5. NR!After(f) = IF i = Len(s) THEN None ELSE s[i + 1]
  <2>1. (CHOOSE j \in DOMAIN s : s[j] = f.at) = i
    BY <1>3
  <2>. DEFINE c == CHOOSE j \in DOMAIN s : s[j] = f.at
  <2>2. NR!After(f) = IF c = Len(s) THEN None ELSE s[c + 1]
    BY Zenon DEF NR!After
  <2>3. c = i
    BY <2>1
  <2>. HIDE DEF c
  <2> QED BY <2>2, <2>3
<1>6. \A j \in 1..Len(s) : j >= i => j = i \/ j >= i + 1
  BY <1>3
<1>7. \A d \in f.due : active[d] /\ d \notin expired =>
        d \in f.got \/ \E j \in DOMAIN s : j >= i + 1 /\ s[j] = d
  BY <1>1, <1>3, <1>4, <1>6
<1>8. CASE i = Len(s)
  <2>1. q = [f EXCEPT !.at = None, !.pc = "next"]
    BY <1>5, <1>8 DEF NR!AtNext
  <2>2. /\ q \in NR!Frames /\ q.pc = "next" /\ q.got = f.got /\ q.due = f.due
        /\ q.list = f.list
    BY <2>1 DEF NR!Frames, NR!Labels
  <2>3. \A d \in f.due : active[d] /\ d \notin expired => d \in f.got
    BY <1>3, <1>7, <1>8
  <2>. HIDE DEF s
  <2> QED BY <1>1, <2>2, <2>3 DEF NR!FrameIsSound, NR!Walking, NR!Revoking, NR!Dying
<1>9. CASE i # Len(s)
  <2>0. i + 1 \in DOMAIN s /\ s[i + 1] \in Deliverers /\ s[i + 1] # None
    BY <1>3, <1>9 DEF NR!NoticeAssumption
  <2>1. q = [f EXCEPT !.at = s[i + 1], !.pc = "check"]
    BY <1>5, <1>9, <2>0 DEF NR!AtNext
  <2>2. /\ q \in NR!Frames /\ q.pc = "check" /\ q.got = f.got /\ q.due = f.due
        /\ q.list = f.list /\ q.at = s[i + 1]
    BY <2>0, <2>1 DEF NR!Frames, NR!Labels
  <2>3. \A j \in DOMAIN s : j >= i + 1 =>
          /\ s[j] \notin f.got
          /\ active[s[j]] /\ s[j] \notin expired => s[j] \in f.due
    BY <1>3, <1>4
  <2>4. NR!IsAt(q, i + 1)
    BY <1>7, <2>0, <2>2, <2>3 DEF NR!IsAt
  <2>5. \E j \in DOMAIN lists[q.list] : NR!IsAt(q, j)
    BY <2>0, <2>2, <2>4
  <2>. HIDE DEF s
  <2> QED BY <1>1, <2>0, <2>2, <2>5 DEF NR!FrameIsSound, NR!Walking, NR!Revoking, NR!Dying
<1> QED BY <1>8, <1>9

(* The innermost call of a thread.                                         *)
LEMMA TopIs ==
  ASSUME NR!IInv, NEW t \in Callers, calls[t] # << >>
  PROVE  /\ NR!Top(t) \in NR!AllFrames /\ NR!Top(t) \in NR!Frames
         /\ NR!FrameIsSound(NR!Top(t))
         /\ NR!AllFrames \subseteq NR!Frames
<1>1. Len(calls[t]) \in DOMAIN calls[t]
  BY DEF NR!IInv, NR!TypeOK
<1>2. NR!Top(t) \in NR!AllFrames
  BY <1>1 DEF NR!AllFrames, NR!Top
<1>3. NR!AllFrames \subseteq NR!Frames
  BY DEF NR!IInv, NR!TypeOK, NR!AllFrames
<1> QED BY <1>2, <1>3 DEF NR!IInv, NR!FramesAreSound

(* The innermost call goes on, and nothing else changes.                   *)
LEMMA GoOnKeeps ==
  ASSUME NR!NoticeAssumption, NR!IInv, NEW t \in Callers, calls[t] # << >>,
         NEW f \in NR!Frames, NR!Become(t, f), IsUser(f) <=> IsUser(NR!Top(t)),
         f.pc \in NR!Owning => NR!Top(t).pc \in NR!Owning /\ f.at = NR!Top(t).at,
         NR!FrameIsSound(f),
         UNCHANGED <<lists, nrState, keyed, active, marked, expired, userCount, deadEntries>>
  PROVE  NR!IInv'
<1>. USE DEF NR!IInv
<1>1. /\ calls' \in [Callers -> Seq(NR!Frames)] /\ NR!CallsNest' /\ NR!OneOwner'
      /\ \A g \in NR!AllFrames' : g = f \/ (g \in NR!AllFrames /\ IsOther(t, g))
      /\ NR!Users' = NR!Users
  BY BecomeKeeps
<1>2. NR!UsersAreCounted'
  BY <1>1, UsersStep
<1>3. NR!TypeOK'
  BY <1>1 DEF NR!TypeOK
<1>4. NR!ListsAreExact' /\ NR!DeliverersLive'
  BY DEF NR!ListsAreExact, NR!DeliverersLive, NR!DeadEntriesAreExact
<1>5. \A g \in NR!Frames : NR!FrameIsSound(g) => NR!FrameIsSound(g)'
  BY DEF NR!FrameIsSound, NR!Dying, NR!IsAt
<1>6. NR!FramesAreSound'
  BY <1>1, <1>5, TopIs DEF NR!FramesAreSound
<1> QED BY <1>1, <1>2, <1>3, <1>4, <1>6

LEMMA GetHeadKeeps ==
  ASSUME NR!NoticeAssumption, NR!IInv, NEW t \in Callers, NR!GetHead(t)
  PROVE  NR!IInv'
<1>. DEFINE f == NR!Top(t)
<1>0. /\ calls[t] # << >> /\ f.pc = "head" /\ IsUser(f) /\ f \in NR!Frames
      /\ NR!FrameIsSound(f)
  BY TopIs DEF NR!GetHead, NR!In, IsUser, NR!Uncounted, NR!Revoking
<1>. HIDE DEF f
<1>. DEFINE s == lists[f.list]
            due == {d \in Deliverers : /\ active[d] /\ d \notin expired
                                       /\ \E i \in DOMAIN s : s[i] = d}
            at == IF s = << >> THEN None ELSE Head(s)
            q == NR!AtNext([f EXCEPT !.got = {}, !.due = due], at)
<1>1. NR!Become(t, q)
  BY DEF NR!GetHead, f
<1>2. /\ s \in Seq(Deliverers) /\ f.list \in NR!Walked
      /\ DOMAIN s = 1..Len(s) /\ Len(s) \in Nat
  BY <1>0 DEF NR!FrameIsSound, NR!IInv, NR!TypeOK, NR!Revoking, NR!Dying
<1>3. due \subseteq Deliverers /\ at \in Deliverers \cup {None}
  BY <1>2
<1>4. /\ q.pc = (IF at = None THEN "next" ELSE "check") /\ q.at = at /\ q.list = f.list
      /\ q.got = {} /\ q.due = due /\ q \in NR!Frames
  <2>. HIDE DEF s, due, at
  <2> QED BY <1>0, <1>3 DEF NR!AtNext, NR!Frames, NR!Labels
<1>. HIDE DEF q
<1>5. CASE s = << >>
  <2>1. at = None /\ due = {}
    BY <1>5
  <2>2. NR!FrameIsSound(q)
    BY <1>2, <1>4, <2>1 DEF NR!FrameIsSound, NR!Walking, NR!Revoking, NR!Dying
  <2> QED BY <1>0, <1>1, <1>4, <2>1, <2>2, GoOnKeeps
      DEF NR!GetHead, NR!Owning, NR!Revoking, NR!Uncounted, IsUser, f
<1>6. CASE s # << >>
  <2>1. 1 \in DOMAIN s /\ at = s[1] /\ at \in Deliverers /\ at # None
    BY <1>2, <1>6 DEF NR!NoticeAssumption
  <2>2. \A j \in DOMAIN s : active[s[j]] /\ s[j] \notin expired => s[j] \in due
    BY <1>2
  <2>3. \A d \in due : \E j \in DOMAIN s : j >= 1 /\ s[j] = d
    BY <1>2
  <2>4. NR!IsAt(q, 1)
    <3>1. lists[q.list] = s
      BY <1>4
    <3>. HIDE DEF due, at, s
    <3>2. /\ q.at = s[1] /\ q.got = {} /\ q.due = due
      BY <1>4, <2>1
    <3>3. \A d \in q.due : active[d] /\ d \notin expired =>
            d \in q.got \/ \E j \in DOMAIN s : j >= 1 /\ s[j] = d
      BY <2>3, <3>2
    <3>4. \A j \in DOMAIN s : j >= 1 =>
            /\ s[j] \in q.got => j = 1 /\ q.pc = "handler"
            /\ active[s[j]] /\ s[j] \notin expired => s[j] \in q.due
      BY <2>2, <3>2
    <3> QED BY <2>1, <3>1, <3>2, <3>3, <3>4 DEF NR!IsAt
  <2>5. \E j \in DOMAIN lists[q.list] : NR!IsAt(q, j)
    BY <1>4, <2>1, <2>4
  <2>6. NR!FrameIsSound(q)
    <3>. HIDE DEF due, at, s
    <3> QED BY <1>2, <1>4, <2>1, <2>5 DEF NR!FrameIsSound, NR!Walking, NR!Revoking, NR!Dying
  <2> QED BY <1>0, <1>1, <1>4, <2>1, <2>6, GoOnKeeps
      DEF NR!GetHead, NR!Owning, NR!Revoking, NR!Uncounted, IsUser, f
<1> QED BY <1>5, <1>6

LEMMA CheckActiveKeeps ==
  ASSUME NR!NoticeAssumption, NR!IInv, NEW t \in Callers, NR!CheckActive(t)
  PROVE  NR!IInv'
<1>. DEFINE f == NR!Top(t)
<1>0. /\ calls[t] # << >> /\ f.pc = "check" /\ IsUser(f) /\ f \in NR!Frames
      /\ NR!FrameIsSound(f)
  BY TopIs DEF NR!CheckActive, NR!In, IsUser, NR!Uncounted, NR!Revoking
<1>. HIDE DEF f
<1>. DEFINE q == [f EXCEPT !.pc = IF active[f.at] THEN "invoke" ELSE "bury"]
<1>1. NR!Become(t, q)
  BY DEF NR!CheckActive, f
<1>2. /\ q.pc = (IF active[f.at] THEN "invoke" ELSE "bury") /\ q.at = f.at
      /\ q.list = f.list /\ q.got = f.got /\ q.due = f.due /\ q \in NR!Frames
  BY <1>0 DEF NR!Frames, NR!Labels
<1>. HIDE DEF q
<1>3. PICK i \in DOMAIN lists[f.list] : NR!IsAt(f, i)
  BY <1>0 DEF NR!FrameIsSound, NR!Walking, NR!Revoking, NR!Dying
<1>4. NR!IsAt(q, i)
  BY <1>0, <1>2, <1>3 DEF NR!IsAt
<1>5. active[f.at] => f.at \in f.due \cup expired
  <2>1. i \in Int
    <3>1. lists[f.list] \in Seq(Deliverers)
      BY <1>0 DEF NR!FrameIsSound, NR!Walking, NR!IInv, NR!TypeOK, NR!Revoking, NR!Dying
    <3> QED BY <3>1
  <2> QED BY <1>3, <2>1 DEF NR!IsAt
<1>6. NR!FrameIsSound(q)
  BY <1>0, <1>2, <1>3, <1>4, <1>5 DEF NR!FrameIsSound, NR!Walking,
         NR!Revoking, NR!Dying
<1> QED BY <1>0, <1>1, <1>2, <1>6, GoOnKeeps
      DEF NR!CheckActive, NR!Owning, NR!Revoking, NR!Uncounted, IsUser, f

LEMMA SendToListenerKeeps ==
  ASSUME NR!NoticeAssumption, NR!IInv, NEW t \in Callers, NR!SendToListener(t)
  PROVE  NR!IInv'
<1>. DEFINE f == NR!Top(t)
<1>0. /\ calls[t] # << >> /\ f.pc = "invoke" /\ f.at \notin expired /\ IsUser(f) /\ f \in NR!Frames
      /\ NR!FrameIsSound(f)
  BY TopIs DEF NR!SendToListener, NR!In, IsUser, NR!Uncounted, NR!Revoking
<1>. HIDE DEF f
<1>. DEFINE q == [f EXCEPT !.pc = "handler", !.got = f.got \cup {f.at}]
<1>1. NR!Become(t, q)
  BY DEF NR!SendToListener, f
<1>2. /\ q.pc = "handler" /\ q.at = f.at /\ q.list = f.list
      /\ q.got = f.got \cup {f.at} /\ q.due = f.due
      /\ f.at \in f.due /\ f.at \in Deliverers /\ f.list \in NR!Walked
      /\ f.got \subseteq f.due /\ q \in NR!Frames
  BY <1>0 DEF NR!Frames, NR!Labels, NR!FrameIsSound, NR!Walking, NR!Revoking, NR!Dying
<1>. HIDE DEF q
<1>3. PICK i \in DOMAIN lists[f.list] : NR!IsAt(f, i)
  BY <1>0 DEF NR!FrameIsSound, NR!Walking, NR!Revoking, NR!Dying
<1>4. \A j \in DOMAIN lists[f.list] : lists[f.list][j] = f.at => j = i
  BY <1>2, <1>3 DEF NR!IsAt, NR!IInv, NR!ListsAreExact
<1>5. NR!IsAt(q, i)
  BY <1>0, <1>2, <1>3, <1>4 DEF NR!IsAt
<1>6. NR!FrameIsSound(q)
  BY <1>2, <1>3, <1>5 DEF NR!FrameIsSound, NR!Walking, NR!Revoking, NR!Dying
<1> QED BY <1>0, <1>1, <1>2, <1>6, GoOnKeeps
      DEF NR!SendToListener, NR!Owning, NR!Revoking, NR!Uncounted, IsUser, f

LEMMA SendToExpiredKeeps ==
  ASSUME NR!NoticeAssumption, NR!IInv, NEW t \in Callers, NR!SendToExpired(t)
  PROVE  NR!IInv'
<1>. DEFINE f == NR!Top(t)
<1>0. /\ calls[t] # << >> /\ f.pc = "invoke" /\ f.at \in expired /\ IsUser(f) /\ f \in NR!Frames
      /\ NR!FrameIsSound(f)
  BY TopIs DEF NR!SendToExpired, NR!In, IsUser, NR!Uncounted, NR!Revoking
<1>. HIDE DEF f
<1>. DEFINE q == [f EXCEPT !.pc = "bury"]
<1>1. NR!Become(t, q)
  BY DEF NR!SendToExpired, f
<1>2. /\ q.pc = "bury" /\ q.at = f.at /\ q.list = f.list /\ q.got = f.got
      /\ q.due = f.due /\ q \in NR!Frames
  BY <1>0 DEF NR!Frames, NR!Labels
<1>. HIDE DEF q
<1>3. PICK i \in DOMAIN lists[f.list] : NR!IsAt(f, i)
  BY <1>0 DEF NR!FrameIsSound, NR!Walking, NR!Revoking, NR!Dying
<1>4. NR!IsAt(q, i)
  BY <1>0, <1>2, <1>3 DEF NR!IsAt
<1>5. NR!FrameIsSound(q)
  BY <1>0, <1>2, <1>3, <1>4 DEF NR!FrameIsSound, NR!Walking, NR!Revoking, NR!Dying
<1> QED BY <1>0, <1>1, <1>2, <1>5, GoOnKeeps
      DEF NR!SendToExpired, NR!Owning, NR!Revoking, NR!Uncounted, IsUser, f

LEMMA ListenerReturnsKeeps ==
  ASSUME NR!NoticeAssumption, NR!IInv, NEW t \in Callers, NR!ListenerReturns(t)
  PROVE  NR!IInv'
<1>. DEFINE f == NR!Top(t)
<1>0. /\ calls[t] # << >> /\ f.pc = "handler" /\ IsUser(f) /\ f \in NR!Frames
      /\ NR!FrameIsSound(f)
  BY TopIs DEF NR!ListenerReturns, NR!In, IsUser, NR!Uncounted, NR!Revoking
<1>. HIDE DEF f
<1>. DEFINE q == NR!AtNext(f, NR!After(f))
<1>1. NR!Become(t, q)
  BY DEF NR!ListenerReturns, f
<1>2. q \in NR!Frames /\ q.pc \in {"check", "next"} /\ NR!FrameIsSound(q)
  <2>1. NR!TypeOK /\ NR!ListsAreExact
    BY DEF NR!IInv
  <2> QED BY <1>0, <2>1, AdvanceIsSound
<1>. HIDE DEF q
<1> QED BY <1>0, <1>1, <1>2, GoOnKeeps
      DEF NR!ListenerReturns, NR!Owning, NR!Revoking, NR!Uncounted, IsUser, f

LEMMA NextListKeeps ==
  ASSUME NR!NoticeAssumption, NR!IInv, NEW t \in Callers, NR!NextList(t)
  PROVE  NR!IInv'
<1>. DEFINE f == NR!Top(t)
<1>0. /\ calls[t] # << >> /\ f.pc = "next" /\ f.list < NumLists /\ IsUser(f) /\ f \in NR!Frames
      /\ NR!FrameIsSound(f)
  BY TopIs DEF NR!NextList, NR!In, IsUser, NR!Uncounted, NR!Revoking
<1>. HIDE DEF f
<1>. DEFINE q == [f EXCEPT !.pc = "head", !.list = f.list + 1]
<1>1. NR!Become(t, q)
  BY DEF NR!NextList, f
<1>2. f.list \in NR!Walked /\ f.list + 1 \in NR!Walked /\ f.list + 1 \in 0..NumLists
  BY <1>0 DEF NR!FrameIsSound, NR!Walked, NR!NoticeAssumption, NR!Revoking, NR!Dying
<1>3. /\ q.pc = "head" /\ q.list = f.list + 1 /\ q.got = f.got /\ q.due = f.due
      /\ q \in NR!Frames
  BY <1>0, <1>2 DEF NR!Frames, NR!Labels
<1>. HIDE DEF q
<1>4. NR!FrameIsSound(q)
  BY <1>0, <1>2, <1>3 DEF NR!FrameIsSound, NR!Walking, NR!Revoking, NR!Dying
<1> QED BY <1>0, <1>1, <1>3, <1>4, GoOnKeeps
      DEF NR!NextList, NR!Owning, NR!Revoking, NR!Uncounted, IsUser, f
LEMMA BuryKeeps ==
  ASSUME NR!NoticeAssumption, NR!IInv, NEW t \in Callers, NR!Bury(t)
  PROVE  NR!IInv'
<1>. USE DEF NR!IInv
<1>. DEFINE f == NR!Top(t)
<1>0. /\ calls[t] # << >> /\ f.pc = "bury" /\ f \in NR!Frames /\ NR!FrameIsSound(f)
      /\ NR!AllFrames \subseteq NR!Frames
  BY TopIs DEF NR!Bury, NR!In
<1>. HIDE DEF f
<1>. DEFINE q == NR!AtNext(f, NR!After(f))
<1>1. /\ NR!Become(t, q) /\ f.at \in Deliverers /\ (~active[f.at] \/ f.at \in expired)
      /\ \E i \in DOMAIN lists[f.list] : lists[f.list][i] = f.at
      /\ f.list \in NR!Walked
  BY <1>0 DEF NR!Bury, f, NR!FrameIsSound, NR!Walking, NR!IsAt, NR!Revoking, NR!Dying
<1>2. q \in NR!Frames /\ q.pc \in {"check", "next"} /\ NR!FrameIsSound(q)
  BY <1>0, AdvanceIsSound
<1>. HIDE DEF q
<1>3. nrState[f.at] = "allocated"
  BY <1>1 DEF NR!ListsAreExact
<1>4. /\ calls' \in [Callers -> Seq(NR!Frames)] /\ NR!CallsNest' /\ NR!OneOwner'
      /\ \A g \in NR!AllFrames' : g = q \/ g \in NR!AllFrames
      /\ NR!Users' = NR!Users
  BY <1>0, <1>1, <1>2, BecomeKeeps DEF IsUser, NR!Owning, f, NR!Uncounted, NR!Revoking
<1>5. NR!UsersAreCounted'
  BY <1>4, UsersStep DEF NR!Bury
<1>6. /\ active' \in [Deliverers -> BOOLEAN] /\ marked' \in [Deliverers -> BOOLEAN]
      /\ deadEntries' \subseteq Deliverers
      /\ \A d \in Deliverers : IF d = f.at
           THEN marked'[d] /\ ~active'[d] /\ d \in deadEntries'
           ELSE /\ marked'[d] = marked[d] /\ active'[d] = active[d]
                /\ d \in deadEntries' <=> d \in deadEntries
  <2>1. CASE marked[f.at]
    BY <1>1, <1>3, <2>1 DEF NR!Bury, NR!TypeOK, NR!DeliverersLive, f,
         NR!DeadEntriesAreExact
  <2>2. CASE ~marked[f.at]
    BY <1>1, <2>2 DEF NR!Bury, NR!TypeOK, f
  <2> QED BY <2>1, <2>2
<1>7. NR!TypeOK'
  BY <1>4, <1>6 DEF NR!TypeOK, NR!Bury
<1>8. NR!ListsAreExact'
  BY DEF NR!ListsAreExact, NR!Bury
<1>9. f.at \in keyed
  BY <1>1 DEF NR!DeliverersLive, NR!DeadEntriesAreExact
<1>10. NR!DeliverersLive'
  <2>1. NR!DeadEntriesAreExact'
    BY <1>3, <1>6 DEF NR!DeliverersLive, NR!Bury, NR!DeadEntriesAreExact
  <2> QED BY <1>6, <1>9, <2>1 DEF NR!DeliverersLive, NR!Bury, NR!DeadEntriesAreExact
<1>11. ASSUME NEW g \in NR!Frames, NR!FrameIsSound(g) PROVE NR!FrameIsSound(g)'
  <2>1. /\ \A d \in Deliverers : active'[d] => active[d]
        /\ expired \subseteq expired' /\ UNCHANGED <<lists, nrState, keyed>>
    BY <1>6 DEF NR!Bury
  <2> QED BY <1>11, <2>1, SoundnessStays
<1>12. NR!FramesAreSound'
  BY <1>0, <1>2, <1>4, <1>11 DEF NR!FramesAreSound
<1> QED BY <1>4, <1>5, <1>7, <1>8, <1>10, <1>12

LEMMA BeginSendKeeps ==
  ASSUME NR!NoticeAssumption, NR!IInv, NEW t \in Callers, NR!BeginSend(t)
  PROVE  NR!IInv'
<1>. USE DEF NR!IInv
<1>. DEFINE f == NR!Frame("head", 1, None)
<1>1. /\ NR!MayCall(t) /\ NR!Push(t, f)
      /\ UNCHANGED <<lists, nrState, keyed, active, marked, expired, deadEntries>>
  BY DEF NR!BeginSend
<1>2. f \in NR!Frames /\ NR!FrameIsSound(f)
  BY DEF NR!Frame, NR!Frames, NR!Labels, NR!FrameIsSound, NR!Walking, NR!Walked,
         NR!NoticeAssumption, NR!Revoking, NR!Dying
<1>3. \A g \in NR!AllFrames : f.pc \in NR!Owning /\ g.pc \in NR!Owning => g.at # f.at
  BY DEF NR!Frame, NR!Owning, NR!Revoking
<1>4. IsUser(f)
  BY DEF IsUser, NR!Frame, NR!Uncounted, NR!Revoking
<1>. HIDE DEF f
<1>5. /\ calls' \in [Callers -> Seq(NR!Frames)] /\ NR!CallsNest' /\ NR!OneOwner'
      /\ \A g \in NR!AllFrames' : g = f \/ g \in NR!AllFrames
      /\ ~IsUser(f) => NR!Users' = NR!Users
      /\ IsUser(f) => \E x : x \notin NR!Users /\ NR!Users' = NR!Users \cup {x}
  BY <1>1, <1>2, <1>3, PushKeeps
<1>6. NR!UsersAreCounted'
  BY <1>4, <1>5, UsersStep DEF NR!BeginSend, NR!Frame, f
<1>7. NR!TypeOK'
  BY <1>1, <1>5 DEF NR!TypeOK, NR!BeginSend
<1>8. NR!ListsAreExact' /\ NR!DeliverersLive'
  BY <1>1 DEF NR!ListsAreExact, NR!DeliverersLive, NR!DeadEntriesAreExact
<1>9. \A g \in NR!Frames : NR!FrameIsSound(g) => NR!FrameIsSound(g)'
  BY <1>1 DEF NR!FrameIsSound, NR!IsAt, NR!Revoking, NR!Dying
<1>10. NR!AllFrames \subseteq NR!Frames
  BY DEF NR!TypeOK, NR!AllFrames
<1>11. NR!FramesAreSound'
  BY <1>2, <1>5, <1>9, <1>10 DEF NR!FramesAreSound
<1> QED BY <1>5, <1>6, <1>7, <1>8, <1>11

LEMMA BeginRegisterKeeps ==
  ASSUME NR!NoticeAssumption, NR!IInv, NEW t \in Callers, NEW d \in Deliverers, NR!BeginRegister(t, d)
  PROVE  NR!IInv'
<1>. USE DEF NR!IInv
<1>. DEFINE f == NR!Frame("prepend", 0, d)
<1>1. /\ NR!MayCall(t) /\ NR!Push(t, f)
      /\ UNCHANGED <<lists, nrState, keyed, active, marked, expired, deadEntries>>
  BY DEF NR!BeginRegister
<1>2. f \in NR!Frames /\ NR!FrameIsSound(f)
  BY DEF NR!Frame, NR!Frames, NR!Labels, NR!FrameIsSound, NR!Walking, NR!BeginRegister,
         NR!NoticeAssumption, NR!Revoking, NR!Dying
<1>3. \A g \in NR!AllFrames : f.pc \in NR!Owning /\ g.pc \in NR!Owning => g.at # f.at
  BY DEF NR!Frame, NR!BeginRegister, NR!AllFrames
<1>4. IsUser(f)
  BY DEF IsUser, NR!Frame, NR!Uncounted, NR!Revoking
<1>. HIDE DEF f
<1>5. /\ calls' \in [Callers -> Seq(NR!Frames)] /\ NR!CallsNest' /\ NR!OneOwner'
      /\ \A g \in NR!AllFrames' : g = f \/ g \in NR!AllFrames
      /\ ~IsUser(f) => NR!Users' = NR!Users
      /\ IsUser(f) => \E x : x \notin NR!Users /\ NR!Users' = NR!Users \cup {x}
  BY <1>1, <1>2, <1>3, PushKeeps
<1>6. NR!UsersAreCounted'
  BY <1>4, <1>5, UsersStep DEF NR!BeginRegister, NR!Frame, f
<1>7. NR!TypeOK'
  BY <1>1, <1>5 DEF NR!TypeOK, NR!BeginRegister
<1>8. NR!ListsAreExact' /\ NR!DeliverersLive'
  BY <1>1 DEF NR!ListsAreExact, NR!DeliverersLive, NR!DeadEntriesAreExact
<1>9. \A g \in NR!Frames : NR!FrameIsSound(g) => NR!FrameIsSound(g)'
  BY <1>1 DEF NR!FrameIsSound, NR!IsAt, NR!Revoking, NR!Dying
<1>10. NR!AllFrames \subseteq NR!Frames
  BY DEF NR!TypeOK, NR!AllFrames
<1>11. NR!FramesAreSound'
  BY <1>2, <1>5, <1>9, <1>10 DEF NR!FramesAreSound
<1> QED BY <1>5, <1>6, <1>7, <1>8, <1>11

LEMMA BeginRevokeKeeps ==
  ASSUME NR!NoticeAssumption, NR!IInv, NEW t \in Callers, NEW d \in Deliverers, NR!BeginRevoke(t, d)
  PROVE  NR!IInv'
<1>. USE DEF NR!IInv
<1>. DEFINE f == NR!Frame("valid", 0, d)
<1>1. /\ NR!MayCall(t) /\ NR!Push(t, f)
      /\ UNCHANGED <<lists, nrState, keyed, active, marked, expired, deadEntries>>
  BY DEF NR!BeginRevoke
<1>2. f \in NR!Frames /\ NR!FrameIsSound(f)
  BY DEF NR!Frame, NR!Frames, NR!Labels, NR!FrameIsSound, NR!Walking, NR!BeginRevoke,
         NR!NoticeAssumption, NR!Revoking, NR!Dying
<1>3. \A g \in NR!AllFrames : f.pc \in NR!Owning /\ g.pc \in NR!Owning => g.at # f.at
  <2>1. d \in keyed /\ nrState[d] = "allocated"
    BY DEF NR!BeginRevoke
  <2>2. \A g \in NR!AllFrames : g.pc \in NR!Revoking => g.at # d
    BY DEF NR!BeginRevoke, NR!AllFrames
  <2>3. \A g \in NR!AllFrames :
          /\ g.pc = "prepend" => nrState[g.at] = "new"
          /\ g.pc \in {"leave", "key"} => g.at \notin keyed
    BY DEF NR!FramesAreSound, NR!FrameIsSound, NR!Revoking, NR!Dying
  <2> QED BY <2>1, <2>2, <2>3 DEF NR!Frame, NR!Owning, NR!Revoking
<1>4. ~IsUser(f)
  BY DEF IsUser, NR!Frame, NR!Uncounted, NR!Revoking
<1>. HIDE DEF f
<1>5. /\ calls' \in [Callers -> Seq(NR!Frames)] /\ NR!CallsNest' /\ NR!OneOwner'
      /\ \A g \in NR!AllFrames' : g = f \/ g \in NR!AllFrames
      /\ ~IsUser(f) => NR!Users' = NR!Users
      /\ IsUser(f) => \E x : x \notin NR!Users /\ NR!Users' = NR!Users \cup {x}
  BY <1>1, <1>2, <1>3, PushKeeps
<1>6. NR!UsersAreCounted'
  BY <1>4, <1>5, UsersStep DEF NR!BeginRevoke, NR!Frame, f
<1>7. NR!TypeOK'
  BY <1>1, <1>5 DEF NR!TypeOK, NR!BeginRevoke
<1>8. NR!ListsAreExact' /\ NR!DeliverersLive'
  BY <1>1 DEF NR!ListsAreExact, NR!DeliverersLive, NR!DeadEntriesAreExact
<1>9. \A g \in NR!Frames : NR!FrameIsSound(g) => NR!FrameIsSound(g)'
  BY <1>1 DEF NR!FrameIsSound, NR!IsAt, NR!Revoking, NR!Dying
<1>10. NR!AllFrames \subseteq NR!Frames
  BY DEF NR!TypeOK, NR!AllFrames
<1>11. NR!FramesAreSound'
  BY <1>2, <1>5, <1>9, <1>10 DEF NR!FramesAreSound
<1> QED BY <1>5, <1>6, <1>7, <1>8, <1>11

LEMMA PrependKeeps ==
  ASSUME NR!NoticeAssumption, NR!IInv, NEW t \in Callers, NR!Prepend(t)
  PROVE  NR!IInv'
<1>. USE DEF NR!IInv
<1>. DEFINE f == NR!Top(t)
<1>0. /\ calls[t] # << >> /\ f.pc = "prepend" /\ f \in NR!Frames /\ NR!FrameIsSound(f)
      /\ NR!AllFrames \subseteq NR!Frames
  BY TopIs DEF NR!Prepend, NR!In
<1>. HIDE DEF f
<1>. DEFINE d == f.at
            q == [f EXCEPT !.pc = "leave"]
<1>1. NR!Become(t, q)
  BY DEF NR!Prepend, f
<1>2. /\ d \in Deliverers /\ nrState[d] = "new" /\ d \notin keyed /\ ~marked[d]
      /\ f.got \subseteq f.due
  BY <1>0 DEF NR!FrameIsSound, NR!DeliverersLive, NR!Walking,
         NR!Revoking, NR!Dying, NR!DeadEntriesAreExact
<1>3. /\ q.pc = "leave" /\ q.at = d /\ q.got = f.got /\ q.due = f.due /\ q \in NR!Frames
  BY <1>0 DEF NR!Frames, NR!Labels
<1>. HIDE DEF q
<1>4. /\ calls' \in [Callers -> Seq(NR!Frames)] /\ NR!CallsNest' /\ NR!OneOwner'
      /\ \A g \in NR!AllFrames' : g = q \/ (g \in NR!AllFrames /\ IsOther(t, g))
      /\ NR!Users' = NR!Users
  BY <1>0, <1>1, <1>3, BecomeKeeps DEF IsUser, NR!Owning, f, NR!Uncounted, NR!Revoking
<1>5. NR!UsersAreCounted'
  BY <1>4, UsersStep DEF NR!Prepend
<1>6. PICK l \in NR!Walked : lists' = [lists EXCEPT ![l] = <<d>> \o @]
  BY DEF NR!Prepend, f
<1>7. nrState' = [nrState EXCEPT ![d] = "allocated"]
  BY DEF NR!Prepend, f
<1>8. /\ lists \in [NR!Walked -> Seq(Deliverers)] /\ nrState \in [Deliverers -> {"new", "allocated", "freed"}]
      /\ lists[l] \in Seq(Deliverers)
  BY DEF NR!TypeOK
<1>9. /\ lists'[l] = <<d>> \o lists[l] /\ lists'[l] \in Seq(Deliverers)
      /\ \A m \in NR!Walked \ {l} : lists'[m] = lists[m]
      /\ lists' \in [NR!Walked -> Seq(Deliverers)]
  BY <1>2, <1>6, <1>8
<1>10. /\ 1 \in DOMAIN lists'[l] /\ lists'[l][1] = d
       /\ \A i \in DOMAIN lists[l] : i + 1 \in DOMAIN lists'[l] /\ lists'[l][i + 1] = lists[l][i]
       /\ \A i \in DOMAIN lists'[l] : i = 1 \/ i - 1 \in DOMAIN lists[l]
       /\ \A i \in DOMAIN lists'[l] : i \in Nat \ {0}
  BY <1>8, <1>9
<1>11. \A m \in NR!Walked : \A i \in DOMAIN lists[m] : lists[m][i] # d
  BY <1>2 DEF NR!ListsAreExact
<1>12. ASSUME NEW m \in NR!Walked, NEW i \in DOMAIN lists'[m]
       PROVE  \/ m = l /\ i = 1 /\ lists'[m][i] = d
              \/ m = l /\ i - 1 \in DOMAIN lists[m] /\ lists'[m][i] = lists[m][i - 1]
                 /\ lists'[m][i] # d
              \/ m # l /\ i \in DOMAIN lists[m] /\ lists'[m][i] = lists[m][i] /\ lists'[m][i] # d
  <2>1. CASE m = l
    <3>1. CASE i = 1
      BY <1>10, <2>1, <3>1
    <3>2. CASE i # 1
      <4>1. i - 1 \in DOMAIN lists[l] /\ (i - 1) + 1 = i
        BY <1>10, <1>12, <2>1, <3>2
      <4> QED BY <1>10, <1>11, <2>1, <4>1
    <3> QED BY <3>1, <3>2
  <2>2. CASE m # l
    BY <1>9, <1>11, <1>12, <2>2
  <2> QED BY <2>1, <2>2
<1>13. NR!ListsAreExact'
  <2>1. ASSUME NEW m \in NR!Walked, NEW k \in NR!Walked, NEW i \in DOMAIN lists'[m],
               NEW j \in DOMAIN lists'[k], lists'[m][i] = lists'[k][j]
        PROVE  m = k /\ i = j
    <3>0. m = l => i \in Nat
      BY <1>10, <2>1
    <3>1. k = l => j \in Nat
      BY <1>10, <2>1
    <3>2. CASE lists'[m][i] = d
      BY <1>12, <2>1, <3>2
    <3>3. CASE m = l /\ k = l /\ lists'[m][i] # d
      <4>1. /\ i - 1 \in DOMAIN lists[l] /\ j - 1 \in DOMAIN lists[l]
            /\ lists[l][i - 1] = lists[l][j - 1]
        BY <1>12, <2>1, <3>3
      <4>2. i - 1 = j - 1
        BY <4>1 DEF NR!ListsAreExact
      <4> QED BY <3>0, <3>1, <3>3, <4>2
    <3>4. CASE ~(m = l /\ k = l) /\ lists'[m][i] # d
      BY <1>12, <2>1, <3>4 DEF NR!ListsAreExact
    <3> QED BY <3>2, <3>3, <3>4
  <2>2. ASSUME NEW e \in Deliverers
        PROVE  nrState'[e] = "allocated" <=>
                 \E m \in NR!Walked : \E i \in DOMAIN lists'[m] : lists'[m][i] = e
    <3>1. CASE e = d
      BY <1>2, <1>7, <1>8, <1>10, <3>1
    <3>2. CASE e # d
      <4>1. nrState'[e] = "allocated" <=>
              \E m \in NR!Walked : \E i \in DOMAIN lists[m] : lists[m][i] = e
        BY <1>7, <1>8, <3>2 DEF NR!ListsAreExact
      <4>2. ASSUME NEW m \in NR!Walked, NEW i \in DOMAIN lists[m], lists[m][i] = e
            PROVE  \E j \in DOMAIN lists'[m] : lists'[m][j] = e
        BY <1>9, <1>10, <4>2
      <4>3. ASSUME NEW m \in NR!Walked, NEW i \in DOMAIN lists'[m], lists'[m][i] = e
            PROVE  \E j \in DOMAIN lists[m] : lists[m][j] = e
        BY <1>12, <3>2, <4>3
      <4> QED BY <4>1, <4>2, <4>3
    <3> QED BY <3>1, <3>2
  <2> QED BY <2>1, <2>2 DEF NR!ListsAreExact
<1>14. NR!TypeOK'
  BY <1>4, <1>7, <1>8, <1>9 DEF NR!TypeOK, NR!Prepend
<1>15. NR!DeliverersLive'
  <2>1. \A e \in Deliverers : marked[e] =>
          (nrState'[e] = "allocated" <=> nrState[e] = "allocated")
    BY <1>2, <1>7, <1>8
  <2>2. \A e \in Deliverers : nrState[e] # "new" => nrState'[e] # "new"
    BY <1>2, <1>7, <1>8
  <2> QED BY <2>1, <2>2 DEF NR!DeliverersLive, NR!Prepend, NR!DeadEntriesAreExact
<1>16. UNCHANGED <<keyed, active, marked, expired>>
  BY DEF NR!Prepend
<1>. HIDE DEF d
<1>17. ASSUME NEW g \in NR!AllFrames, IsOther(t, g) PROVE NR!FrameIsSound(g)'
  <2>0. g \in NR!Frames /\ NR!FrameIsSound(g)
    BY <1>0, <1>17 DEF NR!FramesAreSound
  <2>1. g.pc \in NR!Owning => g.at # d
    BY <1>0, <1>17, OthersOwnOthers DEF NR!Owning, f, d, NR!Revoking
  <2>2. /\ g.pc = "prepend" => nrState'[g.at] = "new"
        /\ g.pc \in {"leave", "key", "valid", "revoke", "fatal"} =>
             nrState'[g.at] = nrState[g.at]
    BY <1>2, <1>7, <1>8, <2>0, <2>1 DEF NR!FrameIsSound, NR!Owning, NR!Revoking, NR!Dying
  <2>3. ASSUME g.pc \in NR!Walking
        PROVE  \E i \in DOMAIN lists'[g.list] : NR!IsAt(g, i)'
    <3>0. g.list \in NR!Walked
      BY <2>0, <2>3 DEF NR!FrameIsSound, NR!Revoking, NR!Dying
    <3>1. PICK i \in DOMAIN lists[g.list] : NR!IsAt(g, i)
      BY <2>0, <2>3 DEF NR!FrameIsSound, NR!Revoking, NR!Dying
    <3>2. CASE g.list # l
      <4>1. lists'[g.list] = lists[g.list]
        BY <1>9, <3>0, <3>2
      <4> QED BY <1>16, <3>1, <4>1 DEF NR!IsAt
    <3>3. CASE g.list = l
      <4>1. i \in Nat /\ i + 1 \in DOMAIN lists'[l] /\ lists'[l][i + 1] = g.at
        BY <1>8, <1>10, <3>1, <3>3 DEF NR!IsAt
      <4>2. ASSUME NEW j \in DOMAIN lists'[l], j >= i + 1
            PROVE  /\ lists'[l][j] \in g.got => j = i + 1 /\ g.pc = "handler"
                   /\ active[lists'[l][j]] /\ lists'[l][j] \notin expired => lists'[l][j] \in g.due
        <5>1. /\ j \in Nat /\ j - 1 >= i /\ j - 1 \in DOMAIN lists[l]
              /\ lists'[l][j] = lists[l][j - 1]
          <6>1. j \in Nat /\ j # 1
            BY <1>8, <1>10, <3>1, <3>3, <4>1, <4>2
          <6>2. i >= 1
            BY <1>8, <3>1, <3>3
          <6> QED BY <1>12, <4>1, <4>2, <6>1, <6>2
        <5> QED BY <3>1, <3>3, <4>1, <5>1 DEF NR!IsAt
      <4>3. ASSUME NEW e \in g.due, active[e], e \notin expired
            PROVE  e \in g.got \/ \E j \in DOMAIN lists'[l] : j >= i + 1 /\ lists'[l][j] = e
        <5>1. CASE e \in g.got
          BY <5>1
        <5>2. CASE e \notin g.got
          <6>1. PICK j \in DOMAIN lists[l] : j >= i /\ lists[l][j] = e
            BY <3>1, <3>3, <4>3, <5>2 DEF NR!IsAt
          <6>2. j \in Nat /\ j + 1 >= i + 1
            BY <1>8, <4>1, <6>1
          <6> QED BY <1>10, <6>1, <6>2
        <5> QED BY <5>1, <5>2
      <4>4. NR!IsAt(g, i + 1)'
        BY <1>16, <3>3, <4>1, <4>2, <4>3 DEF NR!IsAt
      <4> QED BY <3>3, <4>1, <4>4
    <3> QED BY <3>2, <3>3
  <2> QED BY <1>16, <2>0, <2>2, <2>3 DEF NR!FrameIsSound, NR!Revoking, NR!Dying
<1>18. ASSUME NEW g, g = q PROVE NR!FrameIsSound(g)'
  <2>1. /\ g.pc = "leave" /\ g.at \in Deliverers /\ nrState'[g.at] = "allocated"
        /\ g.at \notin keyed' /\ g.got \subseteq g.due
    BY <1>2, <1>3, <1>7, <1>8, <1>16, <1>18 DEF d
  <2> QED BY <2>1 DEF NR!FrameIsSound, NR!Walking, NR!Revoking, NR!Dying
<1>19. NR!FramesAreSound'
  <2>1. \A g \in NR!AllFrames' : NR!FrameIsSound(g)'
    BY <1>4, <1>17, <1>18
  <2> QED BY <2>1 DEF NR!FramesAreSound
<1> QED BY <1>4, <1>5, <1>13, <1>14, <1>15, <1>19

LEMMA EndRegisterKeeps ==
  ASSUME NR!NoticeAssumption, NR!IInv, NEW t \in Callers, NR!EndRegister(t)
  PROVE  NR!IInv'
<1>. USE DEF NR!IInv
<1>. DEFINE f == NR!Top(t)
<1>0. /\ calls[t] # << >> /\ f.pc = "leave" /\ f \in NR!Frames /\ NR!FrameIsSound(f)
      /\ NR!AllFrames \subseteq NR!Frames
  BY TopIs DEF NR!EndRegister, NR!In
<1>. HIDE DEF f
<1>. DEFINE q == [f EXCEPT !.pc = "key"]
<1>1. NR!Become(t, q) /\ userCount' = userCount - 1
      /\ UNCHANGED <<lists, nrState, keyed, active, marked, expired, deadEntries>>
  BY DEF NR!EndRegister, f
<1>2. q.pc = "key" /\ q.at = f.at /\ q.got = f.got /\ q.due = f.due /\ q \in NR!Frames
  BY <1>0 DEF NR!Frames, NR!Labels
<1>. HIDE DEF q
<1>3. NR!FrameIsSound(q)
  BY <1>0, <1>2 DEF NR!FrameIsSound, NR!Walking, NR!Revoking, NR!Dying
<1>4. /\ calls' \in [Callers -> Seq(NR!Frames)] /\ NR!CallsNest' /\ NR!OneOwner'
      /\ \A g \in NR!AllFrames' : g = q \/ g \in NR!AllFrames
      /\ \E x \in NR!Users : NR!Users' = NR!Users \ {x}
  BY <1>0, <1>1, <1>2, BecomeKeeps DEF IsUser, NR!Owning, f, NR!Uncounted, NR!Revoking
<1>5. NR!UsersAreCounted' /\ userCount - 1 \in Nat
  <2>1. PICK x \in NR!Users : NR!Users' = NR!Users \ {x}
    BY <1>4
  <2>2. NR!UsersAreCounted'
    BY <1>1, <2>1, UsersStep
  <2>3. userCount # 0 /\ userCount \in Nat
    BY <2>1, UsersFinite, FS_EmptySet
  <2> QED BY <2>2, <2>3
<1>6. NR!TypeOK'
  BY <1>1, <1>4, <1>5 DEF NR!TypeOK
<1>7. NR!ListsAreExact' /\ NR!DeliverersLive'
  BY <1>1 DEF NR!ListsAreExact, NR!DeliverersLive, NR!DeadEntriesAreExact
<1>8. \A g \in NR!Frames : NR!FrameIsSound(g) => NR!FrameIsSound(g)'
  BY <1>1 DEF NR!FrameIsSound, NR!IsAt, NR!Revoking, NR!Dying
<1>9. NR!FramesAreSound'
  BY <1>0, <1>2, <1>3, <1>4, <1>8 DEF NR!FramesAreSound
<1> QED BY <1>4, <1>5, <1>6, <1>7, <1>9

LEMMA ReturnKeyKeeps ==
  ASSUME NR!NoticeAssumption, NR!IInv, NEW t \in Callers, NR!ReturnKey(t)
  PROVE  NR!IInv'
<1>. USE DEF NR!IInv
<1>. DEFINE f == NR!Top(t)
<1>0. /\ calls[t] # << >> /\ f.pc = "key" /\ f \in NR!Frames /\ NR!FrameIsSound(f)
      /\ NR!AllFrames \subseteq NR!Frames
  BY TopIs DEF NR!ReturnKey, NR!In
<1>. HIDE DEF f
<1>1. /\ NR!Return(t) /\ keyed' = keyed \cup {f.at}
      /\ UNCHANGED <<lists, nrState, active, marked, expired, userCount, deadEntries>>
  BY DEF NR!ReturnKey, f
<1>2. f.at \in Deliverers /\ nrState[f.at] = "allocated"
  BY <1>0 DEF NR!FrameIsSound, NR!Revoking, NR!Dying
<1>3. /\ calls' \in [Callers -> Seq(NR!Frames)] /\ NR!CallsNest' /\ NR!OneOwner'
      /\ \A g \in NR!AllFrames' : g \in NR!AllFrames /\ IsOther(t, g)
      /\ NR!Users' = NR!Users
  BY <1>0, <1>1, ReturnKeeps DEF IsUser, f, NR!Uncounted, NR!Revoking
<1>4. NR!UsersAreCounted'
  BY <1>1, <1>3, UsersStep
<1>5. NR!TypeOK'
  BY <1>1, <1>2, <1>3 DEF NR!TypeOK
<1>6. NR!ListsAreExact' /\ NR!DeliverersLive'
  BY <1>1, <1>2 DEF NR!ListsAreExact, NR!DeliverersLive, NR!DeadEntriesAreExact
<1>7. ASSUME NEW g \in NR!AllFrames, IsOther(t, g) PROVE NR!FrameIsSound(g)'
  <2>1. g.pc \in NR!Owning => g.at # f.at
    BY <1>0, <1>7, OthersOwnOthers DEF NR!Owning, f, NR!Revoking
  <2>2. NR!FrameIsSound(g)
    BY <1>7 DEF NR!FramesAreSound
  <2>3. \A i : NR!IsAt(g, i) => NR!IsAt(g, i)'
    BY <1>1 DEF NR!IsAt
  <2> QED BY <1>1, <2>1, <2>2, <2>3 DEF NR!FrameIsSound, NR!Owning, NR!Revoking, NR!Dying
<1>8. NR!FramesAreSound'
  BY <1>3, <1>7 DEF NR!FramesAreSound
<1> QED BY <1>3, <1>4, <1>5, <1>6, <1>8

(* Deliverers are freed when the frames that are left are about to return  *)
(* a key, or revoke: those may find theirs freed, if it was dying.         *)
LEMMA FreedNotInUse ==
  ASSUME NR!TypeOK, NR!DeliverersLive, NEW ds,
         nrState' = [d \in Deliverers |-> IF d \in ds THEN "freed" ELSE nrState[d]],
         UNCHANGED <<keyed, active, expired>>,
         NEW g, NR!FrameIsSound(g), ~IsUser(g),
         g.at \in ds => g.pc # "key" /\ NR!Dying(g.at)
  PROVE  NR!FrameIsSound(g)'
BY DEF NR!FrameIsSound, NR!Revoking, NR!Dying, IsUser, NR!Uncounted, NR!Walking

LEMMA FreeingKeepsLive ==
  ASSUME NR!TypeOK, NR!DeliverersLive, NEW ds \in SUBSET Deliverers,
         nrState' = [d \in Deliverers |-> IF d \in ds THEN "freed" ELSE nrState[d]],
         UNCHANGED <<keyed, active, marked, expired>>,
         deadEntries \ ds \subseteq deadEntries', deadEntries' \subseteq deadEntries
  PROVE  /\ NR!DeliverersLive'
         /\ nrState' \in [Deliverers -> {"new", "allocated", "freed"}]
BY DEF NR!DeliverersLive, NR!DeadEntriesAreExact, NR!TypeOK

(* A call that revokes returns, and leaves the other frames sound.         *)
LEMMA RevokeReturns ==
  ASSUME NR!NoticeAssumption, NR!IInv, NEW t \in Callers, calls[t] # << >>,
         NR!Top(t).pc \in NR!Revoking, NR!Return(t), UNCHANGED userCount
  PROVE  /\ calls' \in [Callers -> Seq(NR!Frames)] /\ NR!CallsNest' /\ NR!OneOwner'
         /\ \A g \in NR!AllFrames' : /\ g \in NR!AllFrames /\ g \in NR!Frames
                                     /\ NR!FrameIsSound(g)
                                     /\ g.pc \in NR!Owning => g.at # NR!Top(t).at
         /\ NR!UsersAreCounted'
<1>. USE DEF NR!IInv
<1>1. /\ calls' \in [Callers -> Seq(NR!Frames)] /\ NR!CallsNest' /\ NR!OneOwner'
      /\ \A g \in NR!AllFrames' : g \in NR!AllFrames /\ IsOther(t, g)
      /\ NR!Users' = NR!Users
  BY ReturnKeeps DEF IsUser, NR!Uncounted
<1>2. NR!UsersAreCounted'
  BY <1>1, UsersStep
<1>3. \A g \in NR!AllFrames' : g.pc \in NR!Owning => g.at # NR!Top(t).at
  BY <1>1, OthersOwnOthers DEF NR!Owning
<1> QED BY <1>1, <1>2, <1>3, TopIs DEF NR!FramesAreSound

LEMMA KeyIsValidKeeps ==
  ASSUME NR!NoticeAssumption, NR!IInv, NEW t \in Callers, NR!KeyIsValid(t)
  PROVE  NR!IInv'
<1>. DEFINE f == NR!Top(t)
<1>0. /\ calls[t] # << >> /\ f.pc = "valid" /\ nrState[f.at] = "allocated"
      /\ f \in NR!Frames /\ NR!FrameIsSound(f)
      /\ UNCHANGED <<lists, nrState, keyed, active, marked, expired, userCount, deadEntries>>
  BY TopIs DEF NR!KeyIsValid, NR!In
<1>. HIDE DEF f
<1>1. CASE active[f.at]
  <2>. DEFINE q == [f EXCEPT !.pc = "revoke"]
  <2>1. NR!Become(t, q)
    BY <1>1 DEF NR!KeyIsValid, f
  <2>2. /\ q.pc = "revoke" /\ q.at = f.at /\ q.got = f.got /\ q.due = f.due
        /\ q \in NR!Frames
    BY <1>0 DEF NR!Frames, NR!Labels
  <2>. HIDE DEF q
  <2>3. NR!FrameIsSound(q)
    BY <1>0, <2>2 DEF NR!FrameIsSound, NR!Revoking, NR!Dying, NR!Walking
  <2> QED BY <1>0, <2>1, <2>2, <2>3, GoOnKeeps
        DEF NR!Owning, NR!Revoking, NR!Uncounted, IsUser, f
<1>2. CASE ~active[f.at]
  <2>1. NR!Return(t)
    BY <1>2 DEF NR!KeyIsValid, f
  <2>2. /\ calls' \in [Callers -> Seq(NR!Frames)] /\ NR!CallsNest' /\ NR!OneOwner'
        /\ NR!UsersAreCounted'
        /\ \A g \in NR!AllFrames' : g \in NR!Frames /\ NR!FrameIsSound(g)
    BY <1>0, <2>1, RevokeReturns DEF NR!Revoking, f
  <2>3. NR!TypeOK'
    BY <1>0, <2>2 DEF NR!IInv, NR!TypeOK
  <2>4. NR!ListsAreExact' /\ NR!DeliverersLive'
    BY <1>0 DEF NR!IInv, NR!ListsAreExact, NR!DeliverersLive, NR!DeadEntriesAreExact
  <2>5. \A g \in NR!Frames : NR!FrameIsSound(g) => NR!FrameIsSound(g)'
    BY <1>0 DEF NR!FrameIsSound, NR!Dying, NR!IsAt
  <2>6. NR!FramesAreSound'
    BY <2>2, <2>5 DEF NR!FramesAreSound
  <2> QED BY <2>2, <2>3, <2>4, <2>6 DEF NR!IInv
<1> QED BY <1>1, <1>2

LEMMA FatalErrorKeeps ==
  ASSUME NR!NoticeAssumption, NR!IInv, NEW t \in Callers, NR!FatalError(t)
  PROVE  NR!IInv'
<1>. DEFINE f == NR!Top(t)
            q == [f EXCEPT !.pc = "fatal"]
<1>0. /\ calls[t] # << >> /\ f.pc \in NR!Revoking /\ nrState[f.at] = "freed"
      /\ f \in NR!Frames /\ NR!FrameIsSound(f) /\ NR!Become(t, q)
      /\ UNCHANGED <<lists, nrState, keyed, active, marked, expired, userCount, deadEntries>>
  BY TopIs DEF NR!FatalError, NR!In, NR!Revoking
<1>. HIDE DEF f
<1>1. /\ q.pc = "fatal" /\ q.at = f.at /\ q.got = f.got /\ q.due = f.due
      /\ q \in NR!Frames
  BY <1>0 DEF NR!Frames, NR!Labels
<1>. HIDE DEF q
<1>2. NR!FrameIsSound(q)
  BY <1>0, <1>1 DEF NR!FrameIsSound, NR!Revoking, NR!Dying, NR!Walking
<1> QED BY <1>0, <1>1, <1>2, GoOnKeeps
      DEF NR!Owning, NR!Revoking, NR!Uncounted, IsUser, f

LEMMA RevokeFreeingKeeps ==
  ASSUME NR!NoticeAssumption, NR!IInv, NEW t \in Callers, NR!RevokeFreeing(t)
  PROVE  NR!IInv'
<1>. DEFINE f == NR!Top(t)
<1>0. /\ calls[t] # << >> /\ f.pc = "revoke" /\ NR!FrameIsSound(f) /\ userCount = 0
      /\ NR!Free({f.at}) /\ NR!Return(t)
      /\ UNCHANGED <<keyed, active, marked, expired, userCount, deadEntries>>
  BY TopIs DEF NR!RevokeFreeing, NR!In
<1>. HIDE DEF f
<1>1. f.at \in Deliverers /\ f.at \in keyed
  BY <1>0 DEF NR!FrameIsSound, NR!Revoking
<1>2. /\ calls' \in [Callers -> Seq(NR!Frames)] /\ NR!CallsNest' /\ NR!OneOwner'
      /\ NR!UsersAreCounted'
      /\ \A g \in NR!AllFrames' : /\ g \in NR!AllFrames /\ NR!FrameIsSound(g)
                                  /\ g.pc \in NR!Owning => g.at # f.at
  BY <1>0, RevokeReturns DEF NR!Revoking, f
<1>3. /\ lists' \in [NR!Walked -> Seq(Deliverers)] /\ NR!ListsAreExact'
      /\ nrState' = [d \in Deliverers |-> IF d \in {f.at} THEN "freed" ELSE nrState[d]]
  BY <1>0, FreeKeeps DEF NR!IInv
<1>4. NR!DeliverersLive' /\ nrState' \in [Deliverers -> {"new", "allocated", "freed"}]
  <2>1. /\ {f.at} \in SUBSET Deliverers /\ UNCHANGED <<keyed, active, marked, expired>>
        /\ deadEntries \ {f.at} \subseteq deadEntries' /\ deadEntries' \subseteq deadEntries
    BY <1>0, <1>1
  <2> QED BY <1>3, <2>1, FreeingKeepsLive DEF NR!IInv
<1>5. NR!TypeOK'
  BY <1>0, <1>2, <1>3, <1>4 DEF NR!IInv, NR!TypeOK
(* Of the frames that are left, those at the deliverer have met the error. *)
<1>6. \A g \in NR!AllFrames' :
        ~IsUser(g) /\ (g.at \in {f.at} => g.pc # "key" /\ NR!Dying(g.at))
  <2>. SUFFICES ASSUME NEW g \in NR!AllFrames'
                PROVE  ~IsUser(g) /\ (g.at = f.at => g.pc # "key" /\ NR!Dying(g.at))
    OBVIOUS
  <2>1. ~IsUser(g)
    BY <1>0, <1>2, NoOtherUsers DEF NR!IInv
  <2>2. ASSUME g.at = f.at PROVE g.pc = "fatal"
    BY <1>2, <2>1, <2>2 DEF IsUser, NR!Uncounted, NR!Owning
  <2> QED BY <1>2, <2>1, <2>2 DEF NR!FrameIsSound
<1>7. NR!FramesAreSound'
  BY <1>0, <1>2, <1>3, <1>6, FreedNotInUse DEF NR!IInv, NR!FramesAreSound
<1> QED BY <1>2, <1>3, <1>4, <1>5, <1>7 DEF NR!IInv

LEMMA RevokeDeactivatingKeeps ==
  ASSUME NR!NoticeAssumption, NR!IInv, NEW t \in Callers, NR!RevokeDeactivating(t)
  PROVE  NR!IInv'
<1>. DEFINE f == NR!Top(t)
<1>0. /\ calls[t] # << >> /\ f.pc = "revoke" /\ NR!FrameIsSound(f) /\ NR!Return(t)
      /\ active' = [active EXCEPT ![f.at] = FALSE]
      /\ UNCHANGED <<lists, nrState, keyed, marked, expired, userCount, deadEntries>>
  BY TopIs DEF NR!RevokeDeactivating, NR!In
<1>. HIDE DEF f
<1>1. f.at \in Deliverers /\ f.at \in keyed
  BY <1>0 DEF NR!FrameIsSound, NR!Revoking
<1>2. /\ calls' \in [Callers -> Seq(NR!Frames)] /\ NR!CallsNest' /\ NR!OneOwner'
      /\ NR!UsersAreCounted'
      /\ \A g \in NR!AllFrames' : g \in NR!Frames /\ NR!FrameIsSound(g)
  BY <1>0, RevokeReturns DEF NR!Revoking, f
<1>3. /\ active' \in [Deliverers -> BOOLEAN] /\ ~active'[f.at]
      /\ \A d \in Deliverers \ {f.at} : active'[d] = active[d]
  BY <1>0, <1>1 DEF NR!IInv, NR!TypeOK
<1>4. NR!TypeOK'
  BY <1>0, <1>2, <1>3 DEF NR!IInv, NR!TypeOK
<1>5. NR!ListsAreExact'
  BY <1>0 DEF NR!IInv, NR!ListsAreExact
<1>6. NR!DeliverersLive'
  BY <1>0, <1>1, <1>3 DEF NR!IInv, NR!DeliverersLive, NR!DeadEntriesAreExact
<1>7. \A d \in Deliverers : active'[d] => active[d]
  BY <1>3
<1>8. NR!FramesAreSound'
  BY <1>0, <1>2, <1>7, SoundnessStays DEF NR!IInv, NR!FramesAreSound
<1> QED BY <1>2, <1>4, <1>5, <1>6, <1>8 DEF NR!IInv

LEMMA EndSendKeeps ==
  ASSUME NR!NoticeAssumption, NR!IInv, NEW t \in Callers, NR!EndSend(t)
  PROVE  NR!IInv'
<1>. USE DEF NR!IInv
<1>. DEFINE f == NR!Top(t)
<1>0. /\ calls[t] # << >> /\ f.pc = "next" /\ f \in NR!Frames /\ NR!FrameIsSound(f)
      /\ NR!AllFrames \subseteq NR!Frames
  BY TopIs DEF NR!EndSend, NR!In
<1>. HIDE DEF f
<1>1. /\ NR!Return(t) /\ userCount' = userCount - 1
      /\ UNCHANGED <<keyed, active, marked, expired>>
  BY DEF NR!EndSend
<1>2. /\ calls' \in [Callers -> Seq(NR!Frames)] /\ NR!CallsNest' /\ NR!OneOwner'
      /\ \A g \in NR!AllFrames' : g \in NR!AllFrames /\ IsOther(t, g)
      /\ \E x \in NR!Users : NR!Users' = NR!Users \ {x}
  BY <1>0, <1>1, ReturnKeeps DEF IsUser, f, NR!Uncounted, NR!Revoking
<1>3. NR!UsersAreCounted' /\ userCount - 1 \in Nat
  <2>1. PICK x \in NR!Users : NR!Users' = NR!Users \ {x}
    BY <1>2
  <2>2. NR!UsersAreCounted'
    BY <1>1, <2>1, UsersStep
  <2>3. userCount # 0 /\ userCount \in Nat
    BY <2>1, UsersFinite, FS_EmptySet
  <2> QED BY <2>2, <2>3
<1>4. CASE userCount = 1
  <2>1. NR!Free(deadEntries) /\ deadEntries' = {}
    BY <1>4 DEF NR!EndSend
  <2>2. /\ lists' \in [NR!Walked -> Seq(Deliverers)] /\ NR!ListsAreExact'
        /\ nrState' = [d \in Deliverers |-> IF d \in deadEntries THEN "freed" ELSE nrState[d]]
    BY <2>1, FreeKeeps
  <2>3. deadEntries \in SUBSET Deliverers /\ deadEntries' \subseteq deadEntries
        /\ deadEntries \ deadEntries \subseteq deadEntries'
    BY <2>1 DEF NR!TypeOK
  <2>4. NR!DeliverersLive' /\ nrState' \in [Deliverers -> {"new", "allocated", "freed"}]
    BY <1>1, <2>2, <2>3, FreeingKeepsLive
  <2>5. NR!TypeOK'
    BY <1>1, <1>2, <1>3, <2>1, <2>2, <2>4 DEF NR!TypeOK
  <2>6. ASSUME NEW g \in NR!AllFrames'
        PROVE  /\ NR!FrameIsSound(g) /\ ~IsUser(g)
               /\ g.at \in deadEntries => g.pc # "key" /\ NR!Dying(g.at)
    <3>1. NR!FrameIsSound(g) /\ IsOther(t, g)
      BY <1>2, <2>6 DEF NR!FramesAreSound
    <3>2. ~IsUser(g)
      <4>1. IsUser(f)
        BY <1>0 DEF IsUser, NR!Uncounted, NR!Revoking
      <4> QED BY <1>0, <1>4, <3>1, <4>1, NoOtherUsers DEF IsOther, f
    <3>3. \A d \in deadEntries : d \in Deliverers /\ ~active[d] /\ d \in keyed
      BY DEF NR!DeliverersLive, NR!DeadEntriesAreExact
    <3>4. g.pc = "key" => g.at \notin keyed
      BY <3>1 DEF NR!FrameIsSound
    <3> QED BY <3>1, <3>2, <3>3, <3>4 DEF NR!Dying
  <2>7. NR!FramesAreSound'
    BY <1>1, <2>2, <2>6, FreedNotInUse DEF NR!FramesAreSound
  <2> QED BY <1>2, <1>3, <2>2, <2>4, <2>5, <2>7
<1>5. CASE userCount # 1
  <2>1. UNCHANGED <<lists, nrState, deadEntries>>
    BY <1>5 DEF NR!EndSend
  <2>2. NR!TypeOK'
    BY <1>1, <1>2, <1>3, <2>1 DEF NR!TypeOK
  <2>3. NR!ListsAreExact' /\ NR!DeliverersLive'
    BY <1>1, <2>1 DEF NR!ListsAreExact, NR!DeliverersLive, NR!DeadEntriesAreExact
  <2>4. \A g \in NR!Frames : NR!FrameIsSound(g) => NR!FrameIsSound(g)'
    BY <1>1, <2>1 DEF NR!FrameIsSound, NR!IsAt, NR!Revoking, NR!Dying
  <2>5. NR!FramesAreSound'
    BY <1>0, <1>2, <2>4 DEF NR!FramesAreSound
  <2> QED BY <1>2, <1>3, <2>2, <2>3, <2>5
<1> QED BY <1>4, <1>5

LEMMA ExpireKeeps ==
  ASSUME NR!NoticeAssumption, NR!IInv, NEW d \in Deliverers, NR!Expire(d)
  PROVE  NR!IInv'
<1>. USE DEF NR!IInv
<1>1. /\ d \in keyed /\ expired' = expired \cup {d}
      /\ UNCHANGED <<lists, nrState, keyed, active, marked, userCount, deadEntries, calls>>
  BY DEF NR!Expire
<1>2. NR!TypeOK'
  BY <1>1 DEF NR!TypeOK
<1>3. NR!CallsNest' /\ NR!UsersAreCounted' /\ NR!ListsAreExact' /\ NR!DeliverersLive'
      /\ NR!OneOwner' /\ NR!AllFrames' = NR!AllFrames
  BY <1>1 DEF NR!CallsNest, NR!UsersAreCounted, NR!Users, NR!ListsAreExact,
              NR!DeliverersLive, NR!OneOwner, NR!AllFrames, NR!DeadEntriesAreExact
<1>4. ASSUME NEW g \in NR!AllFrames PROVE NR!FrameIsSound(g)'
  <2>1. g \in NR!Frames /\ NR!FrameIsSound(g)
    BY DEF NR!TypeOK, NR!AllFrames, NR!FramesAreSound
  <2> QED BY <1>1, <2>1, SoundnessStays
<1>5. NR!FramesAreSound'
  BY <1>3, <1>4 DEF NR!FramesAreSound
<1> QED BY <1>2, <1>3, <1>5

LEMMA NoticesStep ==
  ASSUME NR!NoticeAssumption, NR!IInv, [NR!Next]_NR!vars PROVE NR!IInv'
<1>1. CASE UNCHANGED NR!vars
  BY <1>1, NoticesStutter
<1>2. CASE NR!Next
  BY <1>2, BeginSendKeeps, GetHeadKeeps, CheckActiveKeeps, SendToListenerKeeps,
     SendToExpiredKeeps, ListenerReturnsKeeps, BuryKeeps, NextListKeeps, EndSendKeeps,
     BeginRegisterKeeps, BeginRevokeKeeps, PrependKeeps, EndRegisterKeeps,
     ReturnKeyKeeps, KeyIsValidKeeps, RevokeFreeingKeeps, RevokeDeactivatingKeeps,
     FatalErrorKeeps, ExpireKeeps
  DEF NR!Next, NR!Send, NR!Register, NR!Revoke
<1> QED BY <1>1, <1>2

(***************************************************************************)
(* No deliverer is freed while a walk could reach it, and a list calls     *)
(* those it must call, each once: for any threads and lists, and calls in  *)
(* calls of any depth.                                                     *)
(***************************************************************************)
LEMMA NoticesReach ==
  ASSUME NR!IInv PROVE NR!NothingFreedInUse /\ NR!DeliveredOnce
<1>. USE DEF NR!IInv
<1>1. \A f \in NR!AllFrames : NR!FrameIsSound(f)
  BY DEF NR!FramesAreSound
<1>2. \A f \in NR!AllFrames :
        f.pc \in NR!Walking => \E i \in DOMAIN lists[f.list] : lists[f.list][i] = f.at
  BY <1>1 DEF NR!FrameIsSound, NR!IsAt, NR!Revoking, NR!Dying
<1>3. \A f \in NR!AllFrames :
        /\ f.pc = "key" => nrState[f.at] = "allocated"
        /\ f.pc \in NR!Revoking /\ nrState[f.at] = "freed" => NR!Dying(f.at)
        /\ f.pc = "fatal" => NR!Dying(f.at)
  BY <1>1 DEF NR!FrameIsSound, NR!Revoking, NR!Dying
<1>4. NR!NothingFreedInUse
  BY <1>2, <1>3 DEF NR!NothingFreedInUse, NR!DeliverersLive, NR!DeadEntriesAreExact
<1>5. ASSUME NEW f \in NR!AllFrames, f.pc \in {"check", "invoke"} PROVE f.at \notin f.got
  <2>1. f.list \in NR!Walked
    BY <1>1, <1>5 DEF NR!FrameIsSound, NR!Walking, NR!Revoking, NR!Dying
  <2>2. PICK i \in DOMAIN lists[f.list] : NR!IsAt(f, i)
    BY <1>1, <1>5 DEF NR!FrameIsSound, NR!Walking, NR!Revoking, NR!Dying
  <2>3. i >= i
    <3>1. lists[f.list] \in Seq(Deliverers)
      BY <2>1 DEF NR!TypeOK
    <3> QED BY <3>1
  <2> QED BY <1>5, <2>2, <2>3 DEF NR!IsAt
<1>6. NR!DeliveredOnce
  BY <1>1, <1>5 DEF NR!DeliveredOnce, NR!FrameIsSound, NR!Revoking, NR!Dying
<1> QED BY <1>4, <1>6

=============================================================================
