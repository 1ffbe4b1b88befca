-------------------------- MODULE UsdStageRecompose --------------------------
(***************************************************************************)
(* UsdStage's population of prims, from opening the stage through every    *)
(* change of scene description: PcpCache drops prim indexes, the stage     *)
(* unregisters instances, composes prim indexes in parallel, lets the      *)
(* instance cache process the changes, composes again what became a source *)
(* and at last rebuilds the prims that are affected.                       *)
(*                                                                         *)
(* Scene description is two levels of prims.  A root prim is absent, an    *)
(* ordinary prim with children of its own, or an instance, whose children  *)
(* are those of its key: what is referenced.  Inner keys have no children. *)
(* Prim names, opinions, masks and load rules are left out (the last two   *)
(* are part of the keys), as are inactive prims, which have no children.   *)
(***************************************************************************)
EXTENDS Naturals, FiniteSets, SequencesExt

CONSTANTS
  Roots, Names,          \* names of root prims and of their children
  OuterKeys, InnerKeys,  \* instancing keys with and without children
  Plain, Absent,         \* an ordinary prim, no prim
  ChildStatuses,         \* what a child may be: an inner key, Plain or Absent
  MaxPrototypes,
  MaxBatch,              \* how many root prims one change edits
  None

Keys  == OuterKeys \cup InnerKeys
Prims == {<<>>} \cup {<<r>> : r \in Roots} \cup {<<r, n>> : r \in Roots, n \in Names}

VARIABLES
  scene,     \* scene description, as composed for each prim
  indexes,   \* prims with a valid prim index in the PcpCache
  paths,     \* pathsToRecompose
  todo,      \* prim indexes that composition tasks have yet to visit
  phase,     \* "composing", "recomposing" or "idle"
  primMap,   \* the stage's prims
  cache, pendingAdded, pendingRemoved, changes

INSTANCE UsdInstanceCache

vars == <<scene, indexes, paths, todo, phase, primMap, cacheVars>>

(* A prim on the stage.  index: what its _primIndex points to.  live: that *)
(* index has not been dropped since.  instance: the cached flag.           *)
Prim == [index : Prims \cup {None}, live : BOOLEAN, instance : BOOLEAN]

ASSUME RecomposeAssumption ==
  /\ None \notin Prims /\ None \notin Keys /\ None \notin Prototypes
  /\ Plain \notin Keys
  /\ Absent \notin Keys \cup Roots \cup {Plain}
  /\ None \notin Prim
  /\ Roots \cap Prototypes = {}

-----------------------------------------------------------------------------
(* Scene description.                                                      *)

Statuses      == Keys \cup {Plain, Absent}
NoChildren    == [n \in Names |-> Absent]

Scenes ==
  {s \in [root : [Roots -> Statuses],
          children : [Roots \cup OuterKeys -> [Names -> ChildStatuses]]] :
     \A r \in Roots : s.root[r] # Plain => s.children[r] = NoChildren}

StatusIn(s, p) ==
  CASE p = <<>>   -> Plain
    [] Len(p) = 1 -> s.root[p[1]]
    [] Len(p) = 2 -> LET owner == IF s.root[p[1]] = Plain THEN p[1] ELSE s.root[p[1]]
                     IN  IF owner \in DOMAIN s.children
                           THEN s.children[owner][p[2]] ELSE Absent
    [] OTHER      -> Absent

Status(p) == StatusIn(scene, p)

(* ComputePrimChildNames of the index at p.                                *)
ChildIndexes(p) ==
  {c \in Prims : Len(c) = Len(p) + 1 /\ IsPrefix(p, c) /\ Status(c) # Absent}

Edited(s, r) == s.root[r] # scene.root[r] \/ s.children[r] # scene.children[r]

Tops(S) == {p \in S : \A q \in S : ~IsStrictPrefix(q, p)}

-----------------------------------------------------------------------------
(* Prims on the stage.  A prototype's prims are at paths of their own.     *)

PrototypePaths == {<<P>> : P \in Prototypes}
StagePaths == Prims \cup PrototypePaths \cup {<<P, n>> : P \in Prototypes, n \in Names}

Instantiated == [index |-> None, live |-> FALSE, instance |-> FALSE]

TypeOK ==
  /\ scene \in Scenes
  /\ indexes \subseteq Prims
  /\ paths \subseteq Prims
  /\ todo \subseteq Prims
  /\ phase \in {"composing", "recomposing", "idle"}
  /\ primMap \in [StagePaths -> Prim \cup {None}]
  /\ CacheTypeOK

(* Stage paths at or below s.  Prototypes are not below the pseudo-root.   *)
Below(s, t) == IsPrefix(s, t) /\ (s = <<>> => t = <<>> \/ t[1] \in Roots)

(* _InstantiateStage: the whole stage is to be composed.                   *)
Init ==
  /\ scene \in Scenes
  /\ indexes = {}
  /\ paths = {<<>>}
  /\ todo = {<<>>}
  /\ phase = "composing"
  /\ primMap = [s \in StagePaths |-> None]
  /\ CacheInit

-----------------------------------------------------------------------------
(* Scene description changes: PcpChanges::Apply drops indexes, and         *)
(* _RecomposePrims starts.                                                 *)

(* Mutant: what is below an instance is always ignored.                    *)
ElidedBelowInstances(p) == IsDescendantToAnInstance(p)

(* Paths below instances are ignored unless a prototype uses the index.    *)
Elided(p) == IsDescendantToAnInstance(p) /\ PrimsInPrototypesUsing(p) = {}

(* For each path: unregister the instances under it, and compose it.       *)
StartRecompose(roots) ==
  /\ paths' = roots
  /\ todo' = {p \in roots : ~Elided(p)}
  /\ UnregisterUnder(todo')
  /\ phase' = "composing"
  /\ changes' = NoChanges
  /\ UNCHANGED <<cache, pendingAdded>>

(* Composing a path asks for the index of its parent first.                *)
Ancestors(roots) == UNION {Prefixes(p) \ {p} : p \in roots}

DropIndexes(dropped) ==
  /\ indexes' = (indexes \ dropped) \cup Ancestors(todo')
  /\ primMap' = [s \in StagePaths |->
                   IF primMap[s] # None /\ primMap[s].index \in dropped
                     THEN [primMap[s] EXCEPT !.live = FALSE] ELSE primMap[s]]

(* didChangeSignificantly: what is different, and maybe something that     *)
(* turns out not to be.  Indexes are dropped with those below them.        *)
ChangeSignificantly(s, touched) ==
  LET changed == {p \in Prims : StatusIn(s, p) # Status(p)} \cup touched
  IN  /\ changed # {}
      /\ scene' = s
      /\ StartRecompose(Tops(changed))
      /\ DropIndexes({p \in Prims : Under(changed, p)})

(* didChangePrims: the index is dropped, those below it are kept.          *)
ChangePrim(p) ==
  /\ StartRecompose({p})
  /\ DropIndexes({p})
  /\ UNCHANGED scene

Batches == {s \in Scenes : Cardinality({r \in Roots : Edited(s, r)}) <= MaxBatch}

Edit ==
  /\ phase = "idle"
  /\ \/ \E s \in Batches, touched \in {{}} \cup {{p} : p \in Prims} :
          ChangeSignificantly(s, touched)
     \/ \E p \in Prims \ {<<>>} : ChangePrim(p)

-----------------------------------------------------------------------------
(* _ComposePrimIndexesInParallel.                                          *)

(* A task computes an index unless it is there, and asks the predicate     *)
(* whether to spawn tasks for the children.                                *)
ComputeIndex(p) ==
  /\ phase = "composing"
  /\ p \in todo
  /\ indexes' = indexes \cup {p}
  /\ LET k == Status(p)
         children == IF k \in Keys => RegisterReturns(p, k) THEN ChildIndexes(p) ELSE {}
     IN  /\ todo' = (todo \ {p}) \cup children
         /\ IF k \in Keys THEN Register(p, k) ELSE UNCHANGED pendingAdded
  /\ UNCHANGED <<scene, paths, phase, primMap, cache, pendingRemoved, changes>>

(* The tasks are done.  New sources have to be composed as well.           *)
InstancesRegistered ==
  /\ phase = "composing"
  /\ todo = {}
  /\ ProcessChanges
  /\ todo' = ChangedSources
  /\ phase' = IF ChangedSources = {} THEN "recomposing" ELSE "composing"
  /\ indexes' = indexes \cup Ancestors(ChangedSources)
  /\ UNCHANGED <<scene, paths, primMap>>

-----------------------------------------------------------------------------
(* The rest of _RecomposePrims: prims on the stage.                        *)

(* Prototypes that are affected join the paths, and the prims in them that *)
(* use an affected index.                                                  *)
NewOrChanged == {P \in Prototypes : changes.new[P] # None \/ changes.changed[P] # None}

AllPaths ==
  LET all == paths \cup (UNION {PrimsInPrototypesUsing(p) : p \in paths})
             \cup {<<P>> : P \in PrototypesUsingUnder(paths) \cup NewOrChanged}
  IN  IF <<>> \in paths THEN all ELSE Tops(all)

(* prototypeToPrimIndexMap                                                 *)
IndexFor(s) ==
  IF s = <<>> \/ s[1] \notin Prototypes THEN s
  ELSE LET P == s[1]
           source == IF changes.changed[P] # None THEN changes.changed[P]
                     ELSE IF changes.new[P] # None THEN changes.new[P]
                     ELSE cache.source[P]
       IN  source \o Tail(s)

(* _ComposeChildren of the parents, not recursive: prims appear and go.    *)
Exposes(prim) == prim # None /\ prim.index # None /\ ~prim.instance

KnownChild(map, s) ==
  /\ Exposes(map[Front(s)])
  /\ Status(Append(map[Front(s)].index, Last(s))) # Absent

IsPrototypePath(s) == s \in PrototypePaths

ParentsOf(S) == {Front(s) : s \in {t \in S : t # <<>> /\ ~IsPrototypePath(t)}}

RefreshParents(S) ==
  LET refreshed == {q \in ParentsOf(S) : primMap[q] # None}
      isChild(s) == s # <<>> /\ ~IsPrototypePath(s) /\ Front(s) \in refreshed
      goes(s) == isChild(s) /\ ~KnownChild(primMap, s)
  IN  [s \in StagePaths |->
         IF \E t \in Prefixes(s) \ {<<>>} : goes(t) THEN None
         ELSE IF primMap[s] = None /\ (isChild(s) \/ s \in S \cap PrototypePaths)
           THEN Instantiated
         ELSE primMap[s]]

(* _ComposeSubtreeImpl from s down, with the index at i.                   *)
PrimAt(s, i) ==
  IF i \notin indexes THEN Instantiated
  ELSE [index |-> i, live |-> TRUE,
        instance |-> Status(i) \in Keys /\ ~IsPrototypePath(s)]

ComposeSubtrees(map, tops) ==
  LET index(s, t) == IndexFor(s) \o SubSeq(t, Len(s) + 1, Len(t))
      exists(s, t) == \A m \in Len(s) + 1 .. Len(t) :
                        /\ Exposes(PrimAt(SubSeq(t, 1, m - 1), index(s, SubSeq(t, 1, m - 1))))
                        /\ Status(index(s, SubSeq(t, 1, m))) # Absent
  IN  [t \in StagePaths |->
         IF \E s \in tops : Below(s, t)
           THEN LET s == CHOOSE s \in tops : Below(s, t)
                IN  IF exists(s, t) THEN PrimAt(t, index(s, t)) ELSE None
           ELSE map[t]]

Destroy(map, dead) ==
  [s \in StagePaths |-> IF s # <<>> /\ s[1] \in dead THEN None ELSE map[s]]

Finish == phase' = "idle" /\ paths' = {} /\ changes' = NoChanges

RecomposePrims ==
  /\ phase = "recomposing"
  /\ \E all \in {AllPaths} :
       \E refreshed \in {RefreshParents(all)} :
         \E tops \in {{s \in all : s = <<>> \/ refreshed[s] # None}} :
           primMap' = Destroy(ComposeSubtrees(refreshed, tops), changes.dead)
  /\ Finish
  /\ UNCHANGED <<scene, indexes, todo, cache, pendingAdded, pendingRemoved>>

Compose == (\E p \in Prims : ComputeIndex(p)) \/ InstancesRegistered \/ RecomposePrims

Next == Edit \/ Compose

Spec == Init /\ [][Next]_vars /\ WF_vars(Compose)

-----------------------------------------------------------------------------
(* The instances that can be seen: below no other instance, or below the   *)
(* one that is the source of its prototype.                                *)
Reachable(p) ==
  \A q \in Prefixes(p) \ {p} :
    Status(q) \in Keys => cache.prototype[q] # None /\ cache.source[cache.prototype[q]] = q

(* When the stage is at rest the cache knows exactly the instances there   *)
(* are, each with the prototype of its key: none is left from before a     *)
(* change, and none was missed by tasks that did not descend.              *)
InstancesAreExact ==
  phase = "idle" =>
    /\ Instances = {p \in Prims : Status(p) \in Keys /\ Reachable(p)}
    /\ \A p \in Instances : cache.key[cache.prototype[p]] = Status(p)

(* What composing the whole stage anew would give, for this cache.         *)
FullyComposed ==
  LET used == {P \in Prototypes : cache.key[P] # None}
      index(s) == IF s # <<>> /\ s[1] \in Prototypes
                    THEN cache.source[s[1]] \o Tail(s) ELSE s
      instance(s) == Status(index(s)) \in Keys /\ ~IsPrototypePath(s)
      base(s) == IF s # <<>> /\ s[1] \in Prototypes THEN 1 ELSE 0
      exists(s) == /\ s = <<>> \/ s[1] \notin Prototypes \ used
                   /\ \A m \in base(s) + 1 .. Len(s) :
                        /\ Status(index(SubSeq(s, 1, m))) # Absent
                        /\ ~instance(SubSeq(s, 1, m - 1))
  IN  [s \in StagePaths |->
         IF exists(s) THEN [index |-> index(s), live |-> TRUE, instance |-> instance(s)]
         ELSE None]

(* When the stage is at rest its prims are those of a stage composed from  *)
(* scratch: nothing affected was left out, and no prim points to an index  *)
(* that was dropped or never composed.                                     *)
RecomposedFully == phase = "idle" => primMap = FullyComposed

(* Every change is taken in: composing sources that changed ends.          *)
RecomposeEnds == phase # "idle" ~> phase = "idle"
=============================================================================
