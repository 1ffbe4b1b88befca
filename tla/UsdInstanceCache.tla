--------------------------- MODULE UsdInstanceCache ---------------------------
(***************************************************************************)
(* Usd_InstanceCache: which prim indexes are instances, which prototype    *)
(* they share, and which of them is the prototype's source.                *)
(*                                                                         *)
(* The composition tasks of a stage register instances concurrently; when  *)
(* they are done one thread processes the changes.  This module holds the  *)
(* cache and its operations; UsdStageRecompose calls them.                 *)
(*                                                                         *)
(* A path is a sequence of names, a key stands for all that makes two      *)
(* instances share a prototype.  _lastPrototypeIndex is left out: a new    *)
(* prototype gets a number that nothing refers to any more.                *)
(***************************************************************************)
EXTENDS Naturals, FiniteSets, SequencesExt

CONSTANTS
  Prims,          \* paths of prim indexes
  Keys,           \* Usd_InstanceKey
  MaxPrototypes,  \* how many prototypes there can be at once
  None

Prototypes == 1..MaxPrototypes

VARIABLES
  cache,           \* the maps that survive a round of changes
  pendingAdded,    \* _pendingAddedPrimIndexes, and the first one of each key
  pendingRemoved,  \* _pendingRemovedPrimIndexes
  changes          \* Usd_InstanceChanges of the rounds so far

cacheVars == <<cache, pendingAdded, pendingRemoved, changes>>

CacheTypeOK ==
  /\ cache \in [proto : [Keys -> Prototypes \cup {None}],
                key : [Prototypes -> Keys \cup {None}],
                source : [Prototypes -> Prims \cup {None}],
                user : [Prims -> Prototypes \cup {None}],
                instances : [Prototypes -> SUBSET Prims],
                prototype : [Prims -> Prototypes \cup {None}]]
  /\ pendingAdded \in [Keys -> [first : Prims \cup {None}, paths : SUBSET Prims]]
  /\ pendingRemoved \in [Keys -> SUBSET Prims]
  /\ changes \in [new : [Prototypes -> Prims \cup {None}],
                  changed : [Prototypes -> Prims \cup {None}],
                  dead : SUBSET Prototypes]

NothingAdded   == [k \in Keys |-> [first |-> None, paths |-> {}]]
NothingRemoved == [k \in Keys |-> {}]
NoChanges      == [new     |-> [P \in Prototypes |-> None],
                   changed |-> [P \in Prototypes |-> None],
                   dead    |-> {}]

CacheInit ==
  /\ cache = [proto     |-> [k \in Keys |-> None],
              key       |-> [P \in Prototypes |-> None],
              source    |-> [P \in Prototypes |-> None],
              user      |-> [p \in Prims |-> None],
              instances |-> [P \in Prototypes |-> {}],
              prototype |-> [p \in Prims |-> None]]
  /\ pendingAdded = NothingAdded
  /\ pendingRemoved = NothingRemoved
  /\ changes = NoChanges

-----------------------------------------------------------------------------
(* Queries.                                                                *)

Under(paths, p) == \E q \in paths : IsPrefix(q, p)

Instances == {p \in Prims : cache.prototype[p] # None}

(* IsPathDescendantToAnInstance                                            *)
IsDescendantToAnInstance(p) ==
  \E q \in Instances : IsStrictPrefix(q, p)

(* _PrototypeUsesPrimIndexPath: from p upwards as long as the path just    *)
(* looked at is itself an instance, the nearest instance at or above the   *)
(* path uses p if the path is at or below its prototype's source.          *)
PrimsInPrototypesUsing(p) ==
  LET looked  == {q \in Prefixes(p) \ {<<>>} :
                    \A m \in Prefixes(p) : IsStrictPrefix(q, m) => m \in Instances}
      above(q) == {i \in Instances : IsPrefix(i, q)}
      uses(q, i) == /\ \A j \in above(q) : IsPrefix(j, i)
                    /\ IsPrefix(cache.source[cache.prototype[i]], q)
      inPrototype(P) == <<P>> \o SubSeq(p, Len(cache.source[P]) + 1, Len(p))
  IN  {inPrototype(cache.prototype[i]) :
         i \in {j \in Instances : \E q \in looked : j \in above(q) /\ uses(q, j)}}

(* Mutant: the descendents of the paths are forgotten.                     *)
PrototypesUsingExactly(paths) ==
  {cache.user[p] : p \in {q \in Prims : cache.user[q] # None /\ q \in paths}}

(* GetPrototypesUsingPrimIndexPathOrDescendents                            *)
PrototypesUsingUnder(paths) ==
  {cache.user[p] : p \in {q \in Prims : cache.user[q] # None /\ Under(paths, q)}}

-----------------------------------------------------------------------------
(* Registration.                                                           *)

(* RegisterInstancePrimIndex: the push under the mutex.                    *)
Register(p, k) ==
  pendingAdded' =
    [pendingAdded EXCEPT ![k] =
       [first |-> IF @.paths = {} THEN p ELSE @.first,
        paths |-> @.paths \cup {p}]]

(* What it returns: should the children of p be composed, because p is or  *)
(* will be the source of the prototype?                                    *)
RegisterReturns(p, k) ==
  IF cache.proto[k] = None
    THEN pendingAdded[k].paths = {}
    ELSE cache.source[cache.proto[k]] = p

(* Mutant: only the instances at the paths are unregistered.               *)
UnregisterAt(paths) ==
  pendingRemoved' =
    [k \in Keys |->
       pendingRemoved[k] \cup
         {p \in Instances : cache.key[cache.prototype[p]] = k /\ p \in paths}]

(* UnregisterInstancePrimIndexesUnder each of these paths.                 *)
UnregisterUnder(paths) ==
  pendingRemoved' =
    [k \in Keys |->
       pendingRemoved[k] \cup
         {p \in Instances : cache.key[cache.prototype[p]] = k /\ Under(paths, p)}]

-----------------------------------------------------------------------------
(* ProcessChanges.                                                         *)

(* Unregistered instances that were not registered again under their key.  *)
Gone(k) == pendingRemoved[k] \ pendingAdded[k].paths

GoneFrom(P) == IF cache.key[P] = None THEN {} ELSE Gone(cache.key[P])

(* _RemoveInstances for every key.  A prototype whose source is gone uses  *)
(* another instance, if it still has one.                                  *)
SourceGone(P) == cache.source[P] \in GoneFrom(P)
Left(P)       == cache.instances[P] \ GoneFrom(P)

NewSources ==
  LET bereft == {P \in Prototypes : SourceGone(P) /\ Left(P) # {}}
      source(P, chosen) == IF P \in bereft THEN chosen[P]
                           ELSE IF SourceGone(P) THEN None
                           ELSE cache.source[P]
  IN  {[P \in Prototypes |-> source(P, chosen)] :
         chosen \in {f \in [bereft -> Instances] : \A P \in bereft : f[P] \in Left(P)}}

(* _CreateOrUpdatePrototypeForInstances for every key: a prototype without *)
(* a source, new or not, gets the first instance that was registered.      *)
AddedKeys == {k \in Keys : pendingAdded[k].paths # {}}
NewKeys   == {k \in AddedKeys : cache.proto[k] = None}

FreshPrototypes ==
  {P \in Prototypes : cache.key[P] = None /\ P \notin changes.dead}

(* _GetNextPrototypePath, in the order of the map of keys.                 *)
Namings ==
  LET next == {P \in FreshPrototypes :
                 Cardinality({Q \in FreshPrototypes : Q < P}) < Cardinality(NewKeys)}
  IN  {f \in [NewKeys -> next] : \A k, l \in NewKeys : f[k] = f[l] => k = l}

AssignSource(source, P, k) ==
  IF source[P] = None THEN pendingAdded[k].first ELSE source[P]

(* Mutant: prototypes are never removed.                                   *)
NoneDead(instances, key) == {}

(* _RemovePrototypeIfNoInstances                                           *)
Dead(instances, key) ==
  {P \in Prototypes : key[P] # None /\ pendingRemoved[key[P]] # {} /\ instances[P] = {}}

ProcessChangesWith(afterRemoval, naming) ==
  LET proto == [k \in Keys |-> IF k \in NewKeys THEN naming[k] ELSE cache.proto[k]]
      key   == [P \in Prototypes |->
                  IF \E k \in NewKeys : naming[k] = P
                    THEN CHOOSE k \in NewKeys : naming[k] = P ELSE cache.key[P]]
      added(P) == IF key[P] = None THEN {} ELSE pendingAdded[key[P]].paths
      source == [P \in Prototypes |->
                   IF added(P) = {} THEN afterRemoval[P]
                     ELSE AssignSource(afterRemoval, P, key[P])]
      instances == [P \in Prototypes |-> Left(P) \cup added(P)]
      moved == {P \in Prototypes : cache.key[P] # None
                                   /\ source[P] \notin {None, cache.source[P]}}
      dead  == Dead(instances, key)
      gone  == UNION {Gone(k) : k \in Keys}
  IN  /\ cache' =
           [proto |-> [k \in Keys |-> IF proto[k] \in dead THEN None ELSE proto[k]],
            key   |-> [P \in Prototypes |-> IF P \in dead THEN None ELSE key[P]],
            source |-> source,
            user  |-> [p \in Prims |->
                         IF \E P \in Prototypes : source[P] = p
                           THEN CHOOSE P \in Prototypes : source[P] = p
                         ELSE IF p \in gone THEN None ELSE cache.user[p]],
            instances |-> instances,
            prototype |-> [p \in Prims |->
                             IF \E k \in AddedKeys : p \in pendingAdded[k].paths
                               THEN proto[CHOOSE k \in AddedKeys :
                                            p \in pendingAdded[k].paths]
                             ELSE IF p \in gone THEN None ELSE cache.prototype[p]]]
      /\ changes' =
           [new |-> [P \in Prototypes |->
                       IF \E k \in NewKeys : naming[k] = P
                         THEN source[P] ELSE changes.new[P]],
            changed |-> [P \in Prototypes |->
                           IF P \in moved THEN source[P] ELSE changes.changed[P]],
            dead |-> changes.dead \cup dead]
      /\ pendingAdded' = NothingAdded
      /\ pendingRemoved' = NothingRemoved

(* Mutant: every source is composed again, changed or not.                 *)
AllSources == {cache'.source[P] : P \in Prototypes} \ {None}

(* The sources of the prototypes whose source this round changes.          *)
ChangedSources ==
  {cache'.source[P] : P \in {Q \in Prototypes :
      cache.key[Q] # None /\ cache'.source[Q] \notin {None, cache.source[Q]}}}

ProcessChanges ==
  \E afterRemoval \in NewSources, naming \in Namings :
    ProcessChangesWith(afterRemoval, naming)

-----------------------------------------------------------------------------
(* The maps of the cache are inverses of each other, every prototype has   *)
(* instances and one of them is its source: what the TF_VERIFYs between    *)
(* the lookups rely on, and the unchecked find of the old source.          *)
CacheConsistent ==
  /\ \A k \in Keys, P \in Prototypes : cache.proto[k] = P <=> cache.key[P] = k
  /\ \A p \in Prims, P \in Prototypes :
       /\ p \in cache.instances[P] <=> cache.prototype[p] = P
       /\ cache.source[P] = p <=> cache.user[p] = P
  /\ \A P \in Prototypes :
       IF cache.key[P] = None
         THEN cache.instances[P] = {} /\ cache.source[P] = None
         ELSE cache.source[P] \in cache.instances[P]
=============================================================================
