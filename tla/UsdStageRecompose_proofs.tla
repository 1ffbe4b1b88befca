----------------------- MODULE UsdStageRecompose_proofs -----------------------
(***************************************************************************)
(* Proofs about UsdStageRecompose and the instance cache under it, for any *)
(* root prims, names and keys, and any number of prototypes.               *)
(***************************************************************************)
EXTENDS UsdStageRecompose, FiniteSetTheorems, SequenceTheorems, TLAPS

(***************************************************************************)
(* The instances there will be when the pending changes are processed, and *)
(* an instance that will be the source of the prototype of its key.        *)
(***************************************************************************)
KeyOf(p) == cache.key[cache.prototype[p]]

Kept   == {p \in Instances : p \notin pendingRemoved[KeyOf(p)]}
Added  == {p \in Prims : \E k \in Keys : p \in pendingAdded[k].paths}
Coming == Kept \cup Added

Opens(p) ==
  LET k == Status(p)
  IN  IF cache.proto[k] = None
        THEN pendingAdded[k].paths # {} /\ pendingAdded[k].first = p
        ELSE /\ cache.source[cache.proto[k]] = p
             /\ p \in pendingRemoved[k] => p \in pendingAdded[k].paths

(* What is pending is about the scene as it is, and only while composing.  *)
PendingIsCurrent ==
  /\ \A k \in Keys :
       /\ \A p \in pendingAdded[k].paths : Status(p) = k
       /\ pendingAdded[k].paths # {} => pendingAdded[k].first \in pendingAdded[k].paths
       /\ \A p \in pendingRemoved[k] : p \in Instances /\ KeyOf(p) = k
  /\ phase # "composing" =>
       /\ todo = {}
       /\ \A k \in Keys : pendingAdded[k].paths = {} /\ pendingRemoved[k] = {}

(* An instance that is no longer one of its key is unregistered.           *)
ChangedIsUnregistered == \A p \in Kept : Status(p) = KeyOf(p)

(* Nothing is composed, or stays, below an instance that is no source.     *)
NestedIsOpen ==
  \A r \in Roots, n \in Names :
    <<r, n>> \in Coming \cup todo /\ Status(<<r>>) \in Keys => Opens(<<r>>)

(* What is there is known, or is yet to be visited.                        *)
InstancesAreFound ==
  <<>> \notin todo => \A r \in Roots : <<r>> \notin todo =>
    /\ Status(<<r>>) \in Keys => <<r>> \in Coming
    /\ \A n \in Names : Status(<<r, n>>) \in Keys =>
         \/ <<r, n>> \in Coming \cup todo
         \/ Status(<<r>>) \in Keys /\ ~Opens(<<r>>)

(* Root prims are visited once in a round.                                 *)
TodoIsNew ==
  /\ \A r \in Roots : <<r>> \in todo => <<r>> \notin Added
  /\ <<>> \in todo => todo = {<<>>} /\ Added = {}

IInv ==
  /\ TypeOK /\ CacheConsistent /\ PendingIsCurrent /\ ChangedIsUnregistered
  /\ NestedIsOpen /\ InstancesAreFound /\ TodoIsNew

-----------------------------------------------------------------------------
(***************************************************************************)
(* Paths: the pseudo-root, a root prim or a child of one.                  *)
(***************************************************************************)
LEMMA PrimCases ==
  ASSUME NEW p \in Prims
  PROVE  \/ p = <<>>
         \/ \E r \in Roots : p = <<r>>
         \/ \E r \in Roots, n \in Names : p = <<r, n>>
BY DEF Prims

LEMMA PrimsAreDistinct ==
  ASSUME NEW r, NEW n, NEW q, NEW m
  PROVE  /\ Len(<<>>) = 0 /\ Len(<<r>>) = 1 /\ Len(<<r, n>>) = 2
         /\ <<r>> # <<>> /\ <<r, n>> # <<>> /\ <<r, n>> # <<q>>
         /\ <<r>> = <<q>> <=> r = q
         /\ <<r, n>> = <<q, m>> <=> r = q /\ n = m
<1>1. Len(<<>>) = 0 /\ Len(<<r>>) = 1 /\ Len(<<r, n>>) = 2 /\ Len(<<q>>) = 1
  OBVIOUS
<1>2. <<r>>[1] = r /\ <<q>>[1] = q
  OBVIOUS
<1>3. <<r, n>>[1] = r /\ <<r, n>>[2] = n /\ <<q, m>>[1] = q /\ <<q, m>>[2] = m
  OBVIOUS
<1> QED BY <1>1, <1>2, <1>3

LEMMA Parts ==
  ASSUME NEW r, NEW n
  PROVE  /\ SubSeq(<<>>, 1, 0) = <<>>
         /\ SubSeq(<<r>>, 1, 0) = <<>> /\ SubSeq(<<r>>, 1, 1) = <<r>>
         /\ SubSeq(<<r, n>>, 1, 0) = <<>> /\ SubSeq(<<r, n>>, 1, 1) = <<r>>
         /\ SubSeq(<<r, n>>, 1, 2) = <<r, n>>
<1>1. \A s : SubSeq(s, 1, 0) = <<>>
  BY SubSeqEmpty
<1>2. /\ <<r>> \in Seq({r, n}) /\ <<r, n>> \in Seq({r, n})
      /\ Len(<<r>>) = 1 /\ Len(<<r, n>>) = 2 /\ <<r, n>>[1] = r /\ <<r>>[1] = r
  OBVIOUS
<1>3. SubSeq(<<r>>, 1, 1) = <<r>> /\ SubSeq(<<r, n>>, 1, 2) = <<r, n>>
  <2>1. SubSeq(<<r>>, 1, Len(<<r>>)) = <<r>>
    BY <1>2, SubSeqFull
  <2>2. SubSeq(<<r, n>>, 1, Len(<<r, n>>)) = <<r, n>>
    BY <1>2, SubSeqFull
  <2> QED BY <1>2, <2>1, <2>2
<1>4. /\ SubSeq(<<r, n>>, 1, 1) \in Seq({r, n})
      /\ Len(SubSeq(<<r, n>>, 1, 1)) = 1 /\ SubSeq(<<r, n>>, 1, 1)[1] = r
  <2>1. \A i \in 1..1 : <<r, n>>[i] \in {r, n}
    BY <1>2
  <2> QED BY <1>2, <2>1, SubSeqProperties
<1>5. SubSeq(<<r, n>>, 1, 1) = <<r>>
  <2>1. \A i \in 1..1 : SubSeq(<<r, n>>, 1, 1)[i] = <<r>>[i]
    BY <1>2, <1>4
  <2> QED BY <1>2, <1>4, <2>1, SeqEqual
<1> QED BY <1>1, <1>3, <1>5

(* Which of them are above which.                                          *)
LEMMA Above ==
  ASSUME NEW r, NEW n, NEW q, NEW m
  PROVE  /\ IsPrefix(<<>>, <<>>) /\ IsPrefix(<<>>, <<r>>) /\ IsPrefix(<<>>, <<r, n>>)
         /\ ~IsPrefix(<<r>>, <<>>) /\ ~IsPrefix(<<r, n>>, <<>>)
         /\ ~IsPrefix(<<r, n>>, <<q>>)
         /\ IsPrefix(<<r>>, <<q>>) <=> r = q
         /\ IsPrefix(<<r>>, <<q, m>>) <=> r = q
         /\ IsPrefix(<<r, n>>, <<q, m>>) <=> r = q /\ n = m
<1>1. /\ SubSeq(<<>>, 1, 0) = <<>> /\ SubSeq(<<r>>, 1, 0) = <<>>
      /\ SubSeq(<<r, n>>, 1, 0) = <<>>
      /\ SubSeq(<<r>>, 1, 1) = <<r>> /\ SubSeq(<<q>>, 1, 1) = <<q>>
      /\ SubSeq(<<q, m>>, 1, 1) = <<q>>
      /\ SubSeq(<<r, n>>, 1, 2) = <<r, n>> /\ SubSeq(<<q, m>>, 1, 2) = <<q, m>>
  BY Parts
<1>2. /\ Len(<<>>) = 0 /\ Len(<<r>>) = 1 /\ Len(<<r, n>>) = 2
      /\ Len(<<q>>) = 1 /\ Len(<<q, m>>) = 2
  BY PrimsAreDistinct
<1>3. (<<r>> = <<q>> <=> r = q) /\ (<<r, n>> = <<q, m>> <=> r = q /\ n = m)
  BY PrimsAreDistinct
<1> QED BY <1>1, <1>2, <1>3 DEF IsPrefix

(* The same, fact by fact.                                                 *)
LEMMA PathFacts ==
  /\ Len(<<>>) = 0 /\ \A r : Len(<<r>>) = 1 /\ <<r>> # <<>> /\ IsPrefix(<<>>, <<r>>)
  /\ \A r, n : Len(<<r, n>>) = 2 /\ <<r, n>> # <<>> /\ IsPrefix(<<>>, <<r, n>>)
               /\ IsPrefix(<<r>>, <<r, n>>) /\ ~IsPrefix(<<r, n>>, <<r>>)
  /\ \A r : ~IsPrefix(<<r>>, <<>>) /\ \A n : ~IsPrefix(<<r, n>>, <<>>)
  /\ \A r, q : IsPrefix(<<r>>, <<q>>) <=> r = q
  /\ \A r, q, m : (IsPrefix(<<r>>, <<q, m>>) <=> r = q) /\ <<r>> # <<q, m>>
  /\ \A r, n, q, m : IsPrefix(<<r, n>>, <<q, m>>) <=> r = q /\ n = m
<1>1. ASSUME NEW r, NEW n, NEW q, NEW m
      PROVE  /\ Len(<<>>) = 0 /\ Len(<<r>>) = 1 /\ <<r>> # <<>> /\ IsPrefix(<<>>, <<r>>)
             /\ Len(<<r, n>>) = 2 /\ <<r, n>> # <<>> /\ IsPrefix(<<>>, <<r, n>>)
             /\ IsPrefix(<<r>>, <<r, n>>) /\ ~IsPrefix(<<r, n>>, <<r>>)
             /\ ~IsPrefix(<<r>>, <<>>) /\ ~IsPrefix(<<r, n>>, <<>>)
             /\ IsPrefix(<<r>>, <<q>>) <=> r = q
             /\ (IsPrefix(<<r>>, <<q, m>>) <=> r = q) /\ <<r>> # <<q, m>>
             /\ IsPrefix(<<r, n>>, <<q, m>>) <=> r = q /\ n = m
  <2>1. /\ Len(<<>>) = 0 /\ Len(<<r>>) = 1 /\ Len(<<r, n>>) = 2 /\ Len(<<q, m>>) = 2
        /\ <<r>> # <<>> /\ <<r, n>> # <<>>
    BY PrimsAreDistinct
  <2>2. /\ IsPrefix(<<>>, <<r>>) /\ IsPrefix(<<>>, <<r, n>>)
        /\ ~IsPrefix(<<r>>, <<>>) /\ ~IsPrefix(<<r, n>>, <<>>)
        /\ IsPrefix(<<r>>, <<q>>) <=> r = q
        /\ IsPrefix(<<r>>, <<q, m>>) <=> r = q
        /\ IsPrefix(<<r, n>>, <<q, m>>) <=> r = q /\ n = m
        /\ IsPrefix(<<r>>, <<r, n>>) /\ ~IsPrefix(<<r, n>>, <<r>>)
    BY Above
  <2> QED BY <2>1, <2>2
<1>2. \A r, n : Len(<<r, n>>) = 2
  OBVIOUS
<1>3. ASSUME NEW r
      PROVE  /\ Len(<<>>) = 0 /\ Len(<<r>>) = 1 /\ <<r>> # <<>> /\ IsPrefix(<<>>, <<r>>)
             /\ ~IsPrefix(<<r>>, <<>>)
  <2>1. Len(<<r, r>>) = 2
    BY <1>2
  <2> QED BY <1>1, <2>1
<1>4. ASSUME NEW r, NEW n
      PROVE  /\ Len(<<r, n>>) = 2 /\ <<r, n>> # <<>> /\ IsPrefix(<<>>, <<r, n>>)
             /\ IsPrefix(<<r>>, <<r, n>>) /\ ~IsPrefix(<<r, n>>, <<r>>)
             /\ ~IsPrefix(<<r, n>>, <<>>)
             /\ IsPrefix(<<r>>, <<n>>) <=> r = n
  <2>1. Len(<<r, n>>) = 2 /\ Len(<<n, n>>) = 2
    BY <1>2
  <2> QED BY <1>1, <2>1
<1>5. ASSUME NEW r, NEW q, NEW m
      PROVE  (IsPrefix(<<r>>, <<q, m>>) <=> r = q) /\ <<r>> # <<q, m>>
  <2>1. Len(<<r, r>>) = 2 /\ Len(<<q, m>>) = 2
    BY <1>2
  <2> QED BY <1>1, <2>1
<1>6. Len(<<>>) = 0
  OBVIOUS
<1>7. \A r, q : IsPrefix(<<r>>, <<q>>) <=> r = q
  BY <1>4
<1>8. \A r : Len(<<r>>) = 1 /\ <<r>> # <<>> /\ IsPrefix(<<>>, <<r>>) /\ ~IsPrefix(<<r>>, <<>>)
  BY <1>3
<1>9. \A r, n : Len(<<r, n>>) = 2 /\ <<r, n>> # <<>> /\ IsPrefix(<<>>, <<r, n>>)
                /\ IsPrefix(<<r>>, <<r, n>>) /\ ~IsPrefix(<<r, n>>, <<r>>)
                /\ ~IsPrefix(<<r, n>>, <<>>)
  BY <1>4
<1>10. \A r, q, m : (IsPrefix(<<r>>, <<q, m>>) <=> r = q) /\ <<r>> # <<q, m>>
  BY <1>5
<1>11. ASSUME NEW r, NEW n, NEW q, NEW m
       PROVE  IsPrefix(<<r, n>>, <<q, m>>) <=> r = q /\ n = m
  <2>1. SubSeq(<<q, m>>, 1, 2) = <<q, m>>
    BY Parts
  <2>2. Len(<<r, n>>) = 2 /\ Len(<<q, m>>) = 2 /\ (<<r, n>> = <<q, m>> <=> r = q /\ n = m)
    BY PrimsAreDistinct
  <2> QED BY <2>1, <2>2 DEF IsPrefix
<1> QED BY <1>6, <1>7, <1>8, <1>9, <1>10, <1>11

LEMMA AboveChild ==
  ASSUME NEW r, NEW n, NEW q, NEW m, IsPrefix(<<q, m>>, <<r, n>>)
  PROVE  <<q, m>> = <<r, n>>
<1>1. Len(<<q, m>>) = 2 /\ Len(<<r, n>>) = 2 /\ SubSeq(<<r, n>>, 1, 2) = <<r, n>>
  BY Parts
<1> QED BY <1>1 DEF IsPrefix

LEMMA PrefixSets ==
  ASSUME NEW r, NEW n
  PROVE  /\ Prefixes(<<>>) = {<<>>}
         /\ Prefixes(<<r>>) = {<<>>, <<r>>}
         /\ Prefixes(<<r, n>>) = {<<>>, <<r>>, <<r, n>>}
<1>1. \A i : (i \in 0..0 <=> i = 0) /\ (i \in 0..1 <=> i \in {0, 1})
             /\ (i \in 0..2 <=> i \in {0, 1, 2})
  OBVIOUS
<1>2. Prefixes(<<>>) = {<<>>}
  <2>1. Prefixes(<<>>) = {SubSeq(<<>>, 1, l) : l \in {0}}
    BY <1>1, PrimsAreDistinct DEF Prefixes
  <2> QED BY <2>1, Parts
<1>3. Prefixes(<<r>>) = {<<>>, <<r>>}
  <2>1. Prefixes(<<r>>) = {SubSeq(<<r>>, 1, l) : l \in {0, 1}}
    BY <1>1, PrimsAreDistinct DEF Prefixes
  <2> QED BY <2>1, Parts
<1>4. Prefixes(<<r, n>>) = {<<>>, <<r>>, <<r, n>>}
  <2>1. Prefixes(<<r, n>>) = {SubSeq(<<r, n>>, 1, l) : l \in {0, 1, 2}}
    BY <1>1, PrimsAreDistinct DEF Prefixes
  <2> QED BY <2>1, Parts
<1> QED BY <1>2, <1>3, <1>4

LEMMA StatusCases ==
  ASSUME NEW s
  PROVE  /\ StatusIn(s, <<>>) = Plain
         /\ \A r \in Roots : StatusIn(s, <<r>>) = s.root[r]
BY PrimsAreDistinct DEF StatusIn

-----------------------------------------------------------------------------
(***************************************************************************)
(* ProcessChanges, map by map.                                             *)
(***************************************************************************)
Before ==
  TypeOK /\ CacheConsistent /\ PendingIsCurrent /\ ChangedIsUnregistered

ProtoAfter(naming) ==
  [k \in Keys |-> IF k \in NewKeys THEN naming[k] ELSE cache.proto[k]]

KeyAfter(naming) ==
  [P \in Prototypes |-> IF \E k \in NewKeys : naming[k] = P
                          THEN CHOOSE k \in NewKeys : naming[k] = P ELSE cache.key[P]]

AddedTo(naming, P) ==
  IF KeyAfter(naming)[P] = None THEN {} ELSE pendingAdded[KeyAfter(naming)[P]].paths

SourceAfter(afterRemoval, naming) ==
  [P \in Prototypes |->
     IF AddedTo(naming, P) = {} THEN afterRemoval[P]
       ELSE AssignSource(afterRemoval, P, KeyAfter(naming)[P])]

InstancesAfter(naming) == [P \in Prototypes |-> Left(P) \cup AddedTo(naming, P)]

DeadAfter(naming) == Dead(InstancesAfter(naming), KeyAfter(naming))

GoneAtAll == UNION {Gone(k) : k \in Keys}

LEMMA MapsAfter ==
  ASSUME NEW afterRemoval \in NewSources, NEW naming \in Namings,
         ProcessChangesWith(afterRemoval, naming)
  PROVE  /\ cache'.proto = [k \in Keys |->
                IF ProtoAfter(naming)[k] \in DeadAfter(naming) THEN None
                ELSE ProtoAfter(naming)[k]]
         /\ cache'.key = [P \in Prototypes |->
                IF P \in DeadAfter(naming) THEN None ELSE KeyAfter(naming)[P]]
         /\ cache'.source = SourceAfter(afterRemoval, naming)
         /\ cache'.instances = InstancesAfter(naming)
         /\ cache' = [proto |-> cache'.proto, key |-> cache'.key,
                      source |-> cache'.source, user |-> cache'.user,
                      instances |-> cache'.instances, prototype |-> cache'.prototype]
         /\ pendingAdded' = NothingAdded /\ pendingRemoved' = NothingRemoved
BY DEF ProcessChangesWith, ProtoAfter, KeyAfter, SourceAfter, InstancesAfter, DeadAfter,
       GoneAtAll, AddedTo

LEMMA UsersAfter ==
  ASSUME NEW afterRemoval \in NewSources, NEW naming \in Namings,
         ProcessChangesWith(afterRemoval, naming)
  PROVE  /\ cache'.user = [p \in Prims |-> cache'.user[p]]
         /\ \A p \in Prims :
              IF \E P \in Prototypes : SourceAfter(afterRemoval, naming)[P] = p
                THEN \E P \in Prototypes : /\ SourceAfter(afterRemoval, naming)[P] = p
                                           /\ cache'.user[p] = P
                ELSE cache'.user[p] = IF p \in GoneAtAll THEN None ELSE cache.user[p]
<1> DEFINE source == SourceAfter(afterRemoval, naming)
           used(p) == \E P \in Prototypes : source[P] = p
           by(p) == CHOOSE P \in Prototypes : source[P] = p
<1>1. cache'.user = [p \in Prims |-> IF used(p) THEN by(p)
                                     ELSE IF p \in GoneAtAll THEN None ELSE cache.user[p]]
  BY DEF ProcessChangesWith, KeyAfter, SourceAfter, GoneAtAll, AddedTo
<1>2. \A p : used(p) => by(p) \in Prototypes /\ source[by(p)] = p
  OBVIOUS
<1>3. \A p : used(p) <=> \E P \in Prototypes : source[P] = p
  OBVIOUS
<1>. HIDE DEF used, by
<1> QED BY <1>1, <1>2, <1>3

LEMMA PrototypesAfter ==
  ASSUME NEW afterRemoval \in NewSources, NEW naming \in Namings,
         ProcessChangesWith(afterRemoval, naming)
  PROVE  /\ cache'.prototype = [p \in Prims |-> cache'.prototype[p]]
         /\ \A p \in Prims :
              \/ \E k \in AddedKeys : /\ p \in pendingAdded[k].paths
                                      /\ cache'.prototype[p] = ProtoAfter(naming)[k]
              \/ /\ \A k \in AddedKeys : p \notin pendingAdded[k].paths
                 /\ cache'.prototype[p] = IF p \in GoneAtAll THEN None ELSE cache.prototype[p]
<1> DEFINE added(p) == \E k \in AddedKeys : p \in pendingAdded[k].paths
           by(p) == CHOOSE k \in AddedKeys : p \in pendingAdded[k].paths
<1>1. cache'.prototype = [p \in Prims |-> IF added(p) THEN ProtoAfter(naming)[by(p)]
                             ELSE IF p \in GoneAtAll THEN None ELSE cache.prototype[p]]
  BY DEF ProcessChangesWith, ProtoAfter, GoneAtAll
<1>2. \A p : added(p) => by(p) \in AddedKeys /\ p \in pendingAdded[by(p)].paths
  OBVIOUS
<1>3. \A p : added(p) <=> \E k \in AddedKeys : p \in pendingAdded[k].paths
  OBVIOUS
<1>. HIDE DEF added, by
<1> QED BY <1>1, <1>2, <1>3

LEMMA ChangesAfter ==
  ASSUME NEW afterRemoval \in NewSources, NEW naming \in Namings,
         ProcessChangesWith(afterRemoval, naming)
  PROVE  LET source == SourceAfter(afterRemoval, naming)
         IN
         /\ changes'.new = [P \in Prototypes |->
                             IF \E k \in NewKeys : naming[k] = P
                               THEN source[P] ELSE changes.new[P]]
         /\ \E moved : changes'.changed = [P \in Prototypes |->
                             IF P \in moved THEN source[P] ELSE changes.changed[P]]
         /\ \E d \in SUBSET Prototypes : changes'.dead = changes.dead \cup d
         /\ changes' = [new |-> changes'.new, changed |-> changes'.changed,
                        dead |-> changes'.dead]
<1> DEFINE source == SourceAfter(afterRemoval, naming)
           moved == {P \in Prototypes : cache.key[P] # None
                                        /\ source[P] \notin {None, cache.source[P]}}
<1>1. /\ changes'.new = [P \in Prototypes |->
                          IF \E k \in NewKeys : naming[k] = P
                            THEN source[P] ELSE changes.new[P]]
      /\ changes'.changed = [P \in Prototypes |->
                          IF P \in moved THEN source[P] ELSE changes.changed[P]]
      /\ changes'.dead = changes.dead \cup DeadAfter(naming)
      /\ changes' = [new |-> changes'.new, changed |-> changes'.changed,
                     dead |-> changes'.dead]
  BY DEF ProcessChangesWith, KeyAfter, SourceAfter, InstancesAfter, DeadAfter, AddedTo
<1>2. DeadAfter(naming) \in SUBSET Prototypes
  BY DEF DeadAfter, Dead
<1>. HIDE DEF source, moved
<1> QED BY <1>1, <1>2 DEF source

(* What consistency says of an instance, and of a prototype with a key.    *)
LEMMA InstanceFacts ==
  ASSUME Before, NEW p \in Instances
  PROVE  /\ p \in Prims /\ cache.prototype[p] \in Prototypes
         /\ p \in cache.instances[cache.prototype[p]]
         /\ KeyOf(p) \in Keys /\ cache.proto[KeyOf(p)] = cache.prototype[p]
BY RecomposeAssumption
DEF Before, TypeOK, CacheTypeOK, CacheConsistent, Instances, KeyOf

LEMMA PrototypeFacts ==
  ASSUME Before, NEW P \in Prototypes, cache.key[P] # None
  PROVE  /\ cache.key[P] \in Keys /\ cache.proto[cache.key[P]] = P
         /\ cache.source[P] \in Prims /\ cache.source[P] \in cache.instances[P]
         /\ cache.source[P] # None
         /\ \A p \in cache.instances[P] :
              p \in Instances /\ cache.prototype[p] = P /\ KeyOf(p) = cache.key[P]
BY RecomposeAssumption
DEF Before, TypeOK, CacheTypeOK, CacheConsistent, Instances, KeyOf

(* New prototypes are fresh, and apart.                                    *)
LEMMA NamingFacts ==
  ASSUME NEW naming \in Namings
  PROVE  /\ \A k \in NewKeys : naming[k] \in Prototypes /\ cache.key[naming[k]] = None
         /\ \A k, l \in NewKeys : naming[k] = naming[l] => k = l
BY DEF Namings, FreshPrototypes

(* Keys and prototypes are still each other's, before any of them dies.    *)
LEMMA KeysAfter ==
  ASSUME Before, NEW naming \in Namings
  PROVE  /\ ProtoAfter(naming) \in [Keys -> Prototypes \cup {None}]
         /\ KeyAfter(naming) \in [Prototypes -> Keys \cup {None}]
         /\ \A k \in Keys, P \in Prototypes :
              ProtoAfter(naming)[k] = P <=> KeyAfter(naming)[P] = k
         /\ \A k \in AddedKeys : ProtoAfter(naming)[k] \in Prototypes
         /\ \A P \in Prototypes : KeyAfter(naming)[P] # cache.key[P] =>
              cache.key[P] = None /\ KeyAfter(naming)[P] \in NewKeys
         /\ \A P \in Prototypes : KeyAfter(naming)[P] \in NewKeys => cache.key[P] = None
<1>0. NewKeys \subseteq Keys /\ NewKeys \subseteq AddedKeys /\ AddedKeys \subseteq Keys
  BY DEF NewKeys, AddedKeys
<1>1. ProtoAfter(naming) \in [Keys -> Prototypes \cup {None}]
  BY NamingFacts DEF ProtoAfter, Before, TypeOK, CacheTypeOK
<1>2. \A k \in NewKeys : KeyAfter(naming)[naming[k]] = k /\ ProtoAfter(naming)[k] = naming[k]
  BY <1>0, NamingFacts DEF KeyAfter, ProtoAfter
<1>3. \A P \in Prototypes : \/ \E k \in NewKeys : naming[k] = P
                            \/ KeyAfter(naming)[P] = cache.key[P]
  BY DEF KeyAfter
<1>4. KeyAfter(naming) \in [Prototypes -> Keys \cup {None}]
  <2>1. \A P \in Prototypes : KeyAfter(naming)[P] \in Keys \cup {None}
    BY <1>0, <1>2, <1>3 DEF Before, TypeOK, CacheTypeOK
  <2> QED BY <2>1 DEF KeyAfter
<1>5. ASSUME NEW k \in Keys, NEW P \in Prototypes
      PROVE  ProtoAfter(naming)[k] = P <=> KeyAfter(naming)[P] = k
  <2>1. CASE k \in NewKeys
    <3>1. cache.proto[k] = None
      BY <2>1 DEF NewKeys
    <3>2. cache.key[P] # k
      BY <3>1, RecomposeAssumption DEF Before, CacheConsistent
    <3> QED BY <1>2, <1>3, <2>1, <3>2
  <2>2. CASE k \notin NewKeys
    <3>1. ProtoAfter(naming)[k] = cache.proto[k]
      BY <2>2 DEF ProtoAfter
    <3>2. cache.proto[k] = P <=> cache.key[P] = k
      BY DEF Before, CacheConsistent
    <3>3. CASE \E l \in NewKeys : naming[l] = P
      BY <1>2, <2>2, <3>1, <3>2, <3>3, NamingFacts, RecomposeAssumption
    <3> QED BY <1>3, <3>1, <3>2, <3>3
  <2> QED BY <2>1, <2>2
<1>6. \A k \in AddedKeys : ProtoAfter(naming)[k] \in Prototypes
  BY <1>0, NamingFacts DEF ProtoAfter, NewKeys, Before, TypeOK, CacheTypeOK
<1>7. \A P \in Prototypes : KeyAfter(naming)[P] # cache.key[P] =>
        cache.key[P] = None /\ KeyAfter(naming)[P] \in NewKeys
  BY <1>2, <1>3, NamingFacts
<1>8. ASSUME NEW P \in Prototypes, KeyAfter(naming)[P] \in NewKeys PROVE cache.key[P] = None
  <2>1. cache.proto[KeyAfter(naming)[P]] = None
    BY <1>8 DEF NewKeys
  <2>2. cache.key[P] # KeyAfter(naming)[P]
    BY <1>0, <1>8, <2>1, RecomposeAssumption DEF Before, CacheConsistent
  <2> QED BY <1>7, <2>2
<1> QED BY <1>1, <1>4, <1>5, <1>6, <1>7, <1>8

(* What is registered is registered under its key alone.                   *)
LEMMA AddedFacts ==
  ASSUME Before
  PROVE  /\ \A k \in Keys : \A p \in pendingAdded[k].paths :
              p \in Added /\ p \in Prims /\ Status(p) = k
         /\ \A p \in Added : Status(p) \in AddedKeys /\ p \in pendingAdded[Status(p)].paths
BY DEF Before, PendingIsCurrent, Added, AddedKeys, TypeOK, CacheTypeOK

LEMMA GoneFacts ==
  ASSUME Before
  PROVE  /\ \A p \in Instances : p \in Gone(KeyOf(p)) <=> p \notin Kept \cup Added
                                                  \/ (p \in Added /\ Status(p) # KeyOf(p))
         /\ \A p \in GoneAtAll : p \in Instances /\ p \in Gone(KeyOf(p))
         /\ \A P \in Prototypes : \A p \in GoneFrom(P) :
              cache.key[P] # None /\ p \in Instances /\ KeyOf(p) = cache.key[P]
<1>1. \A k \in Keys : pendingRemoved[k] \subseteq Prims /\
        \A p \in pendingRemoved[k] : p \in Instances /\ KeyOf(p) = k
  BY DEF Before, PendingIsCurrent, TypeOK, CacheTypeOK
<1>2. ASSUME NEW p \in Instances
      PROVE  p \in Gone(KeyOf(p)) <=> p \notin Kept \cup Added
                                     \/ (p \in Added /\ Status(p) # KeyOf(p))
  <2>1. KeyOf(p) \in Keys
    BY InstanceFacts
  <2>2. p \in Kept <=> p \notin pendingRemoved[KeyOf(p)]
    BY DEF Kept
  <2>3. p \in pendingAdded[KeyOf(p)].paths <=> p \in Added /\ Status(p) = KeyOf(p)
    BY <2>1, AddedFacts
  <2>4. p \in Kept => Status(p) = KeyOf(p)
    BY DEF Before, ChangedIsUnregistered
  <2> QED BY <2>2, <2>3, <2>4 DEF Gone
<1>3. \A p \in GoneAtAll : p \in Instances /\ p \in Gone(KeyOf(p))
  BY <1>1 DEF GoneAtAll, Gone
<1>4. \A P \in Prototypes : \A p \in GoneFrom(P) :
        cache.key[P] # None /\ p \in Instances /\ KeyOf(p) = cache.key[P]
  BY <1>1, PrototypeFacts DEF GoneFrom, Gone
<1> QED BY <1>2, <1>3, <1>4

(* Which prototype an instance has afterwards: the instances that are kept *)
(* keep theirs, and those registered have the one of their key.            *)
LEMMA InstancesAreAfter ==
  ASSUME Before, NEW naming \in Namings
  PROVE  /\ InstancesAfter(naming) \in [Prototypes -> SUBSET Prims]
         /\ \A P \in Prototypes : \A p \in Prims :
              p \in InstancesAfter(naming)[P] <=>
                p \in Coming /\ KeyAfter(naming)[P] = Status(p)
         /\ \A p \in Coming : Status(p) \in Keys /\ p \in Prims
                              /\ ProtoAfter(naming)[Status(p)] \in Prototypes
<1>1. \A P \in Prototypes : AddedTo(naming, P) \subseteq Prims
  BY KeysAfter, AddedFacts DEF AddedTo
<1>2. \A P \in Prototypes : Left(P) \subseteq Prims
  BY DEF Left, Before, TypeOK, CacheTypeOK
<1>3. InstancesAfter(naming) \in [Prototypes -> SUBSET Prims]
  BY <1>1, <1>2 DEF InstancesAfter
<1>4. ASSUME NEW P \in Prototypes, NEW p \in Prims
      PROVE  p \in AddedTo(naming, P) <=> p \in Added /\ KeyAfter(naming)[P] = Status(p)
  <2>1. KeyAfter(naming)[P] \in Keys \cup {None}
    BY KeysAfter
  <2>2. p \in Added => Status(p) \in Keys
    BY AddedFacts DEF AddedKeys
  <2> QED BY <2>1, <2>2, AddedFacts, RecomposeAssumption DEF AddedTo
<1>5. ASSUME NEW P \in Prototypes, NEW p \in Prims
      PROVE  p \in Left(P) <=> /\ p \in Instances /\ cache.prototype[p] = P
                               /\ p \notin Gone(KeyOf(p))
  <2>1. p \in cache.instances[P] <=> p \in Instances /\ cache.prototype[p] = P
    BY RecomposeAssumption DEF Before, CacheConsistent, Instances
  <2>2. CASE p \in Instances /\ cache.prototype[p] = P
    <3>1. GoneFrom(P) = Gone(KeyOf(p))
      BY <2>2, InstanceFacts, RecomposeAssumption DEF GoneFrom, KeyOf
    <3> QED BY <2>1, <2>2, <3>1 DEF Left
  <2> QED BY <2>1, <2>2 DEF Left
<1>6. ASSUME NEW p \in Kept
      PROVE  /\ p \in Instances /\ p \in Prims /\ Status(p) = KeyOf(p) /\ Status(p) \in Keys
             /\ p \notin Gone(KeyOf(p)) /\ Status(p) \notin NewKeys
             /\ ProtoAfter(naming)[Status(p)] = cache.prototype[p]
             /\ cache.prototype[p] \in Prototypes
  <2>1. p \in Instances /\ Status(p) = KeyOf(p)
    BY DEF Kept, Before, ChangedIsUnregistered
  <2>2. p \notin Gone(KeyOf(p))
    BY <2>1, GoneFacts
  <2>3. KeyOf(p) \notin NewKeys
    BY <2>1, InstanceFacts, RecomposeAssumption DEF NewKeys
  <2> QED BY <2>1, <2>2, <2>3, InstanceFacts DEF ProtoAfter
<1>7. ASSUME NEW P \in Prototypes, NEW p \in Prims
      PROVE  p \in InstancesAfter(naming)[P] <=>
               p \in Coming /\ KeyAfter(naming)[P] = Status(p)
  <2>1. ASSUME p \in Left(P)
        PROVE  p \in Coming /\ KeyAfter(naming)[P] = Status(p)
    <3>1. p \in Instances /\ cache.prototype[p] = P /\ p \notin Gone(KeyOf(p))
      BY <1>5, <2>1
    <3>2. p \in Kept \cup Added /\ (p \in Added => Status(p) = KeyOf(p))
      BY <3>1, GoneFacts
    <3>3. Status(p) = KeyOf(p)
      BY <1>6, <3>2
    <3>4. KeyAfter(naming)[P] = cache.key[P]
      BY <3>1, KeysAfter, InstanceFacts, RecomposeAssumption DEF KeyOf
    <3> QED BY <3>1, <3>2, <3>3, <3>4 DEF Coming, KeyOf
  <2>2. ASSUME p \in Kept, KeyAfter(naming)[P] = Status(p)
        PROVE  p \in Left(P)
    <3>1. ProtoAfter(naming)[Status(p)] = P
      BY <1>6, <2>2, KeysAfter
    <3> QED BY <1>5, <1>6, <2>2, <3>1
  <2> QED BY <1>4, <2>1, <2>2 DEF InstancesAfter, Coming
<1>8. ASSUME NEW p \in Coming
      PROVE  /\ Status(p) \in Keys /\ p \in Prims
             /\ ProtoAfter(naming)[Status(p)] \in Prototypes
  <2>1. CASE p \in Kept
    BY <1>6, <2>1
  <2>2. CASE p \in Added
    BY <2>2, AddedFacts, KeysAfter DEF AddedKeys, Added
  <2> QED BY <2>1, <2>2 DEF Coming
<1> QED BY <1>3, <1>7, <1>8

(* An unregistered source is replaced by an instance that is left.         *)
LEMMA NewSourceFacts ==
  ASSUME Before, NEW afterRemoval \in NewSources, NEW P \in Prototypes
  PROVE  /\ SourceGone(P) /\ Left(P) # {} => afterRemoval[P] \in Left(P)
         /\ SourceGone(P) /\ Left(P) = {} => afterRemoval[P] = None
         /\ ~SourceGone(P) => afterRemoval[P] = cache.source[P]
<1> DEFINE bereft == {Q \in Prototypes : SourceGone(Q) /\ Left(Q) # {}}
<1>1. PICK chosen \in {f \in [bereft -> Instances] : \A Q \in bereft : f[Q] \in Left(Q)} :
        afterRemoval = [Q \in Prototypes |->
                          IF Q \in bereft THEN chosen[Q]
                          ELSE IF SourceGone(Q) THEN None
                          ELSE cache.source[Q]]
  BY DEF NewSources
<1>2. afterRemoval[P] = IF P \in bereft THEN chosen[P]
                        ELSE IF SourceGone(P) THEN None
                        ELSE cache.source[P]
  BY <1>1
<1>3. P \in bereft <=> SourceGone(P) /\ Left(P) # {}
  OBVIOUS
<1>4. P \in bereft => chosen[P] \in Left(P)
  BY <1>1
<1>. HIDE DEF bereft
<1>5. CASE P \in bereft
  BY <1>2, <1>3, <1>4, <1>5
<1>6. CASE P \notin bereft /\ SourceGone(P)
  BY <1>2, <1>3, <1>6
<1>7. CASE P \notin bereft /\ ~SourceGone(P)
  BY <1>2, <1>3, <1>7
<1> QED BY <1>5, <1>6, <1>7

LEMMA SourcesAfter ==
  ASSUME Before, NEW afterRemoval \in NewSources, NEW naming \in Namings,
         NEW P \in Prototypes
  PROVE  LET source == SourceAfter(afterRemoval, naming)[P]
             k == KeyAfter(naming)[P]
         IN
         /\ IF InstancesAfter(naming)[P] = {} THEN source = None
                                             ELSE source \in InstancesAfter(naming)[P]
         /\ k \in NewKeys => source = pendingAdded[k].first
         /\ k \notin NewKeys /\ cache.source[P] # None /\ cache.source[P] \notin GoneFrom(P)
              => source = cache.source[P]
         /\ k = None => InstancesAfter(naming)[P] = {}
<1> DEFINE k == KeyAfter(naming)[P]
           source == SourceAfter(afterRemoval, naming)[P]
<1>1. k \in Keys \cup {None}
  BY KeysAfter
<1>2. source = IF AddedTo(naming, P) = {} \/ afterRemoval[P] # None
                 THEN afterRemoval[P] ELSE pendingAdded[k].first
  BY DEF SourceAfter, AssignSource
<1>3. AddedTo(naming, P) # {} =>
        k \in Keys /\ AddedTo(naming, P) = pendingAdded[k].paths
        /\ pendingAdded[k].first \in AddedTo(naming, P)
        /\ pendingAdded[k].first # None
  BY <1>1, RecomposeAssumption
  DEF AddedTo, Before, PendingIsCurrent, TypeOK, CacheTypeOK
<1>4. AddedTo(naming, P) \subseteq InstancesAfter(naming)[P]
      /\ Left(P) \subseteq InstancesAfter(naming)[P]
      /\ InstancesAfter(naming)[P] = Left(P) \cup AddedTo(naming, P)
  BY DEF InstancesAfter
<1>5. CASE cache.key[P] = None
  <2>1. cache.instances[P] = {} /\ cache.source[P] = None /\ Left(P) = {}
        /\ GoneFrom(P) = {}
    BY <1>5 DEF Before, CacheConsistent, Left, GoneFrom
  <2>2. afterRemoval[P] = None
    BY <2>1, NewSourceFacts DEF SourceGone
  <2>3. k # None => k \in NewKeys
    BY <1>5, KeysAfter
  <2>4. k \in NewKeys => AddedTo(naming, P) # {}
    BY RecomposeAssumption DEF AddedTo, NewKeys, AddedKeys
  <2>5. k = None => AddedTo(naming, P) = {}
    BY DEF AddedTo
  <2> QED BY <1>2, <1>3, <1>4, <2>1, <2>2, <2>3, <2>4, <2>5
<1>6. CASE cache.key[P] # None
  <2>1. k = cache.key[P] /\ k \notin NewKeys
    BY <1>6, KeysAfter
  <2>2. /\ cache.source[P] \in cache.instances[P] /\ cache.source[P] # None
        /\ cache.instances[P] \subseteq Prims
    BY <1>6, PrototypeFacts, InstanceFacts
  <2>3. CASE SourceGone(P) /\ Left(P) # {}
    <3>1. afterRemoval[P] \in Left(P) /\ afterRemoval[P] # None
      BY <2>2, <2>3, NewSourceFacts, RecomposeAssumption DEF Left
    <3> QED BY <1>2, <1>4, <1>6, <2>1, <2>3, <3>1 DEF SourceGone
  <2>4. CASE SourceGone(P) /\ Left(P) = {}
    <3>1. afterRemoval[P] = None
      BY <2>4, NewSourceFacts
    <3> QED BY <1>2, <1>3, <1>4, <1>6, <2>1, <2>4, <3>1 DEF SourceGone
  <2>5. CASE ~SourceGone(P)
    <3>1. afterRemoval[P] = cache.source[P] /\ cache.source[P] \in Left(P)
      BY <2>2, <2>5, NewSourceFacts DEF Left, SourceGone
    <3> QED BY <1>2, <1>4, <1>6, <2>1, <2>2, <2>5, <3>1 DEF SourceGone
  <2> QED BY <2>3, <2>4, <2>5
<1> QED BY <1>5, <1>6

(* Which prototypes die: those that no instance is left of.                *)
LEMMA DeadAreEmpty ==
  ASSUME Before, NEW afterRemoval \in NewSources, NEW naming \in Namings,
         NEW P \in Prototypes
  PROVE  P \in DeadAfter(naming) <=>
           KeyAfter(naming)[P] # None /\ InstancesAfter(naming)[P] = {}
<1>1. P \in DeadAfter(naming) <=>
        /\ KeyAfter(naming)[P] # None /\ pendingRemoved[KeyAfter(naming)[P]] # {}
        /\ InstancesAfter(naming)[P] = {}
  BY DEF DeadAfter, Dead
<1>2. ASSUME KeyAfter(naming)[P] # None, InstancesAfter(naming)[P] = {}
      PROVE  pendingRemoved[KeyAfter(naming)[P]] # {}
  <2>1. Left(P) = {} /\ AddedTo(naming, P) = {}
    BY <1>2 DEF InstancesAfter
  <2>2. KeyAfter(naming)[P] \notin NewKeys
    BY <1>2, <2>1 DEF AddedTo, NewKeys, AddedKeys
  <2>3. cache.key[P] # None /\ KeyAfter(naming)[P] = cache.key[P]
    BY <1>2, <2>2, KeysAfter
  <2>4. cache.source[P] \in GoneFrom(P)
    BY <2>1, <2>3, PrototypeFacts DEF Left
  <2>5. cache.source[P] \in pendingRemoved[cache.key[P]]
    BY <2>3, <2>4 DEF GoneFrom, Gone
  <2> QED BY <2>3, <2>5
<1> QED BY <1>1, <1>2

(***************************************************************************)
(* The cache afterwards.                                                   *)
(***************************************************************************)
LEMMA Processed ==
  ASSUME Before, NEW afterRemoval \in NewSources, NEW naming \in Namings,
         ProcessChangesWith(afterRemoval, naming)
  PROVE  /\ CacheTypeOK' /\ CacheConsistent'
         /\ Instances' = Coming
         /\ \A p \in Coming : KeyOf(p)' = Status(p)
<1> DEFINE proto == ProtoAfter(naming)
           key == KeyAfter(naming)
           source == SourceAfter(afterRemoval, naming)
           insts == InstancesAfter(naming)
           dead == DeadAfter(naming)
<1>1. /\ cache'.proto = [k \in Keys |-> IF proto[k] \in dead THEN None ELSE proto[k]]
      /\ cache'.key = [P \in Prototypes |-> IF P \in dead THEN None ELSE key[P]]
      /\ cache'.source = source
      /\ cache'.instances = insts
      /\ pendingAdded' = NothingAdded /\ pendingRemoved' = NothingRemoved
      /\ cache' = [proto |-> cache'.proto, key |-> cache'.key,
                   source |-> cache'.source, user |-> cache'.user,
                   instances |-> cache'.instances, prototype |-> cache'.prototype]
  BY MapsAfter
<1>2. /\ proto \in [Keys -> Prototypes \cup {None}]
      /\ key \in [Prototypes -> Keys \cup {None}]
      /\ \A k \in Keys, P \in Prototypes : proto[k] = P <=> key[P] = k
  BY KeysAfter
<1>3. /\ insts \in [Prototypes -> SUBSET Prims]
      /\ \A P \in Prototypes : \A p \in Prims :
           p \in insts[P] <=> p \in Coming /\ key[P] = Status(p)
      /\ \A p \in Coming : Status(p) \in Keys /\ p \in Prims
                           /\ proto[Status(p)] \in Prototypes
  BY InstancesAreAfter
<1>4. \A P \in Prototypes :
        /\ IF insts[P] = {} THEN source[P] = None ELSE source[P] \in insts[P]
        /\ key[P] = None => insts[P] = {}
  BY SourcesAfter
<1>5. \A P \in Prototypes : P \in dead <=> key[P] # None /\ insts[P] = {}
  BY DeadAreEmpty
<1>6. \A p \in Prims : cache'.prototype[p] = IF p \in Coming THEN proto[Status(p)] ELSE None
  <2>1. \A p \in Prims :
          \/ \E k \in AddedKeys : /\ p \in pendingAdded[k].paths
                                  /\ cache'.prototype[p] = ProtoAfter(naming)[k]
          \/ /\ \A k \in AddedKeys : p \notin pendingAdded[k].paths
             /\ cache'.prototype[p] = IF p \in GoneAtAll THEN None ELSE cache.prototype[p]
    BY PrototypesAfter
  <2>2. \A p \in Prims : p \in Added <=> \E k \in AddedKeys : p \in pendingAdded[k].paths
    BY AddedFacts DEF Added, AddedKeys
  <2>3. ASSUME NEW p \in Added
        PROVE  cache'.prototype[p] = proto[Status(p)] /\ p \in Coming
    <3>1. p \in Prims /\ Status(p) \in AddedKeys /\ p \in pendingAdded[Status(p)].paths
      BY AddedFacts DEF Added
    <3>2. \A k \in AddedKeys : p \in pendingAdded[k].paths => k = Status(p)
      BY AddedFacts DEF AddedKeys
    <3> QED BY <2>1, <3>1, <3>2 DEF Coming
  <2>4. ASSUME NEW p \in Prims, p \notin Added
        PROVE  cache'.prototype[p] = IF p \in Coming THEN proto[Status(p)] ELSE None
    <3>1. cache'.prototype[p] = IF p \in GoneAtAll THEN None ELSE cache.prototype[p]
      BY <2>1, <2>2, <2>4
    <3>2. CASE p \in Kept
      <4>1. p \in Instances /\ Status(p) = KeyOf(p)
        BY <3>2 DEF Kept, Before, ChangedIsUnregistered
      <4>2. p \notin GoneAtAll
        BY <2>4, <3>2, <4>1, GoneFacts
      <4>3. KeyOf(p) \notin NewKeys
        BY <4>1, InstanceFacts, RecomposeAssumption DEF NewKeys
      <4> QED BY <3>1, <3>2, <4>1, <4>2, <4>3, InstanceFacts DEF ProtoAfter, Coming
    <3>3. CASE p \in Instances /\ p \notin Kept
      <4>1. p \in Gone(KeyOf(p)) /\ KeyOf(p) \in Keys
        BY <2>4, <3>3, GoneFacts, InstanceFacts
      <4>2. p \in GoneAtAll
        BY <4>1 DEF GoneAtAll
      <4> QED BY <2>4, <3>1, <3>3, <4>2 DEF Coming
    <3>4. CASE p \notin Instances
      BY <2>4, <3>1, <3>4 DEF Instances, Coming, Kept
    <3> QED BY <3>2, <3>3, <3>4
  <2> QED BY <2>3, <2>4
<1>. HIDE DEF proto, key, source, insts, dead
<1>7. \A p \in Prims, P \in Prototypes : p \in insts[P] <=> cache'.prototype[p] = P
  BY <1>2, <1>3, <1>6, RecomposeAssumption
<1>8. \A P, Q \in Prototypes : source[P] = source[Q] /\ source[P] # None => P = Q
  <2>1. ASSUME NEW P \in Prototypes, source[P] # None
        PROVE  source[P] \in Prims /\ cache'.prototype[source[P]] = P
    BY <1>3, <1>4, <1>7, <2>1
  <2> QED BY <2>1
<1>9. \A P \in Prototypes : source[P] \in Prims \cup {None}
  BY <1>3, <1>4
<1>10. /\ cache'.user \in [Prims -> Prototypes \cup {None}]
       /\ \A p \in Prims, P \in Prototypes : source[P] = p <=> cache'.user[p] = P
  <2>1. /\ cache'.user = [p \in Prims |-> cache'.user[p]]
        /\ \A p \in Prims :
             IF \E P \in Prototypes : source[P] = p
               THEN \E P \in Prototypes : source[P] = p /\ cache'.user[p] = P
               ELSE cache'.user[p] = IF p \in GoneAtAll THEN None ELSE cache.user[p]
    BY UsersAfter DEF source
  <2>2. cache.user \in [Prims -> Prototypes \cup {None}]
    BY DEF Before, TypeOK, CacheTypeOK
  <2>3. ASSUME NEW p \in Prims, NEW P \in Prototypes, source[P] = p
        PROVE  cache'.user[p] = P
    <3>1. p # None
      BY RecomposeAssumption
    <3> QED BY <1>8, <2>1, <2>3, <3>1
  <2>4. ASSUME NEW p \in Prims, NEW P \in Prototypes, source[P] # p, cache'.user[p] = P
        PROVE  FALSE
    <3>1. \A Q \in Prototypes : source[Q] # p
      BY <2>3, <2>4
    <3>2. p \notin GoneAtAll /\ cache.user[p] = P
      BY <2>1, <2>4, <3>1, RecomposeAssumption
    <3>3. cache.source[P] = p /\ cache.key[P] # None
      BY <3>2, RecomposeAssumption DEF Before, CacheConsistent
    <3>4. p \notin GoneFrom(P)
      BY <3>2, <3>3, PrototypeFacts DEF GoneFrom, GoneAtAll
    <3>5. key[P] \notin NewKeys
      BY <3>3, KeysAfter DEF key
    <3> QED BY <2>4, <3>3, <3>4, <3>5, SourcesAfter, RecomposeAssumption DEF source, key
  <2>5. \A p \in Prims : cache'.user[p] \in Prototypes \cup {None}
    BY <2>1, <2>2, <2>3
  <2> QED BY <2>1, <2>3, <2>4, <2>5
<1>11. cache'.proto \in [Keys -> Prototypes \cup {None}]
       /\ cache'.key \in [Prototypes -> Keys \cup {None}]
  BY <1>1, <1>2
<1>12. cache'.prototype \in [Prims -> Prototypes \cup {None}]
  <2>1. DOMAIN cache'.prototype = Prims /\ cache'.prototype = [p \in Prims |-> cache'.prototype[p]]
    BY PrototypesAfter
  <2>2. \A p \in Prims : cache'.prototype[p] \in Prototypes \cup {None}
    BY <1>3, <1>6
  <2> QED BY <2>1, <2>2
<1>13. source \in [Prototypes -> Prims \cup {None}]
  BY <1>9 DEF source, SourceAfter
<1>14. changes' \in [new : [Prototypes -> Prims \cup {None}],
                     changed : [Prototypes -> Prims \cup {None}],
                     dead : SUBSET Prototypes]
  <2>1. \A P \in Prototypes : source[P] \in Prims \cup {None}
    BY <1>9
  <2>2. /\ changes'.new = [P \in Prototypes |->
                            IF \E k \in NewKeys : naming[k] = P
                              THEN source[P] ELSE changes.new[P]]
        /\ \E moved : changes'.changed = [P \in Prototypes |->
                            IF P \in moved THEN source[P] ELSE changes.changed[P]]
        /\ \E d \in SUBSET Prototypes : changes'.dead = changes.dead \cup d
        /\ changes' = [new |-> changes'.new, changed |-> changes'.changed,
                       dead |-> changes'.dead]
    BY ChangesAfter DEF source
  <2>3. changes \in [new : [Prototypes -> Prims \cup {None}],
                     changed : [Prototypes -> Prims \cup {None}],
                     dead : SUBSET Prototypes]
    BY DEF Before, TypeOK, CacheTypeOK
  <2>4. changes'.new \in [Prototypes -> Prims \cup {None}]
    BY <2>1, <2>2, <2>3
  <2>5. changes'.changed \in [Prototypes -> Prims \cup {None}]
    BY <2>1, <2>2, <2>3
  <2>6. changes'.dead \in SUBSET Prototypes
    BY <2>2, <2>3
  <2> QED BY <2>2, <2>4, <2>5, <2>6
<1>15. CacheTypeOK'
  <2>1. cache' \in [proto : [Keys -> Prototypes \cup {None}],
                    key : [Prototypes -> Keys \cup {None}],
                    source : [Prototypes -> Prims \cup {None}],
                    user : [Prims -> Prototypes \cup {None}],
                    instances : [Prototypes -> SUBSET Prims],
                    prototype : [Prims -> Prototypes \cup {None}]]
    BY <1>1, <1>3, <1>10, <1>11, <1>12, <1>13
  <2> QED BY <1>1, <1>14, <2>1 DEF CacheTypeOK, NothingAdded, NothingRemoved
<1>16. CacheConsistent'
  <2>1. \A k \in Keys, P \in Prototypes : cache'.proto[k] = P <=> cache'.key[P] = k
    BY <1>1, <1>2, RecomposeAssumption
  <2>2. \A p \in Prims, P \in Prototypes :
          /\ p \in cache'.instances[P] <=> cache'.prototype[p] = P
          /\ cache'.source[P] = p <=> cache'.user[p] = P
    BY <1>1, <1>7, <1>10
  <2>3. \A P \in Prototypes :
          IF cache'.key[P] = None
            THEN cache'.instances[P] = {} /\ cache'.source[P] = None
            ELSE cache'.source[P] \in cache'.instances[P]
    BY <1>1, <1>2, <1>4, <1>5
  <2> QED BY <2>1, <2>2, <2>3 DEF CacheConsistent
<1>17. Instances' = Coming
  BY <1>3, <1>6, RecomposeAssumption DEF Instances
<1>18. ASSUME NEW p \in Coming PROVE KeyOf(p)' = Status(p)
  <2>1. p \in Prims /\ cache'.prototype[p] = proto[Status(p)]
        /\ proto[Status(p)] \in Prototypes /\ Status(p) \in Keys
    BY <1>3, <1>6
  <2>2. key[proto[Status(p)]] = Status(p) /\ p \in insts[proto[Status(p)]]
    BY <1>2, <1>3, <2>1
  <2> QED BY <1>1, <1>5, <2>1, <2>2 DEF KeyOf
<1> QED BY <1>15, <1>16, <1>17, <1>18

(* Which instances are sources afterwards: those that were, or became the  *)
(* first of their key, and those the stage is told of.                     *)
LEMMA SourcesProcessed ==
  ASSUME Before, NEW afterRemoval \in NewSources, NEW naming \in Namings,
         ProcessChangesWith(afterRemoval, naming)
  PROVE  /\ ChangedSources \subseteq Coming
         /\ \A o \in Prims : Status(o) \in Keys /\ Opens(o) =>
              /\ cache'.proto[Status(o)] # None
              /\ cache'.source[cache'.proto[Status(o)]] = o
         /\ \A o \in Prims :
              /\ Status(o) \in Keys /\ cache'.proto[Status(o)] # None
              /\ cache'.source[cache'.proto[Status(o)]] = o
              => Opens(o) \/ o \in ChangedSources
<1> DEFINE proto == ProtoAfter(naming)
           key == KeyAfter(naming)
           source == SourceAfter(afterRemoval, naming)
           insts == InstancesAfter(naming)
           dead == DeadAfter(naming)
<1>1. /\ cache'.proto = [k \in Keys |-> IF proto[k] \in dead THEN None ELSE proto[k]]
      /\ cache'.source = source
  BY MapsAfter
<1>2. /\ proto \in [Keys -> Prototypes \cup {None}]
      /\ key \in [Prototypes -> Keys \cup {None}]
      /\ \A k \in Keys, P \in Prototypes : proto[k] = P <=> key[P] = k
      /\ \A P \in Prototypes : key[P] \notin NewKeys => key[P] = cache.key[P]
  BY KeysAfter
<1>3. \A P \in Prototypes : \A p \in Prims :
        p \in insts[P] <=> p \in Coming /\ key[P] = Status(p)
  BY InstancesAreAfter
<1>4. \A P \in Prototypes :
        /\ IF insts[P] = {} THEN source[P] = None ELSE source[P] \in insts[P]
        /\ key[P] \in NewKeys => source[P] = pendingAdded[key[P]].first
        /\ key[P] \notin NewKeys /\ cache.source[P] # None /\ cache.source[P] \notin GoneFrom(P)
             => source[P] = cache.source[P]
  BY SourcesAfter
<1>5. \A P \in Prototypes : P \in dead <=> key[P] # None /\ insts[P] = {}
  BY DeadAreEmpty
<1>6. insts \in [Prototypes -> SUBSET Prims]
  BY InstancesAreAfter
<1>7. \A P \in Prototypes : insts[P] \subseteq Left(P) \cup AddedTo(naming, P)
  BY DEF InstancesAfter
<1>. HIDE DEF proto, key, source, insts, dead
<1>8. ChangedSources \subseteq Coming
  <2>1. ASSUME NEW Q \in Prototypes, cache'.source[Q] # None
        PROVE  cache'.source[Q] \in Coming
    BY <1>1, <1>3, <1>4, <1>6, <2>1
  <2> QED BY <2>1 DEF ChangedSources
<1>9. ASSUME NEW o \in Prims, Status(o) \in Keys, Opens(o)
      PROVE  cache'.proto[Status(o)] # None /\ cache'.source[cache'.proto[Status(o)]] = o
  <2>1. o # None /\ \A P \in Prototypes : P # None
    BY RecomposeAssumption
  <2>2. PICK P \in Prototypes : proto[Status(o)] = P /\ source[P] = o
    <3>1. CASE cache.proto[Status(o)] = None
      <4>1. Status(o) \in NewKeys /\ pendingAdded[Status(o)].first = o
        BY <1>9, <3>1 DEF Opens, NewKeys, AddedKeys
      <4>2. proto[Status(o)] \in Prototypes
        BY <4>1, KeysAfter DEF NewKeys, proto
      <4>3. key[proto[Status(o)]] = Status(o)
        BY <1>2, <1>9, <4>2
      <4> QED BY <1>4, <4>1, <4>2, <4>3
    <3>2. CASE cache.proto[Status(o)] # None
      <4>1. Status(o) \notin NewKeys
        BY <3>2 DEF NewKeys
      <4>2. proto[Status(o)] = cache.proto[Status(o)]
        BY <1>9, <4>1 DEF proto, ProtoAfter
      <4>3. proto[Status(o)] \in Prototypes
        BY <1>2, <1>9, <3>2, <4>2
      <4>4. cache.key[proto[Status(o)]] = Status(o) /\ key[proto[Status(o)]] = Status(o)
        BY <1>2, <1>9, <4>2, <4>3 DEF Before, CacheConsistent
      <4>5. o \notin GoneFrom(proto[Status(o)])
        BY <1>9, <3>2, <4>4 DEF Opens, GoneFrom, Gone
      <4>6. cache.source[proto[Status(o)]] = o
        BY <1>9, <3>2, <4>2 DEF Opens
      <4> QED BY <1>4, <2>1, <4>1, <4>3, <4>4, <4>5, <4>6
    <3> QED BY <3>1, <3>2
  <2>3. insts[P] # {}
    BY <1>4, <2>1, <2>2
  <2>4. P \notin dead
    BY <1>5, <2>3
  <2> QED BY <1>1, <1>9, <2>1, <2>2, <2>4
<1>10. ASSUME NEW o \in Prims, Status(o) \in Keys, cache'.proto[Status(o)] # None,
              cache'.source[cache'.proto[Status(o)]] = o
       PROVE  Opens(o) \/ o \in ChangedSources
  <2>1. PICK P \in Prototypes : P = cache'.proto[Status(o)]
    BY <1>1, <1>2, <1>10
  <2>2. proto[Status(o)] = P /\ key[P] = Status(o) /\ source[P] = o
    BY <1>1, <1>2, <1>10, <2>1
  <2>3. o # None /\ P # None /\ Status(o) # None
    BY RecomposeAssumption, <1>10
  <2>4. CASE Status(o) \in NewKeys
    <3>1. pendingAdded[Status(o)].first = o
      BY <1>4, <2>2, <2>4
    <3> QED BY <2>4, <3>1 DEF Opens, NewKeys, AddedKeys
  <2>5. CASE Status(o) \notin NewKeys
    <3>1. cache.key[P] = Status(o) /\ cache.proto[Status(o)] = P
      BY <1>2, <1>10, <2>2, <2>5 DEF Before, CacheConsistent
    <3>2. CASE cache.source[P] = o
      <4>1. o \in Left(P) \cup AddedTo(naming, P)
        BY <1>4, <1>7, <2>2, <2>3
      <4>2. o \notin Gone(Status(o))
        BY <2>2, <2>3, <3>1, <4>1 DEF Left, AddedTo, Gone, GoneFrom, key
      <4> QED BY <2>3, <3>1, <3>2, <4>2 DEF Opens, Gone
    <3>3. CASE cache.source[P] # o
      BY <1>1, <2>2, <2>3, <3>1, <3>3 DEF ChangedSources
    <3> QED BY <3>2, <3>3
  <2> QED BY <2>4, <2>5
<1> QED BY <1>8, <1>9, <1>10

(***************************************************************************)
(* Every action keeps the invariant.                                       *)
(***************************************************************************)
LEMMA PathsAbove ==
  ASSUME NEW S \in SUBSET Prims
  PROVE  /\ \A p \in Prims : Prefixes(p) \subseteq Prims
         /\ Ancestors(S) \subseteq Prims
<1>1. ASSUME NEW p \in Prims PROVE Prefixes(p) \subseteq Prims
  <2>1. CASE p = <<>>
    BY <2>1, PrefixSets
  <2>2. ASSUME NEW r \in Roots, p = <<r>>
        PROVE  Prefixes(p) \subseteq Prims
    <3>1. Prefixes(p) = {<<>>, <<r>>}
      BY <2>2, PrefixSets
    <3> QED BY <3>1 DEF Prims
  <2>3. ASSUME NEW r \in Roots, NEW n \in Names, p = <<r, n>>
        PROVE  Prefixes(p) \subseteq Prims
    <3>1. Prefixes(p) = {<<>>, <<r>>, <<r, n>>}
      BY <2>3, PrefixSets
    <3> QED BY <3>1 DEF Prims
  <2> QED BY <2>1, <2>2, <2>3, PrimCases
<1> QED BY <1>1 DEF Ancestors

LEMMA RootIsPlain == Status(<<>>) = Plain /\ Status(<<>>) \notin Keys
BY StatusCases, RecomposeAssumption DEF Status

LEMMA InstancesRegisteredKeeps ==
  ASSUME IInv, InstancesRegistered
  PROVE  IInv'
<1>0. Before /\ todo = {}
  BY DEF IInv, Before, InstancesRegistered
<1>1. PICK afterRemoval \in NewSources, naming \in Namings :
        ProcessChangesWith(afterRemoval, naming)
  BY DEF InstancesRegistered, ProcessChanges
<1>2. /\ CacheTypeOK' /\ CacheConsistent' /\ Instances' = Coming
      /\ \A p \in Coming : KeyOf(p)' = Status(p)
  BY <1>0, <1>1, Processed
<1>3. /\ ChangedSources \subseteq Coming
      /\ \A o \in Prims : Status(o) \in Keys /\ Opens(o) =>
           /\ cache'.proto[Status(o)] # None
           /\ cache'.source[cache'.proto[Status(o)]] = o
      /\ \A o \in Prims :
           /\ Status(o) \in Keys /\ cache'.proto[Status(o)] # None
           /\ cache'.source[cache'.proto[Status(o)]] = o
           => Opens(o) \/ o \in ChangedSources
  BY <1>0, <1>1, SourcesProcessed
<1>4. \A p \in Coming : p \in Prims /\ Status(p) \in Keys
  BY <1>0, <1>1, InstancesAreAfter
<1>5. /\ todo' = ChangedSources /\ scene' = scene /\ paths' = paths /\ primMap' = primMap
      /\ phase' = IF ChangedSources = {} THEN "recomposing" ELSE "composing"
      /\ indexes' = indexes \cup Ancestors(ChangedSources)
      /\ pendingAdded' = NothingAdded /\ pendingRemoved' = NothingRemoved
  BY <1>1, MapsAfter DEF InstancesRegistered
<1>6. \A p : Status(p)' = Status(p)
  BY <1>5 DEF Status
<1>7. /\ \A k \in Keys : pendingAdded'[k].paths = {} /\ pendingRemoved'[k] = {}
      /\ Added' = {} /\ Kept' = Coming /\ Coming' = Coming
  <2>1. \A k \in Keys : pendingAdded'[k].paths = {} /\ pendingRemoved'[k] = {}
    BY <1>5 DEF NothingAdded, NothingRemoved
  <2>2. Added' = {}
    BY <2>1 DEF Added
  <2>3. Kept' = Coming
    <3>1. \A p \in Coming : KeyOf(p)' \in Keys
      BY <1>2, <1>4
    <3> QED BY <1>2, <2>1, <3>1 DEF Kept
  <2> QED BY <2>1, <2>2, <2>3 DEF Coming
<1>8. \A o \in Prims : Status(o) \in Keys =>
        (Opens(o)' <=> /\ cache'.proto[Status(o)] # None
                       /\ cache'.source[cache'.proto[Status(o)]] = o)
  BY <1>6, <1>7 DEF Opens
<1>9. \A r \in Roots : <<r>> \in Prims /\ \A n \in Names : <<r, n>> \in Prims
  BY DEF Prims
<1>10. TypeOK'
  <2>1. ChangedSources \subseteq Prims
    BY <1>3, <1>4
  <2>2. Ancestors(ChangedSources) \subseteq Prims
    BY <2>1, PathsAbove
  <2> QED BY <1>2, <1>5, <2>1, <2>2 DEF IInv, TypeOK, StagePaths, Prim
<1>11. PendingIsCurrent'
  BY <1>5, <1>7 DEF PendingIsCurrent
<1>12. ChangedIsUnregistered'
  BY <1>2, <1>6, <1>7 DEF ChangedIsUnregistered
<1>13. NestedIsOpen'
  BY <1>3, <1>5, <1>6, <1>7, <1>8, <1>9 DEF IInv, NestedIsOpen
<1>14. InstancesAreFound'
  <2>1. \A r \in Roots :
          /\ Status(<<r>>) \in Keys => <<r>> \in Coming
          /\ \A n \in Names : Status(<<r, n>>) \in Keys =>
               <<r, n>> \in Coming \/ (Status(<<r>>) \in Keys /\ ~Opens(<<r>>))
    BY <1>0 DEF IInv, InstancesAreFound
  <2>2. \A r \in Roots : <<r>> \notin ChangedSources /\ Status(<<r>>) \in Keys
          /\ ~Opens(<<r>>) => ~Opens(<<r>>)'
    BY <1>3, <1>8, <1>9
  <2> QED BY <1>5, <1>6, <1>7, <2>1, <2>2 DEF InstancesAreFound
<1>15. TodoIsNew'
  BY <1>3, <1>4, <1>5, <1>7, RootIsPlain DEF TodoIsNew
<1> QED BY <1>2, <1>10, <1>11, <1>12, <1>13, <1>14, <1>15 DEF IInv

(* The children a task finds.                                              *)
LEMMA ChildFacts ==
  ASSUME NEW r \in Roots
  PROVE  /\ ChildIndexes(<<>>) = {<<q>> : q \in {q \in Roots : Status(<<q>>) # Absent}}
         /\ ChildIndexes(<<r>>) =
              {<<r, n>> : n \in {n \in Names : Status(<<r, n>>) # Absent}}
         /\ \A n \in Names : ChildIndexes(<<r, n>>) = {}
<1>1. \A c \in Prims : \/ c = <<>> /\ Len(c) = 0
                       \/ \E q \in Roots : c = <<q>> /\ Len(c) = 1
                       \/ \E q \in Roots, n \in Names : c = <<q, n>> /\ Len(c) = 2
  BY PrimCases, PathFacts
<1>2. \A q \in Roots : /\ <<q>> \in Prims /\ IsPrefix(<<>>, <<q>>)
                       /\ Len(<<q>>) = 1 /\ Len(<<>>) = 0
  <2>1. \A q \in Roots : <<q>> \in Prims
    BY DEF Prims
  <2> QED BY <2>1, PathFacts
<1>3. ASSUME NEW q \in Roots, NEW n \in Names
      PROVE  /\ <<q, n>> \in Prims /\ Len(<<q, n>>) = 2
             /\ IsPrefix(<<r>>, <<q, n>>) <=> r = q
  BY PathFacts DEF Prims
<1>4. \A c : c \in ChildIndexes(<<>>) <=>
               c \in Prims /\ Len(c) = 1 /\ IsPrefix(<<>>, c) /\ Status(c) # Absent
  BY <1>2 DEF ChildIndexes
<1>5. \A c : c \in ChildIndexes(<<r>>) <=>
               c \in Prims /\ Len(c) = 2 /\ IsPrefix(<<r>>, c) /\ Status(c) # Absent
  BY <1>2 DEF ChildIndexes
<1>6. ASSUME NEW n \in Names PROVE ChildIndexes(<<r, n>>) = {}
  BY <1>1, <1>3 DEF ChildIndexes
<1>7. ChildIndexes(<<>>) = {<<q>> : q \in {q \in Roots : Status(<<q>>) # Absent}}
  <2>1. \A c \in Prims : Len(c) = 1 <=> \E q \in Roots : c = <<q>>
    BY <1>1, <1>2
  <2> QED BY <1>2, <1>4, <2>1
<1>8. ChildIndexes(<<r>>) = {<<r, n>> : n \in {n \in Names : Status(<<r, n>>) # Absent}}
  <2>1. \A c \in Prims : Len(c) = 2 <=> \E q \in Roots, n \in Names : c = <<q, n>>
    BY <1>1, <1>3
  <2>2. \A c \in ChildIndexes(<<r>>) :
          c \in {<<r, n>> : n \in {n \in Names : Status(<<r, n>>) # Absent}}
    BY <1>3, <1>5, <2>1
  <2>3. \A n \in Names : Status(<<r, n>>) # Absent => <<r, n>> \in ChildIndexes(<<r>>)
    BY <1>3, <1>5
  <2> QED BY <2>2, <2>3
<1> QED BY <1>6, <1>7, <1>8

(* What is absent has no children, and nothing absent is an instance.      *)
LEMMA AbsentFacts ==
  /\ Absent \notin Keys
  /\ TypeOK => \A r \in Roots, n \in Names :
       Status(<<r>>) = Absent => Status(<<r, n>>) = Absent
<1>1. Absent \notin Keys
  BY RecomposeAssumption
<1>2. ASSUME TypeOK, NEW r \in Roots, NEW n \in Names, Status(<<r>>) = Absent
      PROVE  Status(<<r, n>>) = Absent
  <2>1. scene.root[r] = Absent
    BY <1>2, StatusCases DEF Status
  <2>2. Absent \notin DOMAIN scene.children /\ Absent # Plain
    BY <1>2, RecomposeAssumption DEF TypeOK, Scenes, Keys
  <2>3. <<r, n>> # <<>> /\ Len(<<r, n>>) = 2 /\ <<r, n>>[1] = r
    BY PrimsAreDistinct
  <2> QED BY <2>1, <2>2, <2>3 DEF Status, StatusIn
<1> QED BY <1>1, <1>2

(* An instance is registered: it opens if the task is told to go on.       *)
LEMMA RegisterFacts ==
  ASSUME Before, NEW p \in Prims, NEW k \in Keys, k = Status(p), Register(p, k),
         scene' = scene, cache' = cache, pendingRemoved' = pendingRemoved
  PROVE  /\ pendingAdded' \in [Keys -> [first : Prims \cup {None}, paths : SUBSET Prims]]
         /\ Added' = Added \cup {p} /\ Coming' = Coming \cup {p} /\ Kept' = Kept
         /\ \A l \in Keys : \A q \in pendingAdded'[l].paths : Status(q) = l
         /\ \A l \in Keys : pendingAdded'[l].paths # {} =>
              pendingAdded'[l].first \in pendingAdded'[l].paths
         /\ \A q \in Prims : Status(q) \in Keys /\ q # p => (Opens(q)' <=> Opens(q))
         /\ Opens(p) => Opens(p)'
         /\ p \notin Added => (Opens(p)' <=> RegisterReturns(p, k))
<1>1. pendingAdded \in [Keys -> [first : Prims \cup {None}, paths : SUBSET Prims]]
  BY DEF Before, TypeOK, CacheTypeOK
<1>2. /\ pendingAdded'[k].paths = pendingAdded[k].paths \cup {p}
      /\ pendingAdded'[k].first = IF pendingAdded[k].paths = {} THEN p
                                  ELSE pendingAdded[k].first
      /\ \A l \in Keys : l # k => pendingAdded'[l] = pendingAdded[l]
  BY <1>1 DEF Register
<1>3. pendingAdded' \in [Keys -> [first : Prims \cup {None}, paths : SUBSET Prims]]
  <2>1. [first |-> IF pendingAdded[k].paths = {} THEN p ELSE pendingAdded[k].first,
         paths |-> pendingAdded[k].paths \cup {p}]
          \in [first : Prims \cup {None}, paths : SUBSET Prims]
    BY <1>1
  <2> QED BY <1>1, <2>1 DEF Register
<1>4. \A q : Status(q)' = Status(q)
  BY DEF Status
<1>5. Added' = Added \cup {p}
  BY <1>1, <1>2 DEF Added
<1>6. Kept' = Kept
  BY DEF Kept, KeyOf, Instances
<1>7. /\ \A l \in Keys : \A q \in pendingAdded[l].paths : Status(q) = l
      /\ \A l \in Keys : pendingAdded[l].paths # {} =>
           pendingAdded[l].first \in pendingAdded[l].paths
  BY DEF Before, PendingIsCurrent
<1>8. ASSUME NEW q \in Prims, Status(q) \in Keys, q # p
      PROVE  Opens(q)' <=> Opens(q)
  <2>1. CASE Status(q) = k
    BY <1>2, <1>4, <1>7, <1>8, <2>1 DEF Opens
  <2>2. CASE Status(q) # k
    BY <1>2, <1>4, <1>8, <2>2 DEF Opens
  <2> QED BY <2>1, <2>2
<1>9. ASSUME p \notin Added
      PROVE  Opens(p)' <=> RegisterReturns(p, k)
  <2>1. p \notin pendingAdded[k].paths
    BY <1>9 DEF Added
  <2> QED BY <1>2, <1>4, <1>7, <2>1 DEF Opens, RegisterReturns
<1>10. Opens(p) => Opens(p)'
  BY <1>2, <1>4 DEF Opens
<1> QED BY <1>2, <1>3, <1>5, <1>6, <1>7, <1>8, <1>9, <1>10 DEF Coming

(* What every visit of an index has in common.                             *)
LEMMA VisitKeeps ==
  ASSUME IInv, NEW p \in todo, ComputeIndex(p)
  PROVE  /\ TypeOK' /\ CacheConsistent' /\ PendingIsCurrent' /\ ChangedIsUnregistered'
         /\ p \in Prims /\ \A q : Status(q)' = Status(q)
         /\ Added' = IF Status(p) \in Keys THEN Added \cup {p} ELSE Added
         /\ Coming' = IF Status(p) \in Keys THEN Coming \cup {p} ELSE Coming
         /\ \A q \in Prims : Status(q) \in Keys /\ q # p => (Opens(q)' <=> Opens(q))
         /\ Status(p) \in Keys =>
              /\ Opens(p) => Opens(p)'
              /\ p \notin Added => (Opens(p)' <=> RegisterReturns(p, Status(p)))
         /\ todo' = (todo \ {p}) \cup
              (IF Status(p) \in Keys => RegisterReturns(p, Status(p)) THEN ChildIndexes(p)
               ELSE {})
<1>1. Before /\ p \in Prims
  BY DEF IInv, Before, TypeOK
<1>2. /\ scene' = scene /\ cache' = cache /\ pendingRemoved' = pendingRemoved
      /\ paths' = paths /\ primMap' = primMap /\ changes' = changes
      /\ phase = "composing" /\ phase' = phase
      /\ indexes' = indexes \cup {p}
  BY DEF ComputeIndex
<1>3. \A q : Status(q)' = Status(q)
  BY <1>2 DEF Status
<1>4. ChildIndexes(p) \subseteq Prims
  BY DEF ChildIndexes
<1>5. CacheConsistent'
  BY <1>2 DEF IInv, CacheConsistent
<1>6. CASE Status(p) \in Keys
  <2>1. Register(p, Status(p))
    BY <1>6 DEF ComputeIndex
  <2>2. /\ pendingAdded' \in [Keys -> [first : Prims \cup {None}, paths : SUBSET Prims]]
        /\ Added' = Added \cup {p} /\ Coming' = Coming \cup {p} /\ Kept' = Kept
        /\ \A l \in Keys : \A q \in pendingAdded'[l].paths : Status(q) = l
        /\ \A l \in Keys : pendingAdded'[l].paths # {} =>
             pendingAdded'[l].first \in pendingAdded'[l].paths
        /\ \A q \in Prims : Status(q) \in Keys /\ q # p => (Opens(q)' <=> Opens(q))
        /\ Opens(p) => Opens(p)'
        /\ p \notin Added => (Opens(p)' <=> RegisterReturns(p, Status(p)))
    BY <1>1, <1>2, <1>6, <2>1, RegisterFacts
  <2>3. todo' = (todo \ {p}) \cup
                (IF RegisterReturns(p, Status(p)) THEN ChildIndexes(p) ELSE {})
    BY <1>6 DEF ComputeIndex
  <2>4. TypeOK'
    BY <1>1, <1>2, <1>4, <2>2, <2>3
    DEF IInv, TypeOK, CacheTypeOK, StagePaths, Prim
  <2>5. PendingIsCurrent'
    BY <1>2, <1>3, <2>2 DEF IInv, PendingIsCurrent, Instances, KeyOf
  <2>6. ChangedIsUnregistered'
    BY <1>2, <1>3, <2>2 DEF IInv, ChangedIsUnregistered, KeyOf
  <2> QED BY <1>1, <1>3, <1>5, <1>6, <2>2, <2>3, <2>4, <2>5, <2>6
<1>7. CASE Status(p) \notin Keys
  <2>1. pendingAdded' = pendingAdded /\ todo' = (todo \ {p}) \cup ChildIndexes(p)
    BY <1>7 DEF ComputeIndex
  <2>2. TypeOK'
    BY <1>1, <1>2, <1>4, <2>1 DEF IInv, TypeOK, CacheTypeOK, StagePaths, Prim
  <2>3. /\ Added' = Added /\ Kept' = Kept /\ Coming' = Coming
    BY <1>2, <2>1 DEF Added, Kept, Coming, Instances, KeyOf
  <2>4. PendingIsCurrent'
    BY <1>2, <1>3, <2>1 DEF IInv, PendingIsCurrent, Instances, KeyOf
  <2>5. ChangedIsUnregistered'
    BY <1>2, <1>3, <2>3 DEF IInv, ChangedIsUnregistered, KeyOf
  <2>6. \A q \in Prims : Status(q) \in Keys => (Opens(q)' <=> Opens(q))
    BY <1>2, <1>3, <2>1 DEF Opens
  <2> QED BY <1>1, <1>3, <1>5, <1>7, <2>1, <2>2, <2>3, <2>4, <2>5, <2>6
<1> QED BY <1>6, <1>7

LEMMA ComputeIndexKeeps ==
  ASSUME IInv, NEW p \in Prims, ComputeIndex(p)
  PROVE  IInv'
<1>1. p \in todo /\ phase = "composing"
  BY DEF ComputeIndex
<1>2. /\ TypeOK' /\ CacheConsistent' /\ PendingIsCurrent' /\ ChangedIsUnregistered'
      /\ \A q : Status(q)' = Status(q)
      /\ Added' = IF Status(p) \in Keys THEN Added \cup {p} ELSE Added
      /\ Coming' = IF Status(p) \in Keys THEN Coming \cup {p} ELSE Coming
      /\ \A q \in Prims : Status(q) \in Keys /\ q # p => (Opens(q)' <=> Opens(q))
      /\ Status(p) \in Keys =>
           /\ Opens(p) => Opens(p)'
           /\ p \notin Added => (Opens(p)' <=> RegisterReturns(p, Status(p)))
      /\ todo' = (todo \ {p}) \cup
           (IF Status(p) \in Keys => RegisterReturns(p, Status(p)) THEN ChildIndexes(p)
            ELSE {})
  BY <1>1, VisitKeeps
<1>3. /\ NestedIsOpen /\ InstancesAreFound /\ TodoIsNew /\ TypeOK
      /\ \A r \in Roots : <<r>> \in Prims /\ \A n \in Names : <<r, n>> \in Prims
  BY DEF IInv, Prims
<1>4. CASE p = <<>>
  <2>1. /\ Added' = Added /\ Coming' = Coming /\ todo = {<<>>} /\ Added = {}
        /\ todo' = ChildIndexes(<<>>)
    BY <1>1, <1>2, <1>3, <1>4, RootIsPlain DEF TodoIsNew
  <2>2. \A c \in ChildIndexes(<<>>) : \E q \in Roots : c = <<q>>
    <3>1. CASE Roots = {}
      BY <3>1, PrimCases, PrimsAreDistinct DEF ChildIndexes, Prims
    <3>2. CASE Roots # {}
      BY <3>2, ChildFacts
    <3> QED BY <3>1, <3>2
  <2>3. \A r \in Roots : <<r>> \notin ChildIndexes(<<>>) => Status(<<r>>) = Absent
    BY ChildFacts
  <2>4. \A r \in Roots : <<r>> # <<>> /\ \A n \in Names : <<r, n>> # <<>>
                         /\ \A q \in Roots : <<r, n>> # <<q>>
    BY PrimsAreDistinct
  <2>5. NestedIsOpen'
    BY <1>2, <1>3, <1>4, <2>1, <2>2, <2>4 DEF NestedIsOpen
  <2>6. InstancesAreFound'
    BY <1>2, <1>3, <2>1, <2>3, AbsentFacts DEF InstancesAreFound
  <2>7. TodoIsNew'
    BY <2>1, <2>2, <2>4 DEF TodoIsNew
  <2> QED BY <1>2, <2>5, <2>6, <2>7 DEF IInv
<1>5. ASSUME NEW r \in Roots, p = <<r>>
      PROVE  IInv'
  <2>1. /\ p \notin Added /\ <<>> \notin todo
        /\ \A q \in Roots : <<q>> = p <=> q = r
        /\ \A q \in Roots, n \in Names : <<q, n>> # p
        /\ p # <<>>
    BY <1>1, <1>3, <1>5, PrimsAreDistinct DEF TodoIsNew
  <2>2. ChildIndexes(p) = {<<r, n>> : n \in {n \in Names : Status(<<r, n>>) # Absent}}
    BY <1>5, ChildFacts
  <2>3. /\ todo' = (todo \ {p}) \cup
                   (IF Status(p) \in Keys /\ ~Opens(p)' THEN {} ELSE ChildIndexes(p))
        /\ \A q, m : <<q, m>> \in ChildIndexes(p) => q = r
        /\ <<>> \notin ChildIndexes(p) /\ \A q \in Roots : <<q>> \notin ChildIndexes(p)
    BY <1>2, <2>1, <2>2, PrimsAreDistinct
  <2>4. NestedIsOpen'
    <3>1. SUFFICES ASSUME NEW q \in Roots, NEW n \in Names,
                          <<q, n>> \in Coming' \cup todo', Status(<<q>>) \in Keys
                   PROVE  Opens(<<q>>)'
      BY <1>2 DEF NestedIsOpen
    <3>2. CASE <<q, n>> \in Coming \cup todo
      <4>1. Opens(<<q>>)
        BY <1>3, <3>1, <3>2 DEF NestedIsOpen
      <4>2. CASE q # r
        BY <1>2, <1>3, <2>1, <3>1, <4>1, <4>2
      <4>3. CASE q = r
        BY <1>2, <1>5, <3>1, <4>1, <4>3
      <4> QED BY <4>2, <4>3
    <3>3. CASE <<q, n>> \notin Coming \cup todo
      BY <1>2, <1>5, <2>1, <2>3, <3>1, <3>3
    <3> QED BY <3>2, <3>3
  <2>5. InstancesAreFound'
    <3>1. SUFFICES ASSUME NEW q \in Roots, <<q>> \notin todo'
                   PROVE  /\ Status(<<q>>) \in Keys => <<q>> \in Coming'
                          /\ \A n \in Names : Status(<<q, n>>) \in Keys =>
                               \/ <<q, n>> \in Coming' \cup todo'
                               \/ Status(<<q>>) \in Keys /\ ~Opens(<<q>>)'
      BY <1>2 DEF InstancesAreFound
    <3>2. CASE q # r
      BY <1>2, <1>3, <2>1, <2>3, <3>1, <3>2 DEF InstancesAreFound
    <3>3. CASE q = r
      BY <1>2, <1>5, <2>2, <2>3, <3>1, <3>3, AbsentFacts
    <3> QED BY <3>2, <3>3
  <2>6. TodoIsNew'
    BY <1>2, <1>3, <2>1, <2>3 DEF TodoIsNew
  <2> QED BY <1>2, <2>4, <2>5, <2>6 DEF IInv
<1>6. ASSUME NEW r \in Roots, NEW n \in Names, p = <<r, n>>
      PROVE  IInv'
  <2>1. /\ todo' = todo \ {p} /\ p # <<>> /\ \A q \in Roots : <<q>> # p
    BY <1>2, <1>6, ChildFacts, PrimsAreDistinct
  <2>2. NestedIsOpen'
    BY <1>1, <1>2, <1>3, <2>1 DEF NestedIsOpen
  <2>3. InstancesAreFound'
    BY <1>2, <1>3, <2>1 DEF InstancesAreFound
  <2>4. TodoIsNew'
    BY <1>1, <1>2, <1>3, <2>1 DEF TodoIsNew
  <2> QED BY <1>2, <2>2, <2>3, <2>4 DEF IInv
<1> QED BY <1>4, <1>5, <1>6, PrimCases

-----------------------------------------------------------------------------
(***************************************************************************)
(* Changes of the scene.                                                   *)
(***************************************************************************)
LEMMA AtRest ==
  ASSUME IInv, phase # "composing"
  PROVE  /\ Before /\ todo = {} /\ Added = {} /\ Kept = Instances /\ Coming = Instances
         /\ \A k \in Keys : pendingAdded[k].paths = {} /\ pendingRemoved[k] = {}
         /\ \A p \in Instances :
              /\ p \in Prims /\ p # <<>> /\ Status(p) = KeyOf(p) /\ Status(p) \in Keys
              /\ cache.prototype[p] \in Prototypes
              /\ cache.proto[Status(p)] = cache.prototype[p]
              /\ Opens(p) <=> cache.source[cache.prototype[p]] = p
<1>1. Before /\ todo = {} /\ \A k \in Keys : pendingAdded[k].paths = {} /\ pendingRemoved[k] = {}
  BY DEF IInv, Before, PendingIsCurrent
<1>2. \A p \in Instances : KeyOf(p) \in Keys /\ p \in Prims
        /\ cache.prototype[p] \in Prototypes /\ cache.proto[KeyOf(p)] = cache.prototype[p]
  BY <1>1, InstanceFacts
<1>3. Added = {} /\ Kept = Instances /\ Coming = Instances
  BY <1>1, <1>2 DEF Added, Kept, Coming
<1>4. \A p \in Instances : Status(p) = KeyOf(p)
  BY <1>3 DEF IInv, ChangedIsUnregistered
<1>5. \A p \in Instances : p # <<>>
  BY <1>2, <1>4, RootIsPlain
<1>6. \A p \in Instances : Opens(p) <=> cache.source[cache.prototype[p]] = p
  BY <1>1, <1>2, <1>4, RecomposeAssumption DEF Opens
<1> QED BY <1>1, <1>2, <1>3, <1>4, <1>5, <1>6

(* A prim below an instance is used by a prototype if it is an instance    *)
(* itself, or the instance above it is a source.                           *)
LEMMA UsesAreKnown ==
  ASSUME IInv, phase # "composing", NEW r \in Roots, NEW n \in Names, <<r>> \in Instances
  PROVE  /\ Opens(<<r>>) => PrimsInPrototypesUsing(<<r, n>>) # {}
         /\ PrimsInPrototypesUsing(<<r, n>>) # {} => Opens(<<r>>) \/ <<r, n>> \in Instances
<1> DEFINE o == <<r>>
           c == <<r, n>>
           looked == {q \in Prefixes(c) \ {<<>>} :
                        \A m \in Prefixes(c) : IsStrictPrefix(q, m) => m \in Instances}
           above(q) == {i \in Instances : IsPrefix(i, q)}
           uses(q, i) == /\ \A j \in above(q) : IsPrefix(j, i)
                         /\ IsPrefix(cache.source[cache.prototype[i]], q)
<1>1. PrimsInPrototypesUsing(c) # {} <=>
        \E i \in Instances : \E q \in looked : i \in above(q) /\ uses(q, i)
  BY DEF PrimsInPrototypesUsing
<1>2. Prefixes(c) = {<<>>, o, c} /\ o # <<>> /\ c # <<>> /\ o # c
  BY PrefixSets, PathFacts
<1>3. /\ IsPrefix(o, o) /\ IsPrefix(o, c) /\ IsPrefix(c, c) /\ ~IsPrefix(c, o)
      /\ ~IsPrefix(o, <<>>) /\ ~IsPrefix(c, <<>>)
  BY PathFacts
<1>4. /\ ~IsStrictPrefix(c, <<>>) /\ ~IsStrictPrefix(c, o) /\ ~IsStrictPrefix(c, c)
      /\ ~IsStrictPrefix(o, <<>>) /\ ~IsStrictPrefix(o, o) /\ IsStrictPrefix(o, c)
  BY <1>2, <1>3 DEF IsStrictPrefix
<1>5. c \in looked /\ (o \in looked <=> c \in Instances)
      /\ \A q \in looked : q = o \/ q = c
  BY <1>2, <1>4
<1>6. /\ \A i \in Instances : IsPrefix(i, o) => i = o
      /\ \A i \in Instances : IsPrefix(i, c) => i = o \/ i = c
  <2>1. ASSUME NEW i \in Instances
        PROVE  /\ IsPrefix(i, o) => i = o
               /\ IsPrefix(i, c) => i = o \/ i = c
    <3>1. i # <<>> /\ i \in Prims
      BY AtRest
    <3>2. ASSUME NEW q \in Roots, i = <<q>>
          PROVE  (IsPrefix(i, o) => i = o) /\ (IsPrefix(i, c) => i = o \/ i = c)
      BY <3>2, PathFacts
    <3>3. ASSUME NEW q \in Roots, NEW m \in Names, i = <<q, m>>
          PROVE  (IsPrefix(i, o) => i = o) /\ (IsPrefix(i, c) => i = o \/ i = c)
      <4>1. ~IsPrefix(i, o)
        BY <3>3, Above
      <4>2. IsPrefix(i, c) => i = c
        BY <3>3, AboveChild
      <4> QED BY <4>1, <4>2
    <3> QED BY <3>1, <3>2, <3>3, PrimCases
  <2> QED BY <2>1
<1>7. above(o) = {o} /\ above(c) = {o} \cup ({c} \cap Instances)
  BY <1>3, <1>6
<1>8. ASSUME Opens(o) PROVE PrimsInPrototypesUsing(c) # {}
  <2>1. cache.source[cache.prototype[o]] = o
    BY <1>8, AtRest
  <2>2. CASE c \in Instances
    <3>1. o \in looked /\ o \in above(o) /\ uses(o, o)
      BY <1>3, <1>5, <1>7, <2>1, <2>2
    <3> QED BY <1>1, <3>1
  <2>3. CASE c \notin Instances
    <3>1. c \in looked /\ o \in above(c) /\ uses(c, o)
      BY <1>3, <1>5, <1>7, <2>1, <2>3
    <3> QED BY <1>1, <3>1
  <2> QED BY <2>2, <2>3
<1>9. ASSUME PrimsInPrototypesUsing(c) # {}, c \notin Instances PROVE Opens(o)
  <2>1. PICK i \in Instances : \E q \in looked : i \in above(q) /\ uses(q, i)
    BY <1>1, <1>9
  <2>2. i = o /\ IsPrefix(cache.source[cache.prototype[o]], c)
    BY <1>5, <1>7, <1>9, <2>1
  <2>3. cache.source[cache.prototype[o]] \in Instances
    <3>1. cache.prototype[o] \in Prototypes /\ KeyOf(o) # None
      BY AtRest, RecomposeAssumption
    <3> QED BY <3>1, AtRest, PrototypeFacts DEF KeyOf
  <2>4. cache.source[cache.prototype[o]] = o
    BY <1>6, <1>9, <2>2, <2>3
  <2> QED BY <2>4, AtRest
<1> QED BY <1>8, <1>9

(* Only a prim below an instance is ever left out.                         *)
LEMMA RootsAreNotElided ==
  ASSUME IInv, phase # "composing"
  PROVE  /\ ~Elided(<<>>)
         /\ \A r \in Roots : ~Elided(<<r>>)
         /\ \A r \in Roots, n \in Names : Elided(<<r, n>>) =>
              /\ <<r>> \in Instances /\ PrimsInPrototypesUsing(<<r, n>>) = {}
         /\ \A r \in Roots, n \in Names :
              <<r>> \in Instances /\ PrimsInPrototypesUsing(<<r, n>>) = {}
              => Elided(<<r, n>>)
<1>1. ASSUME NEW q \in Instances
      PROVE  q # <<>> /\ \/ \E r \in Roots : q = <<r>>
                         \/ \E r \in Roots, n \in Names : q = <<r, n>>
  BY AtRest, PrimCases
<1>2. ASSUME NEW q \in Instances
      PROVE  ~IsStrictPrefix(q, <<>>) /\ \A r \in Roots : ~IsStrictPrefix(q, <<r>>)
  <2>1. ASSUME NEW p \in Roots, q = <<p>>
        PROVE  ~IsStrictPrefix(q, <<>>) /\ \A r \in Roots : ~IsStrictPrefix(q, <<r>>)
    BY <2>1, PathFacts DEF IsStrictPrefix
  <2>2. ASSUME NEW p \in Roots, NEW m \in Names, q = <<p, m>>
        PROVE  ~IsStrictPrefix(q, <<>>) /\ \A r \in Roots : ~IsStrictPrefix(q, <<r>>)
    BY <2>2, Above DEF IsStrictPrefix
  <2> QED BY <1>1, <2>1, <2>2
<1>3. ASSUME NEW q \in Instances, NEW r \in Roots, NEW n \in Names,
             IsStrictPrefix(q, <<r, n>>)
      PROVE  q = <<r>>
  <2>1. ASSUME NEW p \in Roots, q = <<p>> PROVE q = <<r>>
    BY <1>3, <2>1, PathFacts DEF IsStrictPrefix
  <2>2. ASSUME NEW p \in Roots, NEW m \in Names, q = <<p, m>> PROVE q = <<r>>
    <3>1. IsPrefix(q, <<r, n>>) /\ q # <<r, n>>
      BY <1>3 DEF IsStrictPrefix
    <3> QED BY <2>2, <3>1, AboveChild
  <2> QED BY <1>1, <2>1, <2>2
<1>4. \A r \in Roots, n \in Names : IsStrictPrefix(<<r>>, <<r, n>>)
  BY PathFacts DEF IsStrictPrefix
<1> QED BY <1>2, <1>3, <1>4 DEF Elided, IsDescendantToAnInstance

(* What is above a path, and the topmost of some paths.                    *)
LEMMA PathsAtOrAbove ==
  ASSUME NEW t \in Prims
  PROVE  /\ IsPrefix(t, <<>>) => t = <<>>
         /\ \A r \in Roots : IsPrefix(t, <<r>>) => t = <<>> \/ t = <<r>>
         /\ \A r \in Roots, n \in Names :
              IsPrefix(t, <<r, n>>) => t = <<>> \/ t = <<r>> \/ t = <<r, n>>
<1>1. ASSUME NEW q \in Roots, t = <<q>>
      PROVE  /\ ~IsPrefix(t, <<>>) /\ \A r \in Roots : IsPrefix(t, <<r>>) => t = <<r>>
             /\ \A r \in Roots, n \in Names : IsPrefix(t, <<r, n>>) => t = <<r>>
  BY <1>1, PathFacts
<1>2. ASSUME NEW q \in Roots, NEW m \in Names, t = <<q, m>>
      PROVE  /\ ~IsPrefix(t, <<>>) /\ \A r \in Roots : ~IsPrefix(t, <<r>>)
             /\ \A r \in Roots, n \in Names : IsPrefix(t, <<r, n>>) => t = <<r, n>>
  <2>1. ~IsPrefix(t, <<>>) /\ \A r \in Roots : ~IsPrefix(t, <<r>>)
    BY <1>2, Above
  <2>2. \A r \in Roots, n \in Names : IsPrefix(t, <<r, n>>) => t = <<r, n>>
    BY <1>2, AboveChild
  <2> QED BY <2>1, <2>2
<1> QED BY <1>1, <1>2, PrimCases

LEMMA TopFacts ==
  ASSUME NEW S \in SUBSET Prims
  PROVE  /\ Tops(S) \subseteq S
         /\ \A p, q \in Tops(S) : IsPrefix(p, q) => p = q
         /\ \A p \in S : \E t \in Tops(S) : IsPrefix(t, p)
<1>1. Tops(S) \subseteq S /\ \A p, q \in Tops(S) : IsPrefix(p, q) => p = q
  BY DEF Tops, IsStrictPrefix
<1>2. <<>> \in S => <<>> \in Tops(S)
  BY PathsAtOrAbove DEF Tops, IsStrictPrefix
<1>3. \A r \in Roots : <<r>> \in S /\ <<>> \notin S => <<r>> \in Tops(S)
  BY PathsAtOrAbove DEF Tops, IsStrictPrefix
<1>4. \A r \in Roots, n \in Names :
        <<r, n>> \in S /\ <<r>> \notin S /\ <<>> \notin S => <<r, n>> \in Tops(S)
  BY PathsAtOrAbove DEF Tops, IsStrictPrefix
<1>5. ASSUME NEW p \in S
      PROVE  \E t \in Tops(S) : IsPrefix(t, p)
  <2>1. CASE p = <<>>
    BY <1>2, <2>1, Above
  <2>2. ASSUME NEW r \in Roots, p = <<r>>
        PROVE  \E t \in Tops(S) : IsPrefix(t, p)
    <3>1. IsPrefix(<<>>, p) /\ IsPrefix(p, p)
      BY <2>2, PathFacts
    <3> QED BY <1>2, <1>3, <2>2, <3>1
  <2>3. ASSUME NEW r \in Roots, NEW n \in Names, p = <<r, n>>
        PROVE  \E t \in Tops(S) : IsPrefix(t, p)
    <3>1. IsPrefix(<<>>, p) /\ IsPrefix(<<r>>, p) /\ IsPrefix(p, p)
      BY <2>3, PathFacts
    <3> QED BY <1>2, <1>3, <1>4, <2>3, <3>1
  <2> QED BY <2>1, <2>2, <2>3, PrimCases
<1> QED BY <1>1, <1>5

(* A change of the scene at some paths, none of them below another.        *)
LEMMA StartKeeps ==
  ASSUME IInv, phase = "idle", NEW roots \in SUBSET Prims, StartRecompose(roots),
         scene' \in Scenes, indexes' \subseteq Prims,
         primMap' \in [StagePaths -> Prim \cup {None}],
         \A p, q \in roots : IsPrefix(p, q) => p = q,
         \A p \in Prims : Status(p)' # Status(p) => \E t \in roots : IsPrefix(t, p)
  PROVE  IInv'
<1>1. /\ Before /\ Added = {} /\ Coming = Instances /\ todo = {}
      /\ \A k \in Keys : pendingAdded[k].paths = {} /\ pendingRemoved[k] = {}
      /\ \A p \in Instances :
           /\ p \in Prims /\ p # <<>> /\ Status(p) = KeyOf(p) /\ Status(p) \in Keys
           /\ cache.prototype[p] \in Prototypes
           /\ cache.proto[Status(p)] = cache.prototype[p]
           /\ Opens(p) <=> cache.source[cache.prototype[p]] = p
  BY AtRest
<1>2. /\ paths' = roots /\ todo' = {p \in roots : ~Elided(p)} /\ phase' = "composing"
      /\ changes' = NoChanges /\ cache' = cache /\ pendingAdded' = pendingAdded
      /\ pendingRemoved' = [k \in Keys |-> pendingRemoved[k] \cup
                              {p \in Instances : KeyOf(p) = k /\ Under(todo', p)}]
  BY DEF StartRecompose, UnregisterUnder, KeyOf
<1>3. /\ Instances' = Instances /\ \A p : KeyOf(p)' = KeyOf(p)
      /\ \A k \in Keys : /\ pendingAdded'[k].paths = {}
                         /\ pendingRemoved'[k] =
                              {p \in Instances : KeyOf(p) = k /\ Under(todo', p)}
  BY <1>1, <1>2 DEF Instances, KeyOf
<1>4. /\ Added' = {} /\ Kept' = {p \in Instances : ~Under(todo', p)} /\ Coming' = Kept'
  <2>1. Added' = {}
    BY <1>3 DEF Added
  <2>2. Kept' = {p \in Instances : ~Under(todo', p)}
    BY <1>1, <1>3 DEF Kept
  <2> QED BY <2>1, <2>2 DEF Coming
<1>5. \A q \in Prims : Status(q)' \in Keys =>
        (Opens(q)' <=> /\ cache.proto[Status(q)'] # None
                       /\ cache.source[cache.proto[Status(q)']] = q
                       /\ q \notin pendingRemoved'[Status(q)'])
  BY <1>2, <1>3 DEF Opens
<1>6. \A q \in Prims : Status(q) \in Keys =>
        (Opens(q) <=> /\ cache.proto[Status(q)] # None
                      /\ cache.source[cache.proto[Status(q)]] = q)
  BY <1>1 DEF Opens
<1>7. todo' \subseteq roots /\ todo' \subseteq Prims
      /\ \A p \in roots : p \in todo' <=> ~Elided(p)
  BY <1>2
<1>8. /\ \A r \in Roots : <<r>> \in Prims /\ \A n \in Names : <<r, n>> \in Prims
      /\ <<>> \in Prims
  BY DEF Prims
<1>9. /\ <<>> \in roots => roots = {<<>>} /\ <<>> \in todo'
      /\ \A r \in Roots : <<r>> \in roots => <<r>> \in todo'
      /\ \A r \in Roots, n \in Names :
           <<r, n>> \in roots => <<>> \notin roots /\ <<r>> \notin roots
  <2>1. \A p \in Prims : IsPrefix(<<>>, p)
    <3>1. IsPrefix(<<>>, <<>>)
      BY Above
    <3>2. ASSUME NEW p \in Prims, p # <<>> PROVE IsPrefix(<<>>, p)
      <4>1. ASSUME NEW r \in Roots, p = <<r>> PROVE IsPrefix(<<>>, p)
        BY <4>1, PathFacts
      <4>2. ASSUME NEW r \in Roots, NEW n \in Names, p = <<r, n>> PROVE IsPrefix(<<>>, p)
        BY <4>2, PathFacts
      <4> QED BY <3>2, <4>1, <4>2, PrimCases
    <3> QED BY <3>1, <3>2
  <2>2. \A r \in Roots, n \in Names : /\ IsPrefix(<<r>>, <<r, n>>) /\ <<r>> # <<r, n>>
                                      /\ <<>> # <<r, n>>
    BY PathFacts
  <2>3. ~Elided(<<>>) /\ \A r \in Roots : ~Elided(<<r>>)
    BY RootsAreNotElided
  <2> QED BY <1>7, <1>8, <2>1, <2>2, <2>3
<1>10. ASSUME NEW r \in Roots, Status(<<r>>)' # Status(<<r>>)
       PROVE  \E t \in todo' : t = <<>> \/ t = <<r>>
  <2>1. PICK t \in roots : IsPrefix(t, <<r>>)
    BY <1>8, <1>10
  <2>2. t = <<>> \/ t = <<r>>
    BY <2>1, PathsAtOrAbove
  <2> QED BY <1>9, <2>1, <2>2
<1>11. ASSUME NEW r \in Roots, NEW n \in Names, NEW t \in todo', t = <<>> \/ t = <<r>>
       PROVE  Under(todo', <<r>>) /\ Under(todo', <<r, n>>)
  <2>1. IsPrefix(t, <<r>>) /\ IsPrefix(t, <<r, n>>)
    BY <1>11, PathFacts
  <2> QED BY <2>1 DEF Under
<1>12. ASSUME NEW r \in Roots, Under(todo', <<r>>)
       PROVE  <<>> \in todo' \/ <<r>> \in todo'
  BY <1>7, <1>12, PathsAtOrAbove DEF Under
<1>13. ASSUME NEW r \in Roots, NEW n \in Names, Under(todo', <<r, n>>)
       PROVE  <<>> \in todo' \/ <<r>> \in todo' \/ <<r, n>> \in todo'
  BY <1>7, <1>13, PathsAtOrAbove DEF Under
<1>14. TypeOK'
  <2>1. pendingRemoved' \in [Keys -> SUBSET Prims]
    BY <1>1, <1>2
  <2>2. changes' \in [new : [Prototypes -> Prims \cup {None}],
                      changed : [Prototypes -> Prims \cup {None}],
                      dead : SUBSET Prototypes]
    BY <1>2 DEF NoChanges
  <2>3. CacheTypeOK'
    BY <1>2, <2>1, <2>2 DEF IInv, TypeOK, CacheTypeOK
  <2> QED BY <1>2, <1>7, <2>3 DEF TypeOK, StagePaths, Prim
<1>15. CacheConsistent'
  BY <1>2 DEF IInv, CacheConsistent
<1>16. PendingIsCurrent'
  BY <1>2, <1>3 DEF PendingIsCurrent
<1>17. ChangedIsUnregistered'
  <2>1. SUFFICES ASSUME NEW p \in Instances, ~Under(todo', p), Status(p)' # Status(p)
                 PROVE  FALSE
    BY <1>1, <1>3, <1>4 DEF ChangedIsUnregistered
  <2>2. PICK t \in roots : IsPrefix(t, p)
    BY <1>1, <2>1
  <2>3. Elided(t)
    BY <1>7, <2>1, <2>2 DEF Under
  <2>4. PICK r \in Roots, n \in Names : t = <<r, n>>
    BY <2>3, PrimCases, RootsAreNotElided
  <2>5. p = t
    <3>1. CASE \E q \in Roots : p = <<q>>
      BY <2>2, <2>4, <3>1, PathsAtOrAbove, PathFacts
    <3>2. ASSUME NEW q \in Roots, NEW m \in Names, p = <<q, m>> PROVE p = t
      BY <2>2, <2>4, <3>2, AboveChild
    <3> QED BY <1>1, <2>1, <3>1, <3>2, PrimCases
  <2>6. <<r>> \in Instances /\ PrimsInPrototypesUsing(<<r, n>>) = {}
    BY <2>3, <2>4, RootsAreNotElided
  <2>7. Opens(<<r>>)
    BY <1>1, <2>1, <2>4, <2>5, <2>6 DEF IInv, NestedIsOpen
  <2> QED BY <2>6, <2>7, UsesAreKnown
<1>18. NestedIsOpen'
  <2>1. SUFFICES ASSUME NEW r \in Roots, NEW n \in Names,
                        <<r, n>> \in Kept' \cup todo', Status(<<r>>)' \in Keys
                 PROVE  Opens(<<r>>)'
    BY <1>4 DEF NestedIsOpen
  <2>2. <<>> \notin todo' /\ <<r>> \notin todo'
    BY <1>4, <1>7, <1>9, <1>11, <2>1
  <2>3. Status(<<r>>)' = Status(<<r>>) /\ ~Under(todo', <<r>>)
    BY <1>10, <1>12, <2>2
  <2>4. <<r>> \notin pendingRemoved'[Status(<<r>>)]
    BY <1>3, <2>1, <2>3
  <2>5. Opens(<<r>>)
    <3>1. CASE <<r, n>> \in Instances
      BY <1>1, <2>1, <2>3, <3>1 DEF IInv, NestedIsOpen
    <3>2. CASE <<r, n>> \notin Instances
      <4>1. <<r, n>> \in todo' /\ ~Elided(<<r, n>>)
        BY <1>2, <1>4, <2>1, <3>2
      <4>2. <<r>> \in Instances
        BY <1>1, <2>1, <2>3 DEF IInv, InstancesAreFound
      <4>3. PrimsInPrototypesUsing(<<r, n>>) # {}
        BY <4>1, <4>2, RootsAreNotElided
      <4> QED BY <3>2, <4>2, <4>3, UsesAreKnown
    <3> QED BY <3>1, <3>2
  <2> QED BY <1>5, <1>6, <1>8, <2>1, <2>3, <2>4, <2>5
<1>19. InstancesAreFound'
  <2>1. SUFFICES ASSUME NEW r \in Roots, <<>> \notin todo', <<r>> \notin todo'
                 PROVE  /\ Status(<<r>>)' \in Keys => <<r>> \in Kept'
                        /\ \A n \in Names : Status(<<r, n>>)' \in Keys =>
                             \/ <<r, n>> \in Kept' \cup todo'
                             \/ Status(<<r>>)' \in Keys /\ ~Opens(<<r>>)'
    BY <1>4 DEF InstancesAreFound
  <2>2. <<>> \notin roots /\ <<r>> \notin roots
    BY <1>9, <2>1
  <2>3. Status(<<r>>)' = Status(<<r>>) /\ ~Under(todo', <<r>>)
    BY <1>10, <1>12, <2>1
  <2>4. Status(<<r>>) \in Keys => <<r>> \in Instances
    BY <1>1 DEF IInv, InstancesAreFound
  <2>5. Status(<<r>>) \in Keys /\ Opens(<<r>>)' => Opens(<<r>>)
    BY <1>5, <1>6, <1>8, <2>3
  <2>6. ASSUME NEW n \in Names, Status(<<r, n>>)' \in Keys,
               <<r, n>> \notin Kept', <<r, n>> \notin todo'
        PROVE  Status(<<r>>)' \in Keys /\ ~Opens(<<r>>)'
    <3>1. CASE <<r, n>> \in roots
      <4>1. Elided(<<r, n>>)
        BY <1>7, <2>6, <3>1
      <4>2. <<r>> \in Instances /\ PrimsInPrototypesUsing(<<r, n>>) = {}
        BY <4>1, RootsAreNotElided
      <4> QED BY <1>1, <2>3, <2>5, <4>2, UsesAreKnown
    <3>2. CASE <<r, n>> \notin roots
      <4>1. Status(<<r, n>>)' = Status(<<r, n>>)
        BY <1>8, <2>2, <3>2, PathsAtOrAbove
      <4>2. ~Under(todo', <<r, n>>)
        BY <1>13, <2>1, <2>6
      <4>3. <<r, n>> \notin Instances
        BY <1>4, <2>6, <4>2
      <4>4. Status(<<r>>) \in Keys /\ ~Opens(<<r>>)
        BY <1>1, <2>6, <4>1, <4>3 DEF IInv, InstancesAreFound
      <4> QED BY <2>3, <2>5, <4>4
    <3> QED BY <3>1, <3>2
  <2> QED BY <1>4, <2>3, <2>4, <2>6
<1>20. TodoIsNew'
  BY <1>4, <1>7, <1>9 DEF TodoIsNew
<1> QED BY <1>14, <1>15, <1>16, <1>17, <1>18, <1>19, <1>20 DEF IInv

LEMMA DropFacts ==
  ASSUME TypeOK, NEW dropped \in SUBSET Prims, DropIndexes(dropped), todo' \subseteq Prims
  PROVE  indexes' \subseteq Prims /\ primMap' \in [StagePaths -> Prim \cup {None}]
<1>1. indexes' \subseteq Prims
  BY PathsAbove DEF DropIndexes, TypeOK
<1>2. \A s \in StagePaths : primMap[s] # None =>
        [primMap[s] EXCEPT !.live = FALSE] \in Prim
  BY DEF TypeOK, Prim
<1>3. primMap' \in [StagePaths -> Prim \cup {None}]
  BY <1>2 DEF DropIndexes, TypeOK
<1> QED BY <1>1, <1>3

LEMMA EditKeeps ==
  ASSUME IInv, Edit
  PROVE  IInv'
<1>1. phase = "idle" /\ TypeOK
  BY DEF Edit, IInv
<1>2. ASSUME NEW s \in Batches, NEW touched \in {{}} \cup {{p} : p \in Prims},
             ChangeSignificantly(s, touched)
      PROVE  IInv'
  <2> DEFINE changed == {p \in Prims : StatusIn(s, p) # Status(p)} \cup touched
  <2>1. changed \in SUBSET Prims
    OBVIOUS
  <2>2. /\ scene' = s /\ StartRecompose(Tops(changed))
        /\ DropIndexes({p \in Prims : Under(changed, p)})
    BY <1>2 DEF ChangeSignificantly
  <2>3. \A p \in Prims : StatusIn(s, p) # Status(p) => p \in changed
    OBVIOUS
  <2>. HIDE DEF changed
  <2>4. Tops(changed) \in SUBSET Prims
    BY <2>1, TopFacts
  <2>5. todo' \subseteq Prims
    BY <2>2, <2>4 DEF StartRecompose
  <2>6. indexes' \subseteq Prims /\ primMap' \in [StagePaths -> Prim \cup {None}]
    BY <1>1, <2>2, <2>5, DropFacts
  <2>7. \A p \in Prims : Status(p)' # Status(p) => \E t \in Tops(changed) : IsPrefix(t, p)
    BY <2>1, <2>2, <2>3, TopFacts DEF Status
  <2>8. scene' \in Scenes
    BY <2>2 DEF Batches
  <2>9. \A p, q \in Tops(changed) : IsPrefix(p, q) => p = q
    BY <2>1, TopFacts
  <2> QED BY <1>1, <2>2, <2>4, <2>6, <2>7, <2>8, <2>9, StartKeeps
<1>3. ASSUME NEW p \in Prims \ {<<>>}, ChangePrim(p)
      PROVE  IInv'
  <2>1. scene' = scene /\ StartRecompose({p}) /\ DropIndexes({p}) /\ {p} \in SUBSET Prims
    BY <1>3 DEF ChangePrim
  <2>2. todo' \subseteq Prims
    BY <2>1 DEF StartRecompose
  <2>3. indexes' \subseteq Prims /\ primMap' \in [StagePaths -> Prim \cup {None}]
    BY <1>1, <2>1, <2>2, DropFacts
  <2>4. \A q : Status(q)' = Status(q)
    BY <2>1 DEF Status
  <2>5. scene' \in Scenes
    BY <1>1, <2>1 DEF TypeOK
  <2>6. \A q, t \in {p} : IsPrefix(q, t) => q = t
    OBVIOUS
  <2> QED BY <1>1, <2>1, <2>3, <2>4, <2>5, <2>6, StartKeeps
<1> QED BY <1>2, <1>3 DEF Edit

-----------------------------------------------------------------------------
(***************************************************************************)
(* Prims are rebuilt, and the stage opens.                                 *)
(***************************************************************************)
LEMMA PrimMaps ==
  ASSUME TypeOK
  PROVE  /\ \A S : RefreshParents(S) \in [StagePaths -> Prim \cup {None}]
         /\ \A tops : \A map \in [StagePaths -> Prim \cup {None}] :
              ComposeSubtrees(map, tops) \in [StagePaths -> Prim \cup {None}]
         /\ \A dead : \A map \in [StagePaths -> Prim \cup {None}] :
              Destroy(map, dead) \in [StagePaths -> Prim \cup {None}]
<1>1. Instantiated \in Prim
  BY DEF Instantiated, Prim
<1>2. \A s, i : PrimAt(s, i) \in Prim
  BY <1>1 DEF PrimAt, Prim, TypeOK
<1>3. primMap \in [StagePaths -> Prim \cup {None}]
  BY DEF TypeOK
<1>4. ASSUME NEW S
      PROVE  RefreshParents(S) \in [StagePaths -> Prim \cup {None}]
  BY <1>1, <1>3 DEF RefreshParents
<1>5. ASSUME NEW map \in [StagePaths -> Prim \cup {None}], NEW tops
      PROVE  ComposeSubtrees(map, tops) \in [StagePaths -> Prim \cup {None}]
  BY <1>2, <1>5 DEF ComposeSubtrees
<1>6. ASSUME NEW map \in [StagePaths -> Prim \cup {None}], NEW dead
      PROVE  Destroy(map, dead) \in [StagePaths -> Prim \cup {None}]
  BY <1>6 DEF Destroy
<1> QED BY <1>4, <1>5, <1>6

LEMMA RecomposePrimsKeeps ==
  ASSUME IInv, RecomposePrims
  PROVE  IInv'
<1>1. /\ phase = "recomposing" /\ phase' = "idle" /\ paths' = {} /\ changes' = NoChanges
      /\ UNCHANGED <<scene, indexes, todo, cache, pendingAdded, pendingRemoved>>
  BY DEF RecomposePrims, Finish
<1>2. PICK all, refreshed, tops :
        /\ refreshed = RefreshParents(all)
        /\ primMap' = Destroy(ComposeSubtrees(refreshed, tops), changes.dead)
  BY DEF RecomposePrims
<1>3. primMap' \in [StagePaths -> Prim \cup {None}]
  BY <1>2, PrimMaps DEF IInv
<1>4. changes' \in [new : [Prototypes -> Prims \cup {None}],
                    changed : [Prototypes -> Prims \cup {None}],
                    dead : SUBSET Prototypes]
  BY <1>1 DEF NoChanges
<1>5. TypeOK'
  BY <1>1, <1>3, <1>4 DEF IInv, TypeOK, CacheTypeOK, StagePaths, Prim
<1>6. /\ \A p : Status(p)' = Status(p) /\ KeyOf(p)' = KeyOf(p) /\ Opens(p)' = Opens(p)
      /\ Instances' = Instances /\ Kept' = Kept /\ Added' = Added /\ Coming' = Coming
  BY <1>1 DEF Status, KeyOf, Opens, Instances, Kept, Added, Coming
<1>7. CacheConsistent'
  BY <1>1 DEF IInv, CacheConsistent
<1>8. PendingIsCurrent'
  BY <1>1, <1>6 DEF IInv, PendingIsCurrent
<1>9. ChangedIsUnregistered' /\ NestedIsOpen' /\ InstancesAreFound' /\ TodoIsNew'
  BY <1>1, <1>6 DEF IInv, ChangedIsUnregistered, NestedIsOpen, InstancesAreFound, TodoIsNew
<1> QED BY <1>5, <1>7, <1>8, <1>9 DEF IInv

LEMMA InitIInv == Init => IInv
<1> SUFFICES ASSUME Init PROVE IInv
  OBVIOUS
<1>1. /\ scene \in Scenes /\ indexes = {} /\ paths = {<<>>} /\ todo = {<<>>}
      /\ phase = "composing" /\ primMap = [s \in StagePaths |-> None]
      /\ CacheInit
  BY DEF Init
<1>2. CacheTypeOK
  BY <1>1 DEF CacheInit, CacheTypeOK, NothingAdded, NothingRemoved, NoChanges
<1>3. TypeOK
  BY <1>1, <1>2 DEF TypeOK, Prims
<1>4. /\ Instances = {} /\ Added = {} /\ Kept = {} /\ Coming = {}
      /\ \A k \in Keys : pendingAdded[k].paths = {} /\ pendingRemoved[k] = {}
  BY <1>1 DEF CacheInit, NothingAdded, NothingRemoved, Instances, Added, Kept, Coming
<1>5. CacheConsistent
  BY <1>1, RecomposeAssumption DEF CacheInit, CacheConsistent
<1>6. PendingIsCurrent /\ ChangedIsUnregistered
  BY <1>1, <1>4 DEF PendingIsCurrent, ChangedIsUnregistered
<1>7. NestedIsOpen /\ InstancesAreFound /\ TodoIsNew
  BY <1>1, <1>4, PathFacts DEF NestedIsOpen, InstancesAreFound, TodoIsNew
<1> QED BY <1>3, <1>5, <1>6, <1>7 DEF IInv

-----------------------------------------------------------------------------
(***************************************************************************)
(* UsdStageRecompose.TypeOK with all that the other proofs rest on: IInv   *)
(* holds of the stage and its cache from opening on, through any number of *)
(* changes.                                                                *)
(***************************************************************************)
THEOREM RecomposeInvariant == Spec => []IInv
<1>1. IInv /\ [Next]_vars => IInv'
  <2> SUFFICES ASSUME IInv, [Next]_vars PROVE IInv'
    OBVIOUS
  <2>1. CASE Edit
    BY <2>1, EditKeeps
  <2>2. ASSUME NEW p \in Prims, ComputeIndex(p) PROVE IInv'
    BY <2>2, ComputeIndexKeeps
  <2>3. CASE InstancesRegistered
    BY <2>3, InstancesRegisteredKeeps
  <2>4. CASE RecomposePrims
    BY <2>4, RecomposePrimsKeeps
  <2>5. CASE UNCHANGED vars
    <3>1. /\ scene' = scene /\ indexes' = indexes /\ paths' = paths /\ todo' = todo
          /\ phase' = phase /\ primMap' = primMap /\ cache' = cache
          /\ pendingAdded' = pendingAdded /\ pendingRemoved' = pendingRemoved
          /\ changes' = changes
      BY <2>5 DEF vars, cacheVars
    <3>2. /\ \A p : Status(p)' = Status(p) /\ KeyOf(p)' = KeyOf(p) /\ Opens(p)' = Opens(p)
          /\ Instances' = Instances /\ Kept' = Kept /\ Added' = Added /\ Coming' = Coming
      BY <3>1 DEF Status, KeyOf, Opens, Instances, Kept, Added, Coming
    <3>3. TypeOK' /\ CacheConsistent'
      BY <3>1 DEF IInv, TypeOK, CacheTypeOK, StagePaths, Prim, CacheConsistent
    <3>4. PendingIsCurrent' /\ ChangedIsUnregistered' /\ NestedIsOpen'
      BY <3>1, <3>2 DEF IInv, PendingIsCurrent, ChangedIsUnregistered, NestedIsOpen
    <3>5. InstancesAreFound' /\ TodoIsNew'
      BY <3>1, <3>2 DEF IInv, InstancesAreFound, TodoIsNew
    <3> QED BY <3>3, <3>4, <3>5 DEF IInv
  <2> QED BY <2>1, <2>2, <2>3, <2>4, <2>5 DEF Next, Compose
<1> QED BY <1>1, InitIInv, PTL DEF Spec

(***************************************************************************)
(* CacheConsistent, with the types of the cache and of the stage: the maps *)
(* of the cache are inverses of each other, every prototype has instances  *)
(* and one of them is its source.                                          *)
(***************************************************************************)
THEOREM CacheIsConsistent == Spec => [](TypeOK /\ CacheConsistent)
<1>1. IInv => TypeOK /\ CacheConsistent
  BY DEF IInv
<1> QED BY <1>1, RecomposeInvariant, PTL

(***************************************************************************)
(* InstancesAreExact: when the stage is at rest, the cache knows exactly   *)
(* the instances that can be seen, each with the prototype of its key.     *)
(***************************************************************************)
THEOREM CacheIsExact == Spec => []InstancesAreExact
<1>1. ASSUME IInv, phase = "idle"
      PROVE  /\ Instances = {p \in Prims : Status(p) \in Keys /\ Reachable(p)}
             /\ \A p \in Instances : KeyOf(p) = Status(p)
  <2>1. /\ Before /\ Coming = Instances /\ todo = {}
        /\ \A k \in Keys : pendingAdded[k].paths = {} /\ pendingRemoved[k] = {}
        /\ \A p \in Instances :
             /\ p \in Prims /\ p # <<>> /\ Status(p) = KeyOf(p) /\ Status(p) \in Keys
             /\ cache.prototype[p] \in Prototypes
             /\ Opens(p) <=> cache.source[cache.prototype[p]] = p
    BY <1>1, AtRest
  <2>2. \A r \in Roots : /\ Status(<<r>>) \in Keys => <<r>> \in Instances
                         /\ \A n \in Names : <<r, n>> \in Instances /\ Status(<<r>>) \in Keys
                              => Opens(<<r>>)
                         /\ \A n \in Names : Status(<<r, n>>) \in Keys =>
                              \/ <<r, n>> \in Instances
                              \/ Status(<<r>>) \in Keys /\ ~Opens(<<r>>)
    BY <1>1, <2>1 DEF IInv, NestedIsOpen, InstancesAreFound
  <2>3. \A q \in Prims : q \in Instances <=> cache.prototype[q] # None
    BY DEF Instances
  <2>4. \A r \in Roots : Prefixes(<<r>>) = {<<>>, <<r>>} /\ <<r>> \in Prims
    <3>1. ASSUME NEW r \in Roots PROVE Prefixes(<<r>>) = {<<>>, <<r>>}
      <4>1. Prefixes(<<r, r>>) = {<<>>, <<r>>, <<r, r>>}
        BY PrefixSets
      <4> QED BY <4>1, PrefixSets
    <3> QED BY <3>1 DEF Prims
  <2>5. ASSUME NEW r \in Roots, NEW n \in Names
        PROVE  Reachable(<<r, n>>) <=> (Status(<<r>>) \in Keys => Opens(<<r>>))
    <3>1. Prefixes(<<r, n>>) \ {<<r, n>>} = {<<>>, <<r>>}
      <4>1. Prefixes(<<r, n>>) = {<<>>, <<r>>, <<r, n>>}
        BY PrefixSets
      <4>2. <<r, n>> # <<>> /\ <<r, n>> # <<r>>
        BY PathFacts
      <4> QED BY <4>1, <4>2
    <3>2. <<r>> \in Prims /\ <<r>> \in {<<>>, <<r>>}
      BY DEF Prims
    <3>3. Reachable(<<r, n>>) <=>
            (Status(<<r>>) \in Keys => /\ cache.prototype[<<r>>] # None
                                       /\ cache.source[cache.prototype[<<r>>]] = <<r>>)
      BY <3>1, RootIsPlain DEF Reachable
    <3> QED BY <2>1, <2>2, <2>3, <3>2, <3>3
  <2>6. \A r \in Roots : Reachable(<<r>>)
    <3>1. ASSUME NEW r \in Roots, NEW q \in Prefixes(<<r>>) \ {<<r>>} PROVE q = <<>>
      BY <2>4
    <3> QED BY <3>1, RootIsPlain DEF Reachable
  <2>7. ASSUME NEW p \in Prims
        PROVE  p \in Instances <=> Status(p) \in Keys /\ Reachable(p)
    <3>1. CASE p = <<>>
      BY <2>1, <3>1, RootIsPlain
    <3>2. ASSUME NEW r \in Roots, p = <<r>>
          PROVE  p \in Instances <=> Status(p) \in Keys /\ Reachable(p)
      BY <2>1, <2>2, <2>6, <3>2
    <3>3. ASSUME NEW r \in Roots, NEW n \in Names, p = <<r, n>>
          PROVE  p \in Instances <=> Status(p) \in Keys /\ Reachable(p)
      BY <2>1, <2>2, <2>5, <3>3
    <3> QED BY <3>1, <3>2, <3>3, PrimCases
  <2> QED BY <2>1, <2>7 DEF Instances
<1>2. IInv => InstancesAreExact
  BY <1>1 DEF InstancesAreExact, KeyOf
<1> QED BY <1>2, RecomposeInvariant, PTL
-----------------------------------------------------------------------------
(***************************************************************************)
(* Towards RecomposedFully: which prims of the stage are yet to be rebuilt. *)
(***************************************************************************)
IsInPrototype(t) == t # <<>> /\ t[1] \in Prototypes

(* The index that the prim at t uses when the stage is at rest.            *)
UsedIndex(t) == IF IsInPrototype(t) THEN cache.source[t[1]] \o Tail(t) ELSE t

Touched(t) ==
  IF IsInPrototype(t)
    THEN \/ t[1] \in NewOrChanged
         \/ cache.key[t[1]] # None /\ Under(paths, UsedIndex(t))
    ELSE Under(paths, t)

IsDead(t) == t # <<>> /\ t[1] \in changes.dead

(* What no change touches is as if the stage were composed anew.           *)
StageIsKept ==
  \A t \in StagePaths : ~Touched(t) /\ ~IsDead(t) => primMap[t] = FullyComposed[t]

StageIsATree ==
  \A o \in Roots \cup Prototypes, n \in Names :
    <<o, n>> \in StagePaths /\ primMap[<<o, n>>] # None => primMap[<<o>>] # None

(* The changes so far are those of one change of the scene, and the first  *)
(* round alone removes instances.                                          *)
ChangesAreCurrent ==
  /\ \A P \in Prototypes :
       /\ changes.new[P] \in {None, cache.source[P]}
       /\ changes.changed[P] \in {None, cache.source[P]}
       /\ P \in changes.dead => cache.key[P] = None
  /\ changes = NoChanges \/ \A k \in Keys : pendingRemoved[k] = {}
  /\ phase = "idle" => paths = {} /\ changes = NoChanges
  /\ <<>> \in paths => paths = {<<>>}

(* What is there, and can be seen, has an index or is yet to be visited.   *)
IndexesAreFound ==
  /\ <<>> \in indexes \cup todo
  /\ <<>> \notin todo => \A r \in Roots : <<r>> \notin todo =>
       /\ Status(<<r>>) # Absent => <<r>> \in indexes
       /\ \A n \in Names : Status(<<r, n>>) # Absent =>
            \/ <<r, n>> \in indexes \cup todo
            \/ Status(<<r>>) \in Keys /\ ~Opens(<<r>>)

RInv == StageIsKept /\ StageIsATree /\ ChangesAreCurrent /\ IndexesAreFound

-----------------------------------------------------------------------------
(***************************************************************************)
(* Paths put together.                                                     *)
(***************************************************************************)
LEMMA Joined ==
  ASSUME NEW r, NEW n
  PROVE  /\ Tail(<<r>>) = <<>> /\ Tail(<<r, n>>) = <<n>>
         /\ Front(<<r>>) = <<>> /\ Front(<<r, n>>) = <<r>>
         /\ Last(<<r>>) = r /\ Last(<<r, n>>) = n
         /\ <<r>> \o <<>> = <<r>> /\ <<r, n>> \o <<>> = <<r, n>> /\ <<r>> \o <<n>> = <<r, n>>
         /\ <<>> \o <<>> = <<>>
         /\ Append(<<>>, r) = <<r>> /\ Append(<<r>>, n) = <<r, n>>
<1>1. Tail(<<r>>) = <<>> /\ Tail(<<r, n>>) = <<n>>
  OBVIOUS
<1>2. Front(<<r>>) = <<>> /\ Front(<<r, n>>) = <<r>>
  <2>1. Len(<<r>>) - 1 = 0 /\ Len(<<r, n>>) - 1 = 1
    OBVIOUS
  <2>2. Front(<<r>>) = SubSeq(<<r>>, 1, 0) /\ Front(<<r, n>>) = SubSeq(<<r, n>>, 1, 1)
    BY <2>1 DEF Front
  <2> QED BY <2>2, Parts
<1>3. Last(<<r>>) = r /\ Last(<<r, n>>) = n
  BY DEF Last
<1> DEFINE S == {r, n}
<1>4. /\ <<>> \in Seq(S) /\ <<r>> \in Seq(S) /\ <<n>> \in Seq(S) /\ <<r, n>> \in Seq(S)
      /\ r \in S /\ n \in S /\ Len(<<>>) = 0 /\ Len(<<r>>) = 1 /\ Len(<<r, n>>) = 2
      /\ <<r>>[1] = r /\ <<r, n>>[1] = r /\ <<r, n>>[2] = n
  OBVIOUS
<1>5. Append(<<>>, r) = <<r>> /\ Append(<<r>>, n) = <<r, n>>
  <2>1. /\ Append(<<>>, r) \in Seq(S) /\ Len(Append(<<>>, r)) = 1
        /\ Append(<<>>, r)[1] = r
    BY <1>4, AppendProperties
  <2>2. /\ Append(<<r>>, n) \in Seq(S) /\ Len(Append(<<r>>, n)) = 2
        /\ Append(<<r>>, n)[1] = r /\ Append(<<r>>, n)[2] = n
    BY <1>4, AppendProperties
  <2>3. Append(<<>>, r) = <<r>>
    <3>1. \A i \in 1..1 : Append(<<>>, r)[i] = <<r>>[i]
      BY <1>4, <2>1
    <3> QED BY <1>4, <2>1, <3>1, SeqEqual
  <2>4. Append(<<r>>, n) = <<r, n>>
    <3>1. \A i \in 1..2 : Append(<<r>>, n)[i] = <<r, n>>[i]
      BY <1>4, <2>2
    <3> QED BY <1>4, <2>2, <3>1, SeqEqual
  <2> QED BY <2>3, <2>4
<1>6. <<r>> \o <<>> = <<r>> /\ <<r, n>> \o <<>> = <<r, n>> /\ <<>> \o <<>> = <<>>
  BY <1>4, ConcatEmptySeq
<1>7. <<r>> \o <<n>> = <<r, n>>
  BY <1>4, <1>5, AppendIsConcat
<1> QED BY <1>1, <1>2, <1>3, <1>5, <1>6, <1>7

(* A child of a child of a root prim, were there one.                      *)
LEMMA JoinedDeep ==
  ASSUME NEW r, NEW m, NEW n
  PROVE  /\ Len(<<r, m>> \o <<n>>) = 3
         /\ Append(<<r, m>>, n) = <<r, m>> \o <<n>>
         /\ <<r, m>> \o <<n>> # <<>>
         /\ SubSeq(<<r, m>> \o <<n>>, 1, 0) = <<>>
         /\ SubSeq(<<r, m>> \o <<n>>, 1, 1) = <<r>>
         /\ SubSeq(<<r, m>> \o <<n>>, 1, 2) = <<r, m>>
<1> DEFINE s == <<r, m>> \o <<n>>
           S == {r, m, n}
<1>1. /\ <<r, m>> \in Seq(S) /\ <<n>> \in Seq(S) /\ Len(<<r, m>>) = 2 /\ Len(<<n>>) = 1
      /\ <<r, m>>[1] = r /\ <<r, m>>[2] = m /\ <<n>>[1] = n
      /\ <<r>> \in Seq(S) /\ Len(<<r>>) = 1 /\ <<r>>[1] = r
  OBVIOUS
<1>2. s \in Seq(S) /\ Len(s) = 3 /\ s[1] = r /\ s[2] = m
  BY <1>1, ConcatProperties
<1>3. Append(<<r, m>>, n) = s
  BY <1>1, AppendIsConcat
<1>4. SubSeq(s, 1, 2) = <<r, m>>
  <2>1. /\ SubSeq(s, 1, 2) \in Seq(S) /\ Len(SubSeq(s, 1, 2)) = 2
        /\ SubSeq(s, 1, 2)[1] = r /\ SubSeq(s, 1, 2)[2] = m
    <3>1. \A i \in 1..2 : s[i] \in S
      BY <1>2
    <3>2. 1 \in Int /\ 2 \in Int
      OBVIOUS
    <3> HIDE DEF s, S
    <3> QED BY <1>2, <3>1, <3>2, SubSeqProperties
  <2>2. \A i \in 1..2 : SubSeq(s, 1, 2)[i] = <<r, m>>[i]
    BY <1>1, <2>1
  <2> HIDE DEF s, S
  <2> QED BY <1>1, <2>1, <2>2, SeqEqual
<1>5. SubSeq(s, 1, 1) = <<r>>
  <2>1. SubSeq(s, 1, 1) \in Seq(S) /\ Len(SubSeq(s, 1, 1)) = 1 /\ SubSeq(s, 1, 1)[1] = r
    <3>1. \A i \in 1..1 : s[i] \in S
      BY <1>2
    <3> HIDE DEF s, S
    <3> QED BY <1>2, <3>1, SubSeqProperties
  <2>2. \A i \in 1..1 : SubSeq(s, 1, 1)[i] = <<r>>[i]
    BY <1>1, <2>1
  <2> HIDE DEF s, S
  <2> QED BY <1>1, <2>1, <2>2, SeqEqual
<1>6. SubSeq(s, 1, 0) = <<>>
  BY SubSeqEmpty
<1>7. s # <<>>
  <2>1. Len(<<>>) = 0 /\ 0 # 3
    OBVIOUS
  <2>2. Len(s) = 3
    BY <1>2
  <2>. HIDE DEF s
  <2> QED BY <2>1, <2>2
<1> QED BY <1>2, <1>3, <1>4, <1>5, <1>6, <1>7

(* Below a child only what is at or above the child can be a prim's path.  *)
LEMMA DeepPrefix ==
  ASSUME NEW r \in Roots, NEW m \in Names, NEW n, NEW q \in Prims
  PROVE  IsPrefix(q, <<r, m>> \o <<n>>) <=> IsPrefix(q, <<r, m>>)
<1> DEFINE s == <<r, m>> \o <<n>>
<1>1. /\ Len(s) = 3 /\ SubSeq(s, 1, 0) = <<>> /\ SubSeq(s, 1, 1) = <<r>>
      /\ SubSeq(s, 1, 2) = <<r, m>>
  BY JoinedDeep
<1>2. Len(<<r, m>>) = 2 /\ Len(<<>>) = 0 /\ Len(<<r>>) = 1
  BY PathFacts
<1>3. /\ SubSeq(<<r, m>>, 1, 0) = <<>> /\ SubSeq(<<r, m>>, 1, 1) = <<r>>
      /\ SubSeq(<<r, m>>, 1, 2) = <<r, m>>
  BY Parts
<1>. HIDE DEF s
<1>4. CASE q = <<>>
  BY <1>1, <1>2, <1>3, <1>4 DEF IsPrefix
<1>5. ASSUME NEW p \in Roots, q = <<p>>
      PROVE  IsPrefix(q, s) <=> IsPrefix(q, <<r, m>>)
  <2>1. Len(q) = 1 /\ 1 <= 3 /\ 1 <= 2
    BY <1>5, PathFacts
  <2>2. /\ IsPrefix(q, s) <=> SubSeq(q, 1, 1) = SubSeq(s, 1, 1)
        /\ IsPrefix(q, <<r, m>>) <=> SubSeq(q, 1, 1) = SubSeq(<<r, m>>, 1, 1)
    BY <1>1, <1>2, <2>1 DEF IsPrefix
  <2> QED BY <1>1, <1>3, <2>2
<1>6. ASSUME NEW p \in Roots, NEW o \in Names, q = <<p, o>>
      PROVE  IsPrefix(q, s) <=> IsPrefix(q, <<r, m>>)
  <2>1. Len(q) = 2 /\ 2 <= 3 /\ 2 <= 2
    BY <1>6, PathFacts
  <2>2. /\ IsPrefix(q, s) <=> SubSeq(q, 1, 2) = SubSeq(s, 1, 2)
        /\ IsPrefix(q, <<r, m>>) <=> SubSeq(q, 1, 2) = SubSeq(<<r, m>>, 1, 2)
    BY <1>1, <1>2, <2>1 DEF IsPrefix
  <2> QED BY <1>1, <1>3, <2>2
<1> QED BY <1>4, <1>5, <1>6, PrimCases DEF s

-----------------------------------------------------------------------------
(***************************************************************************)
(* Places on the stage, and what a stage composed anew has there.          *)
(***************************************************************************)
(* A root prim or a prototype: what owns the other prims of the stage.     *)
Owners == Roots \cup Prototypes

(* The pseudo-root, an owner or a child of one.                            *)
LEMMA StageCases ==
  /\ \A t \in StagePaths : \/ t = <<>>
                           \/ \E o \in Owners : t = <<o>>
                           \/ \E o \in Owners, n \in Names : t = <<o, n>>
  /\ <<>> \in StagePaths
  /\ \A o \in Owners : <<o>> \in StagePaths /\ \A n \in Names : <<o, n>> \in StagePaths
<1>1. ASSUME NEW t \in StagePaths
      PROVE  \/ t = <<>>
             \/ \E o \in Owners : t = <<o>>
             \/ \E o \in Owners, n \in Names : t = <<o, n>>
  <2>1. CASE t \in Prims
    BY <2>1, PrimCases DEF Owners
  <2>2. CASE t \notin Prims
    BY <2>2 DEF StagePaths, PrototypePaths, Owners
  <2> QED BY <2>1, <2>2
<1>2. <<>> \in StagePaths
  BY DEF StagePaths, Prims
<1>3. \A o \in Owners : <<o>> \in StagePaths /\ \A n \in Names : <<o, n>> \in StagePaths
  BY DEF StagePaths, Prims, PrototypePaths, Owners
<1> QED BY <1>1, <1>2, <1>3

(* Which places are in prototypes.                                         *)
LEMMA OwnerFacts ==
  /\ ~IsInPrototype(<<>>) /\ ~IsPrototypePath(<<>>) /\ ~IsDead(<<>>)
  /\ \A o : /\ IsInPrototype(<<o>>) <=> o \in Prototypes
            /\ IsPrototypePath(<<o>>) <=> o \in Prototypes
            /\ IsDead(<<o>>) <=> o \in changes.dead
            /\ <<o>>[1] = o
  /\ \A o, n : /\ IsInPrototype(<<o, n>>) <=> o \in Prototypes
               /\ ~IsPrototypePath(<<o, n>>)
               /\ IsDead(<<o, n>>) <=> o \in changes.dead
               /\ <<o, n>>[1] = o
<1>1. \A o : <<o>>[1] = o
  OBVIOUS
<1>2. \A o, n : <<o, n>>[1] = o
  OBVIOUS
<1>3. \A o : <<o>> # <<>> /\ \A q : <<o>> = <<q>> <=> o = q
  BY PathFacts, <1>1
<1>4. \A o, n, q : <<o, n>> # <<>> /\ <<q>> # <<o, n>>
  BY PathFacts
<1> QED BY <1>1, <1>2, <1>3, <1>4 DEF IsInPrototype, IsPrototypePath, IsDead, PrototypePaths

(* What is below what on the stage.                                        *)
LEMMA BelowCases ==
  /\ Below(<<>>, <<>>)
  /\ \A o : /\ Below(<<>>, <<o>>) <=> o \in Roots
            /\ ~Below(<<o>>, <<>>)
  /\ \A o, q : Below(<<o>>, <<q>>) <=> o = q
  /\ \A o, n : (Below(<<>>, <<o, n>>) <=> o \in Roots) /\ ~Below(<<o, n>>, <<>>)
  /\ \A o, q, n : (Below(<<o>>, <<q, n>>) <=> o = q) /\ ~Below(<<o, n>>, <<q>>)
  /\ \A o, m, q, n : Below(<<o, m>>, <<q, n>>) <=> o = q /\ m = n
<1>1. IsPrefix(<<>>, <<>>)
  BY Above
<1>2. \A o, n, q : ~IsPrefix(<<o, n>>, <<q>>)
  BY Above
<1>3. /\ Below(<<>>, <<>>)
      /\ \A o : /\ Below(<<>>, <<o>>) <=> o \in Roots
                /\ ~Below(<<o>>, <<>>)
  BY <1>1, PathFacts, OwnerFacts DEF Below
<1>4. \A o, n : (Below(<<>>, <<o, n>>) <=> o \in Roots) /\ ~Below(<<o, n>>, <<>>)
  BY PathFacts, OwnerFacts DEF Below
<1>5. \A o, q : Below(<<o>>, <<q>>) <=> o = q
  BY PathFacts DEF Below
<1>6. \A o, q, n : (Below(<<o>>, <<q, n>>) <=> o = q) /\ ~Below(<<o, n>>, <<q>>)
  BY <1>2, PathFacts DEF Below
<1>7. \A o, m, q, n : Below(<<o, m>>, <<q, n>>) <=> o = q /\ m = n
  <2>1. ASSUME NEW o, NEW m, NEW q, NEW n
        PROVE  Below(<<o, m>>, <<q, n>>) <=> o = q /\ m = n
    <3>1. <<o, m>> # <<>> /\ (IsPrefix(<<o, m>>, <<q, n>>) <=> o = q /\ m = n)
      BY PathFacts
    <3> QED BY <3>1 DEF Below
  <2> QED BY <2>1
<1> QED BY <1>3, <1>4, <1>5, <1>6, <1>7

(* The prims that a stage composed anew has.                               *)
HasOwner(o) == IF o \in Prototypes THEN cache.key[o] # None ELSE Status(<<o>>) # Absent

IsClosed(o) == o \notin Prototypes /\ Status(<<o>>) \in Keys

(* A prim in a prototype uses an index at or below its source.             *)
LEMMA UsedIndexes ==
  ASSUME Before
  PROVE  /\ UsedIndex(<<>>) = <<>>
         /\ \A o \in Owners : o \notin Prototypes =>
              /\ o \in Roots /\ <<o>> \in Prims /\ UsedIndex(<<o>>) = <<o>>
              /\ \A n \in Names : UsedIndex(<<o, n>>) = <<o, n>>
         /\ \A P \in Prototypes : cache.key[P] # None =>
              /\ cache.source[P] \in Instances
              /\ UsedIndex(<<P>>) = cache.source[P]
         /\ \A P \in Prototypes, n \in Names :
              UsedIndex(<<P, n>>) = cache.source[P] \o <<n>>
<1>1. UsedIndex(<<>>) = <<>>
  BY OwnerFacts DEF UsedIndex
<1>2. ASSUME NEW o \in Owners, o \notin Prototypes
      PROVE  /\ o \in Roots /\ <<o>> \in Prims /\ UsedIndex(<<o>>) = <<o>>
             /\ \A n \in Names : UsedIndex(<<o, n>>) = <<o, n>>
  BY <1>2, OwnerFacts DEF UsedIndex, Owners, Prims
<1>3. ASSUME NEW P \in Prototypes, cache.key[P] # None
      PROVE  cache.source[P] \in Instances /\ UsedIndex(<<P>>) = cache.source[P]
  <2>1. cache.source[P] \in Instances
    BY <1>3, PrototypeFacts
  <2>2. cache.source[P] \in Prims
    BY <2>1 DEF Instances
  <2>3. UsedIndex(<<P>>) = cache.source[P] \o <<>>
    <3>1. Tail(<<P>>) = <<>> /\ <<P>>[1] = P
      OBVIOUS
    <3> QED BY <3>1, OwnerFacts DEF UsedIndex
  <2>4. \A p \in Prims : p \o <<>> = p
    <3>1. <<>> \o <<>> = <<>>
      BY ConcatEmptySeq, EmptySeq
    <3>2. \A r \in Roots : <<r>> \o <<>> = <<r>>
      <4>1. ASSUME NEW r PROVE <<r>> \o <<>> = <<r>>
        <5>1. <<r>> \in Seq({r})
          OBVIOUS
        <5> QED BY <5>1, ConcatEmptySeq
      <4> QED BY <4>1
    <3>3. \A r, n : <<r, n>> \o <<>> = <<r, n>>
      BY Joined
    <3> QED BY <3>1, <3>2, <3>3, PrimCases
  <2> QED BY <2>1, <2>2, <2>3, <2>4
<1>4. ASSUME NEW P \in Prototypes, NEW n \in Names
      PROVE  UsedIndex(<<P, n>>) = cache.source[P] \o <<n>>
  <2>1. Tail(<<P, n>>) = <<n>> /\ <<P, n>>[1] = P
    BY Joined, OwnerFacts
  <2> QED BY <2>1, OwnerFacts DEF UsedIndex
<1> QED BY <1>1, <1>2, <1>3, <1>4

(* A stage composed anew, place by place.                                  *)
LEMMA FullyFacts ==
  ASSUME Before
  PROVE  /\ FullyComposed[<<>>] = [index |-> <<>>, live |-> TRUE, instance |-> FALSE]
         /\ \A o \in Owners :
              FullyComposed[<<o>>] =
                IF HasOwner(o)
                  THEN [index |-> UsedIndex(<<o>>), live |-> TRUE, instance |-> IsClosed(o)]
                  ELSE None
         /\ \A o \in Owners, n \in Names :
              FullyComposed[<<o, n>>] =
                IF HasOwner(o) /\ ~IsClosed(o) /\ Status(UsedIndex(<<o, n>>)) # Absent
                  THEN [index |-> UsedIndex(<<o, n>>), live |-> TRUE,
                        instance |-> Status(UsedIndex(<<o, n>>)) \in Keys]
                  ELSE None
<1> DEFINE used == {P \in Prototypes : cache.key[P] # None}
           instance(s) == Status(UsedIndex(s)) \in Keys /\ ~IsPrototypePath(s)
           base(s) == IF s # <<>> /\ s[1] \in Prototypes THEN 1 ELSE 0
           exists(s) == /\ s = <<>> \/ s[1] \notin Prototypes \ used
                        /\ \A m \in base(s) + 1 .. Len(s) :
                             /\ Status(UsedIndex(SubSeq(s, 1, m))) # Absent
                             /\ ~instance(SubSeq(s, 1, m - 1))
<1>1. FullyComposed =
        [s \in StagePaths |->
           IF exists(s) THEN [index |-> UsedIndex(s), live |-> TRUE, instance |-> instance(s)]
           ELSE None]
  BY DEF FullyComposed, UsedIndex, IsInPrototype
<1>2. \A s \in StagePaths : FullyComposed[s] =
        IF exists(s) THEN [index |-> UsedIndex(s), live |-> TRUE, instance |-> instance(s)]
        ELSE None
  BY <1>1
<1>3. /\ \A i : i \in 0 + 1 .. 0 <=> FALSE
      /\ \A i : i \in 0 + 1 .. 1 <=> i = 1
      /\ \A i : i \in 0 + 1 .. 2 <=> i = 1 \/ i = 2
      /\ \A i : i \in 1 + 1 .. 1 <=> FALSE
      /\ \A i : i \in 1 + 1 .. 2 <=> i = 2
      /\ 1 - 1 = 0 /\ 2 - 1 = 1
  OBVIOUS
<1>4. instance(<<>>) = FALSE /\ exists(<<>>)
  <2>1. instance(<<>>) = FALSE
    BY UsedIndexes, RootIsPlain
  <2>2. base(<<>>) = 0 /\ Len(<<>>) = 0
    BY PathFacts
  <2>3. \A m : m \notin base(<<>>) + 1 .. Len(<<>>)
    BY <1>3, <2>2
  <2> QED BY <2>1, <2>3
<1>5. ASSUME NEW o \in Owners
      PROVE  /\ instance(<<o>>) = IsClosed(o)
             /\ exists(<<o>>) <=> HasOwner(o)
             /\ \A n \in Names :
                  /\ instance(<<o, n>>) = (Status(UsedIndex(<<o, n>>)) \in Keys)
                  /\ exists(<<o, n>>) <=> /\ HasOwner(o) /\ ~IsClosed(o)
                                          /\ Status(UsedIndex(<<o, n>>)) # Absent
  <2>1. instance(<<o>>) = IsClosed(o)
    BY OwnerFacts, UsedIndexes DEF IsClosed
  <2>2. \A n \in Names : instance(<<o, n>>) = (Status(UsedIndex(<<o, n>>)) \in Keys)
    BY OwnerFacts
  <2>3. CASE o \in Prototypes
    <3>1. base(<<o>>) = 1 /\ Len(<<o>>) = 1 /\ <<o>> # <<>> /\ <<o>>[1] = o
      BY <2>3, PathFacts, OwnerFacts
    <3>2. \A m : m \notin base(<<o>>) + 1 .. Len(<<o>>)
      BY <1>3, <3>1
    <3>3. exists(<<o>>) <=> o \in used
      BY <2>3, <3>1, <3>2
    <3>4. exists(<<o>>) <=> HasOwner(o)
      BY <2>3, <3>3 DEF HasOwner
    <3>5. ASSUME NEW n \in Names
          PROVE  exists(<<o, n>>) <=> /\ HasOwner(o) /\ ~IsClosed(o)
                                      /\ Status(UsedIndex(<<o, n>>)) # Absent
      <4>1. base(<<o, n>>) = 1 /\ Len(<<o, n>>) = 2 /\ <<o, n>> # <<>> /\ <<o, n>>[1] = o
        BY <2>3, PathFacts, OwnerFacts
      <4>2. \A m : m \in base(<<o, n>>) + 1 .. Len(<<o, n>>) <=> m = 2
        BY <1>3, <4>1
      <4>3. SubSeq(<<o, n>>, 1, 2) = <<o, n>> /\ SubSeq(<<o, n>>, 1, 2 - 1) = <<o>>
        BY <1>3, Parts
      <4>4. exists(<<o, n>>) <=> /\ o \in used
                                 /\ Status(UsedIndex(<<o, n>>)) # Absent /\ ~instance(<<o>>)
        BY <2>3, <4>1, <4>2, <4>3
      <4> QED BY <2>1, <2>3, <4>4 DEF HasOwner
    <3> QED BY <2>1, <2>2, <3>4, <3>5
  <2>4. CASE o \notin Prototypes
    <3>1. base(<<o>>) = 0 /\ Len(<<o>>) = 1 /\ <<o>> # <<>> /\ <<o>>[1] = o
      BY <2>4, PathFacts, OwnerFacts
    <3>2. \A m : m \in base(<<o>>) + 1 .. Len(<<o>>) <=> m = 1
      BY <1>3, <3>1
    <3>3. SubSeq(<<o>>, 1, 1) = <<o>> /\ SubSeq(<<o>>, 1, 1 - 1) = <<>>
      BY <1>3, Parts
    <3>4. exists(<<o>>) <=> Status(UsedIndex(<<o>>)) # Absent
      BY <1>4, <2>4, <3>1, <3>2, <3>3
    <3>5. exists(<<o>>) <=> HasOwner(o)
      BY <2>4, <3>4, UsedIndexes DEF HasOwner
    <3>6. ASSUME NEW n \in Names
          PROVE  exists(<<o, n>>) <=> /\ HasOwner(o) /\ ~IsClosed(o)
                                      /\ Status(UsedIndex(<<o, n>>)) # Absent
      <4>1. base(<<o, n>>) = 0 /\ Len(<<o, n>>) = 2 /\ <<o, n>> # <<>> /\ <<o, n>>[1] = o
        BY <2>4, PathFacts, OwnerFacts
      <4>2. \A m : m \in base(<<o, n>>) + 1 .. Len(<<o, n>>) <=> m = 1 \/ m = 2
        BY <1>3, <4>1
      <4>3. /\ SubSeq(<<o, n>>, 1, 2) = <<o, n>> /\ SubSeq(<<o, n>>, 1, 2 - 1) = <<o>>
            /\ SubSeq(<<o, n>>, 1, 1) = <<o>> /\ SubSeq(<<o, n>>, 1, 1 - 1) = <<>>
        BY <1>3, Parts
      <4>4. exists(<<o, n>>) <=> /\ Status(UsedIndex(<<o>>)) # Absent
                                 /\ Status(UsedIndex(<<o, n>>)) # Absent /\ ~instance(<<o>>)
        BY <1>4, <2>4, <4>1, <4>2, <4>3
      <4> QED BY <2>1, <2>4, <4>4, UsedIndexes DEF HasOwner
    <3> QED BY <2>1, <2>2, <3>5, <3>6
  <2> QED BY <2>3, <2>4
<1>. HIDE DEF exists, instance, used, base
<1>6. FullyComposed[<<>>] = [index |-> <<>>, live |-> TRUE, instance |-> FALSE]
  BY <1>2, <1>4, StageCases, UsedIndexes
<1>7. ASSUME NEW o \in Owners
      PROVE  FullyComposed[<<o>>] =
               IF HasOwner(o)
                 THEN [index |-> UsedIndex(<<o>>), live |-> TRUE, instance |-> IsClosed(o)]
                 ELSE None
  BY <1>2, <1>5, StageCases
<1>8. ASSUME NEW o \in Owners, NEW n \in Names
      PROVE  FullyComposed[<<o, n>>] =
               IF HasOwner(o) /\ ~IsClosed(o) /\ Status(UsedIndex(<<o, n>>)) # Absent
                 THEN [index |-> UsedIndex(<<o, n>>), live |-> TRUE,
                       instance |-> Status(UsedIndex(<<o, n>>)) \in Keys]
                 ELSE None
  BY <1>2, <1>5, StageCases
<1> QED BY <1>6, <1>7, <1>8

-----------------------------------------------------------------------------
(***************************************************************************)
(* Which prims in prototypes use an index.                                 *)
(***************************************************************************)
LEMMA InstancesAbove ==
  ASSUME IInv, phase # "composing", NEW i \in Instances
  PROVE  /\ ~IsPrefix(i, <<>>)
         /\ \A r \in Roots : IsPrefix(i, <<r>>) => i = <<r>>
         /\ \A r \in Roots, n \in Names : IsPrefix(i, <<r, n>>) => i = <<r>> \/ i = <<r, n>>
<1>1. i \in Prims /\ i # <<>>
  BY AtRest
<1> QED BY <1>1, PathsAtOrAbove

(* The source of a prototype is one of its instances.                      *)
LEMMA SourceOfPrototype ==
  ASSUME IInv, phase # "composing"
  PROVE  /\ \A i \in Instances :
              /\ cache.prototype[i] \in Prototypes /\ cache.key[cache.prototype[i]] # None
              /\ cache.source[cache.prototype[i]] \in Instances
         /\ \A P \in Prototypes : cache.key[P] # None =>
              /\ cache.source[P] \in Instances /\ cache.prototype[cache.source[P]] = P
              /\ Status(cache.source[P]) \in Keys /\ Opens(cache.source[P])
<1>1. /\ Before
      /\ \A p \in Instances :
              /\ p \in Prims /\ p # <<>> /\ Status(p) = KeyOf(p) /\ Status(p) \in Keys
              /\ cache.prototype[p] \in Prototypes
              /\ Opens(p) <=> cache.source[cache.prototype[p]] = p
  BY AtRest
<1>2. ASSUME NEW P \in Prototypes, cache.key[P] # None
      PROVE  /\ cache.source[P] \in Instances /\ cache.prototype[cache.source[P]] = P
             /\ Status(cache.source[P]) \in Keys /\ Opens(cache.source[P])
  <2>1. cache.source[P] \in Instances /\ cache.prototype[cache.source[P]] = P
    BY <1>1, <1>2, PrototypeFacts
  <2> QED BY <1>1, <2>1
<1>3. ASSUME NEW i \in Instances
      PROVE  /\ cache.prototype[i] \in Prototypes /\ cache.key[cache.prototype[i]] # None
             /\ cache.source[cache.prototype[i]] \in Instances
  <2>1. cache.prototype[i] \in Prototypes /\ cache.key[cache.prototype[i]] # None
    BY <1>1, InstanceFacts, RecomposeAssumption DEF KeyOf
  <2> QED BY <1>2, <2>1
<1> QED BY <1>2, <1>3

(* Which prims in prototypes use an index.                                 *)
LEMMA UsesInPrototypes ==
  ASSUME IInv, phase # "composing"
  PROVE  /\ PrimsInPrototypesUsing(<<>>) = {}
         /\ \A p \in Prims : \A s \in PrimsInPrototypesUsing(p) :
              \E P \in Prototypes :
                /\ cache.key[P] # None
                /\ \/ s = <<P>> /\ p = cache.source[P]
                   \/ \E n \in Names : s = <<P, n>> /\ p = cache.source[P] \o <<n>>
         /\ \A P \in Prototypes, r \in Roots, n \in Names :
              cache.key[P] # None /\ cache.source[P] = <<r>>
              => <<P, n>> \in PrimsInPrototypesUsing(<<r, n>>)
<1>1. PrimsInPrototypesUsing(<<>>) = {}
  <2>1. Prefixes(<<>>) \ {<<>>} = {}
    BY PrefixSets
  <2> QED BY <2>1 DEF PrimsInPrototypesUsing
<1>2. ASSUME NEW r \in Roots, NEW s \in PrimsInPrototypesUsing(<<r>>)
      PROVE  \E P \in Prototypes : cache.key[P] # None /\ s = <<P>> /\ <<r>> = cache.source[P]
  <2> DEFINE p == <<r>>
             looked  == {q \in Prefixes(p) \ {<<>>} :
                           \A m \in Prefixes(p) : IsStrictPrefix(q, m) => m \in Instances}
             above(q) == {i \in Instances : IsPrefix(i, q)}
             uses(q, i) == /\ \A j \in above(q) : IsPrefix(j, i)
                           /\ IsPrefix(cache.source[cache.prototype[i]], q)
             inPrototype(P) == <<P>> \o SubSeq(p, Len(cache.source[P]) + 1, Len(p))
  <2>1. PICK i \in Instances :
          /\ s = inPrototype(cache.prototype[i])
          /\ \E q \in looked : i \in above(q) /\ uses(q, i)
    BY <1>2 DEF PrimsInPrototypesUsing
  <2>2. Prefixes(p) = {<<>>, p}
    BY PrefixSets
  <2>3. IsPrefix(cache.source[cache.prototype[i]], p)
    BY <2>1, <2>2
  <2>4. cache.prototype[i] \in Prototypes /\ cache.key[cache.prototype[i]] # None
        /\ cache.source[cache.prototype[i]] \in Instances
    BY SourceOfPrototype
  <2>5. cache.source[cache.prototype[i]] = p
    BY <2>3, <2>4, InstancesAbove
  <2>6. Len(p) = 1
    BY PathFacts
  <2>7. SubSeq(p, 2, 1) = <<>>
    BY SubSeqEmpty
  <2>8. \A P : <<P>> \o <<>> = <<P>>
    <3>1. ASSUME NEW P PROVE <<P>> \o <<>> = <<P>>
      BY Joined
    <3> QED BY <3>1
  <2>9. inPrototype(cache.prototype[i]) = <<cache.prototype[i]>>
    <3>1. Len(cache.source[cache.prototype[i]]) + 1 = 2
      BY <2>5, <2>6
    <3> QED BY <2>6, <2>7, <2>8, <3>1
  <2> QED BY <2>1, <2>4, <2>5, <2>9
<1>3. ASSUME NEW r \in Roots, NEW n \in Names
      PROVE  /\ \A s \in PrimsInPrototypesUsing(<<r, n>>) :
                  \E P \in Prototypes :
                    /\ cache.key[P] # None
                    /\ \/ s = <<P>> /\ <<r, n>> = cache.source[P]
                       \/ s = <<P, n>> /\ <<r, n>> = cache.source[P] \o <<n>>
             /\ \A P \in Prototypes : cache.key[P] # None /\ cache.source[P] = <<r>>
                  => <<P, n>> \in PrimsInPrototypesUsing(<<r, n>>)
  <2> DEFINE o == <<r>>
             c == <<r, n>>
             looked == {q \in Prefixes(c) \ {<<>>} :
                          \A m \in Prefixes(c) : IsStrictPrefix(q, m) => m \in Instances}
             above(q) == {i \in Instances : IsPrefix(i, q)}
             uses(q, i) == /\ \A j \in above(q) : IsPrefix(j, i)
                           /\ IsPrefix(cache.source[cache.prototype[i]], q)
             inPrototype(P) == <<P>> \o SubSeq(c, Len(cache.source[P]) + 1, Len(c))
  <2>1. \A s : s \in PrimsInPrototypesUsing(c) <=>
          \E i \in Instances : /\ s = inPrototype(cache.prototype[i])
                               /\ \E q \in looked : i \in above(q) /\ uses(q, i)
    BY DEF PrimsInPrototypesUsing
  <2>2. Prefixes(c) = {<<>>, o, c} /\ o # <<>> /\ c # <<>> /\ o # c
    BY PrefixSets, PathFacts
  <2>3. /\ IsPrefix(o, o) /\ IsPrefix(o, c) /\ IsPrefix(c, c) /\ ~IsPrefix(c, o)
        /\ ~IsPrefix(o, <<>>) /\ ~IsPrefix(c, <<>>)
    BY PathFacts
  <2>4. /\ ~IsStrictPrefix(c, <<>>) /\ ~IsStrictPrefix(c, o) /\ ~IsStrictPrefix(c, c)
        /\ ~IsStrictPrefix(o, <<>>) /\ ~IsStrictPrefix(o, o) /\ IsStrictPrefix(o, c)
    BY <2>2, <2>3 DEF IsStrictPrefix
  <2>5. c \in looked /\ (o \in looked <=> c \in Instances)
        /\ \A q \in looked : q = o \/ q = c
    BY <2>2, <2>4
  <2>6. /\ \A i \in Instances : IsPrefix(i, o) => i = o
        /\ \A i \in Instances : IsPrefix(i, c) => i = o \/ i = c
    BY InstancesAbove
  <2>7. above(o) = {o} \cap Instances /\ above(c) = {o, c} \cap Instances
    BY <2>3, <2>6
  <2>8. \A P \in Prototypes :
          /\ cache.source[P] = c => inPrototype(P) = <<P>>
          /\ cache.source[P] = o => inPrototype(P) = <<P, n>>
    <3>1. Len(c) = 2 /\ Len(o) = 1 /\ Len(c) + 1 = 3 /\ Len(o) + 1 = 2
      OBVIOUS
    <3>2. SubSeq(c, 3, 2) = <<>>
      BY SubSeqEmpty
    <3>3. SubSeq(c, 2, 2) = <<n>>
      <4>1. Tail(c) = <<n>> /\ c \in Seq({r, n})
        BY Joined
      <4> HIDE DEF c
      <4> QED BY <2>2, <3>1, <4>1, TailIsSubSeq
    <3>4. ASSUME NEW P \in Prototypes
          PROVE  <<P>> \o <<>> = <<P>> /\ <<P>> \o <<n>> = <<P, n>>
      BY Joined
    <3> HIDE DEF c, o
    <3> QED BY <3>1, <3>2, <3>3, <3>4
  <2>9. o \o <<n>> = c
    BY Joined
  <2>. HIDE DEF inPrototype
  <2>10. ASSUME NEW s \in PrimsInPrototypesUsing(c)
         PROVE  \E P \in Prototypes :
                  /\ cache.key[P] # None
                  /\ \/ s = <<P>> /\ c = cache.source[P]
                     \/ s = <<P, n>> /\ c = cache.source[P] \o <<n>>
    <3>1. PICK i \in Instances :
            /\ s = inPrototype(cache.prototype[i])
            /\ \E q \in looked : i \in above(q) /\ uses(q, i)
      BY <2>1, <2>10
    <3>2. cache.prototype[i] \in Prototypes /\ cache.key[cache.prototype[i]] # None
          /\ cache.source[cache.prototype[i]] \in Instances
      BY SourceOfPrototype
    <3>3. IsPrefix(cache.source[cache.prototype[i]], o)
          \/ IsPrefix(cache.source[cache.prototype[i]], c)
      BY <2>5, <3>1
    <3>4. cache.source[cache.prototype[i]] = o \/ cache.source[cache.prototype[i]] = c
      BY <2>6, <3>2, <3>3
    <3> HIDE DEF o, c
    <3> QED BY <2>8, <2>9, <3>1, <3>2, <3>4
  <2>11. ASSUME NEW P \in Prototypes, cache.key[P] # None, cache.source[P] = o
         PROVE  <<P, n>> \in PrimsInPrototypesUsing(c)
    <3>1. o \in Instances /\ cache.prototype[o] = P
      BY <2>11, SourceOfPrototype
    <3>2. \E q \in looked : o \in above(q) /\ uses(q, o)
      <4>1. CASE c \in Instances
        <5>1. o \in looked /\ o \in above(o) /\ uses(o, o)
          BY <2>3, <2>5, <2>7, <2>11, <3>1, <4>1
        <5> QED BY <5>1
      <4>2. CASE c \notin Instances
        <5>1. c \in looked /\ o \in above(c) /\ uses(c, o)
          BY <2>3, <2>5, <2>7, <2>11, <3>1, <4>2
        <5> QED BY <5>1
      <4> QED BY <4>1, <4>2
    <3>3. inPrototype(P) = <<P, n>>
      BY <2>8, <2>11
    <3> QED BY <2>1, <3>1, <3>2, <3>3
  <2> QED BY <2>10, <2>11
<1>4. ASSUME NEW p \in Prims, NEW s \in PrimsInPrototypesUsing(p)
      PROVE  \E P \in Prototypes :
                /\ cache.key[P] # None
                /\ \/ s = <<P>> /\ p = cache.source[P]
                   \/ \E n \in Names : s = <<P, n>> /\ p = cache.source[P] \o <<n>>
  <2>1. CASE p = <<>>
    BY <1>1, <1>4, <2>1
  <2>2. ASSUME NEW r \in Roots, p = <<r>>
        PROVE  \E P \in Prototypes : cache.key[P] # None /\ s = <<P>> /\ p = cache.source[P]
    BY <1>2, <1>4, <2>2
  <2>3. ASSUME NEW r \in Roots, NEW n \in Names, p = <<r, n>>
        PROVE  \E P \in Prototypes :
                 /\ cache.key[P] # None
                 /\ \/ s = <<P>> /\ p = cache.source[P]
                    \/ s = <<P, n>> /\ p = cache.source[P] \o <<n>>
    BY <1>3, <1>4, <2>3
  <2> QED BY <2>1, <2>2, <2>3, PrimCases
<1> QED BY <1>1, <1>3, <1>4

-----------------------------------------------------------------------------
(***************************************************************************)
(* Which prims are affected.                                               *)
(***************************************************************************)
(* What is at or above a prim of the stage.                                *)
LEMMA StagePrefixes ==
  ASSUME NEW s \in StagePaths
  PROVE  /\ IsPrefix(s, <<>>) <=> s = <<>>
         /\ \A o \in Owners : IsPrefix(s, <<o>>) <=> s = <<>> \/ s = <<o>>
         /\ \A o \in Owners, n \in Names :
              IsPrefix(s, <<o, n>>) <=> s = <<>> \/ s = <<o>> \/ s = <<o, n>>
<1>1. CASE s = <<>>
  <2>1. IsPrefix(<<>>, <<>>)
    BY Above
  <2> QED BY <1>1, <2>1, PathFacts
<1>2. ASSUME NEW q \in Owners, s = <<q>>
      PROVE  /\ s # <<>> /\ ~IsPrefix(s, <<>>)
             /\ \A o : IsPrefix(s, <<o>>) <=> s = <<o>>
             /\ \A o, n : (IsPrefix(s, <<o, n>>) <=> s = <<o>>) /\ s # <<o, n>>
  <2>1. \A o : <<o>> = <<q>> <=> o = q
    BY OwnerFacts
  <2> QED BY <1>2, <2>1, PathFacts
<1>3. ASSUME NEW q \in Owners, NEW m \in Names, s = <<q, m>>
      PROVE  /\ s # <<>> /\ ~IsPrefix(s, <<>>)
             /\ \A o : ~IsPrefix(s, <<o>>) /\ s # <<o>>
             /\ \A o, n : IsPrefix(s, <<o, n>>) <=> s = <<o, n>>
  <2>1. \A o : ~IsPrefix(s, <<o>>) /\ s # <<o>>
    BY <1>3, Above, PathFacts
  <2>2. ASSUME NEW o, NEW n
        PROVE  IsPrefix(s, <<o, n>>) <=> s = <<o, n>>
    <3>1. IsPrefix(<<q, m>>, <<o, n>>) <=> q = o /\ m = n
      BY PathFacts
    <3>2. <<q, m>> = <<o, n>> <=> q = o /\ m = n
      OBVIOUS
    <3> QED BY <1>3, <3>1, <3>2
  <2> QED BY <1>3, <2>1, <2>2, PathFacts
<1> QED BY <1>1, <1>2, <1>3, StageCases

(* The tops of a set of places.                                            *)
LEMMA TopsOfStage ==
  ASSUME NEW S \in SUBSET (StagePaths \ {<<>>})
  PROVE  /\ Tops(S) \subseteq S
         /\ \A o \in Owners : <<o>> \in Tops(S) <=> <<o>> \in S
         /\ \A o \in Owners, n \in Names :
              <<o, n>> \in Tops(S) <=> <<o, n>> \in S /\ <<o>> \notin S
<1>1. Tops(S) \subseteq S
  BY DEF Tops
<1>2. \A p : p \in Tops(S) <=> p \in S /\ \A q \in S : IsPrefix(q, p) => q = p
  BY DEF Tops, IsStrictPrefix
<1>3. \A q \in S : q \in StagePaths /\ q # <<>>
  OBVIOUS
<1>4. ASSUME NEW o \in Owners PROVE <<o>> \in Tops(S) <=> <<o>> \in S
  BY <1>2, <1>3, StagePrefixes
<1>5. ASSUME NEW o \in Owners, NEW n \in Names
      PROVE  <<o, n>> \in Tops(S) <=> <<o, n>> \in S /\ <<o>> \notin S
  <2>1. <<o>> # <<o, n>> /\ IsPrefix(<<o>>, <<o, n>>)
    BY PathFacts
  <2> QED BY <1>2, <1>3, <2>1, StagePrefixes
<1> QED BY <1>1, <1>4, <1>5

(* Which paths a change affects.                                           *)
LEMMA UnderCases ==
  ASSUME IInv, phase # "composing"
  PROVE  /\ Under(paths, <<>>) <=> <<>> \in paths
         /\ \A r \in Roots : Under(paths, <<r>>) <=> <<>> \in paths \/ <<r>> \in paths
         /\ \A r \in Roots, n \in Names :
              Under(paths, <<r, n>>) <=> Under(paths, <<r>>) \/ <<r, n>> \in paths
         /\ \A P \in Prototypes, n \in Names : cache.key[P] # None =>
              /\ Under(paths, cache.source[P] \o <<n>>) <=>
                   Under(paths, cache.source[P]) \/ cache.source[P] \o <<n>> \in paths
              /\ cache.source[P] \o <<n>> \in paths =>
                   \E r \in Roots : cache.source[P] = <<r>> /\ cache.source[P] \o <<n>> = <<r, n>>
<1>1. paths \subseteq Prims /\ Prims \subseteq StagePaths
  BY DEF IInv, TypeOK, StagePaths
<1>2. /\ Under(paths, <<>>) <=> <<>> \in paths
      /\ \A r \in Roots : Under(paths, <<r>>) <=> <<>> \in paths \/ <<r>> \in paths
  BY <1>1, StagePrefixes DEF Under, Owners
<1>3. \A r \in Roots, n \in Names :
        Under(paths, <<r, n>>) <=> Under(paths, <<r>>) \/ <<r, n>> \in paths
  <2>1. ASSUME NEW r \in Roots, NEW n \in Names
        PROVE  Under(paths, <<r, n>>) <=>
                 <<>> \in paths \/ <<r>> \in paths \/ <<r, n>> \in paths
    <3>1. \A q \in paths : IsPrefix(q, <<r, n>>) <=> q = <<>> \/ q = <<r>> \/ q = <<r, n>>
      BY <1>1, StagePrefixes DEF Owners
    <3> QED BY <3>1 DEF Under
  <2> QED BY <1>2, <2>1
<1>4. ASSUME NEW P \in Prototypes, NEW n \in Names, cache.key[P] # None
      PROVE  /\ Under(paths, cache.source[P] \o <<n>>) <=>
                   Under(paths, cache.source[P]) \/ cache.source[P] \o <<n>> \in paths
             /\ cache.source[P] \o <<n>> \in paths =>
                   \E r \in Roots : cache.source[P] = <<r>> /\ cache.source[P] \o <<n>> = <<r, n>>
  <2>1. cache.source[P] \in Prims /\ cache.source[P] # <<>>
    BY <1>4, SourceOfPrototype, AtRest
  <2>2. ASSUME NEW r \in Roots, cache.source[P] = <<r>>
        PROVE  /\ Under(paths, cache.source[P] \o <<n>>) <=>
                   Under(paths, cache.source[P]) \/ cache.source[P] \o <<n>> \in paths
               /\ cache.source[P] \o <<n>> = <<r, n>>
    <3>1. cache.source[P] \o <<n>> = <<r, n>>
      BY <2>2, Joined
    <3> QED BY <1>3, <2>2, <3>1
  <2>3. ASSUME NEW r \in Roots, NEW m \in Names, cache.source[P] = <<r, m>>
        PROVE  /\ Under(paths, cache.source[P] \o <<n>>) <=> Under(paths, cache.source[P])
               /\ cache.source[P] \o <<n>> \notin paths
    <3>1. \A q \in Prims : IsPrefix(q, cache.source[P] \o <<n>>) <=> IsPrefix(q, cache.source[P])
      BY <2>3, DeepPrefix
    <3>2. Len(cache.source[P] \o <<n>>) = 3
      BY <2>3, JoinedDeep
    <3>3. \A q \in Prims : Len(q) # 3
      BY PrimCases, PathFacts
    <3> QED BY <1>1, <3>1, <3>2, <3>3 DEF Under
  <2> QED BY <2>1, <2>2, <2>3, PrimCases
<1> QED BY <1>2, <1>3, <1>4

(* Which places are affected, by the paths that changed.                   *)
LEMMA TouchedHasKey ==
  ASSUME IInv, phase # "composing", ChangesAreCurrent
  PROVE  /\ \A P \in Prototypes : P \in NewOrChanged => cache.key[P] # None
         /\ Touched(<<>>) <=> <<>> \in paths
         /\ \A o \in Owners : o \notin Prototypes =>
              /\ Touched(<<o>>) <=> <<>> \in paths \/ <<o>> \in paths
              /\ \A n \in Names : Touched(<<o, n>>) <=> Touched(<<o>>) \/ <<o, n>> \in paths
         /\ \A P \in Prototypes :
              /\ Touched(<<P>>) <=>
                   P \in NewOrChanged \/ (cache.key[P] # None /\ Under(paths, cache.source[P]))
              /\ \A n \in Names : Touched(<<P, n>>) <=>
                   \/ Touched(<<P>>)
                   \/ cache.key[P] # None /\ cache.source[P] \o <<n>> \in paths
<1>0. Before
  BY AtRest
<1>1. ASSUME NEW P \in Prototypes, P \in NewOrChanged PROVE cache.key[P] # None
  <2>1. changes.new[P] # None \/ changes.changed[P] # None
    BY <1>1 DEF NewOrChanged
  <2>2. cache.source[P] # None
    BY <2>1 DEF ChangesAreCurrent
  <2> QED BY <2>2 DEF IInv, CacheConsistent
<1>2. Touched(<<>>) <=> <<>> \in paths
  BY <1>0, UnderCases, OwnerFacts DEF Touched
<1>3. ASSUME NEW o \in Owners, o \notin Prototypes
      PROVE  /\ Touched(<<o>>) <=> <<>> \in paths \/ <<o>> \in paths
             /\ \A n \in Names : Touched(<<o, n>>) <=> Touched(<<o>>) \/ <<o, n>> \in paths
  BY <1>3, UnderCases, OwnerFacts DEF Touched, Owners
<1>4. ASSUME NEW P \in Prototypes
      PROVE  /\ Touched(<<P>>) <=>
                   P \in NewOrChanged \/ (cache.key[P] # None /\ Under(paths, cache.source[P]))
             /\ \A n \in Names : Touched(<<P, n>>) <=>
                   \/ Touched(<<P>>)
                   \/ cache.key[P] # None /\ cache.source[P] \o <<n>> \in paths
  <2>1. Touched(<<P>>) <=>
          P \in NewOrChanged \/ (cache.key[P] # None /\ Under(paths, cache.source[P]))
    BY <1>0, UsedIndexes, OwnerFacts DEF Touched
  <2>2. \A n \in Names : Touched(<<P, n>>) <=>
          P \in NewOrChanged \/ (cache.key[P] # None /\ Under(paths, cache.source[P] \o <<n>>))
    BY <1>0, UsedIndexes, OwnerFacts DEF Touched
  <2> QED BY <2>1, <2>2, UnderCases
<1> QED BY <1>1, <1>2, <1>3, <1>4

-----------------------------------------------------------------------------
(***************************************************************************)
(* The paths to compose are on top of what is affected.                    *)
(***************************************************************************)
AffectedPaths ==
  paths \cup (UNION {PrimsInPrototypesUsing(p) : p \in paths})
    \cup {<<P>> : P \in PrototypesUsingUnder(paths) \cup NewOrChanged}

(* The prims in prototypes that AffectedPaths adds use what is affected.   *)
LEMMA UsersOfPaths ==
  ASSUME IInv, phase # "composing", NEW p \in paths, NEW s \in PrimsInPrototypesUsing(p)
  PROVE  \E P \in Prototypes :
           /\ cache.key[P] # None
           /\ \/ s = <<P>> /\ p = cache.source[P]
              \/ \E n \in Names : s = <<P, n>> /\ p = cache.source[P] \o <<n>>
<1>1. p \in Prims
  BY DEF IInv, TypeOK
<1> QED BY <1>1, UsesInPrototypes

(* What AllPaths is made of, prototype by prototype.                       *)
LEMMA AffectedFacts ==
  ASSUME IInv, phase # "composing", ChangesAreCurrent
  PROVE  /\ AffectedPaths \subseteq StagePaths
         /\ \A t \in Prims : t \in AffectedPaths <=> t \in paths
         /\ \A t : t \in AffectedPaths <=>
               \/ t \in paths
               \/ \E p \in paths : t \in PrimsInPrototypesUsing(p)
               \/ \E P \in Prototypes : Touched(<<P>>) /\ t = <<P>>
         /\ \A P \in Prototypes : <<P>> \in AffectedPaths <=> Touched(<<P>>)
         /\ \A P \in Prototypes, n \in Names :
              <<P, n>> \in AffectedPaths \/ Touched(<<P>>) <=> Touched(<<P, n>>)
<1>0. /\ paths \subseteq Prims /\ Prims \subseteq StagePaths
      /\ \A P \in Prototypes : P \notin Roots
  BY RecomposeAssumption DEF IInv, TypeOK, StagePaths
<1>1. /\ \A p \in Prims : \A s \in PrimsInPrototypesUsing(p) :
              \E P \in Prototypes :
                /\ cache.key[P] # None
                /\ \/ s = <<P>> /\ p = cache.source[P]
                   \/ \E n \in Names : s = <<P, n>> /\ p = cache.source[P] \o <<n>>
      /\ \A P \in Prototypes, r \in Roots, n \in Names :
              cache.key[P] # None /\ cache.source[P] = <<r>>
              => <<P, n>> \in PrimsInPrototypesUsing(<<r, n>>)
  BY UsesInPrototypes
<1>2. ASSUME NEW t \in Prims
      PROVE  t # <<>> => t[1] \in Roots
  BY PrimCases, OwnerFacts
<1>3. \A P : P \in PrototypesUsingUnder(paths) \cup NewOrChanged <=>
               P \in Prototypes /\ Touched(<<P>>)
  <2>1. ASSUME NEW P
        PROVE  P \in PrototypesUsingUnder(paths) <=>
                 P \in Prototypes /\ cache.key[P] # None /\ Under(paths, cache.source[P])
    <3>1. P \in PrototypesUsingUnder(paths) <=>
            \E q \in Prims : cache.user[q] # None /\ Under(paths, q) /\ P = cache.user[q]
      BY DEF PrototypesUsingUnder
    <3>2. \A q \in Prims : cache.user[q] \in Prototypes \cup {None}
      BY DEF IInv, TypeOK, CacheTypeOK
    <3>3. \A q \in Prims, Q \in Prototypes : cache.source[Q] = q <=> cache.user[q] = Q
      BY DEF IInv, CacheConsistent
    <3>4. \A q \in Prims : q # None
      BY RecomposeAssumption
    <3>5. \A Q \in Prototypes : /\ cache.key[Q] = None => cache.source[Q] = None
                                /\ cache.key[Q] # None => cache.source[Q] \in Prims
      BY SourceOfPrototype DEF IInv, CacheConsistent, Instances
    <3>6. \A Q \in Prototypes : Q # None
      BY RecomposeAssumption
    <3> QED BY <3>1, <3>2, <3>3, <3>4, <3>5, <3>6
  <2>2. NewOrChanged \subseteq Prototypes
    BY DEF NewOrChanged
  <2> QED BY <2>1, <2>2, TouchedHasKey
<1>9. \A t : t \in AffectedPaths <=>
               \/ t \in paths
               \/ \E p \in paths : t \in PrimsInPrototypesUsing(p)
               \/ \E P \in Prototypes : Touched(<<P>>) /\ t = <<P>>
  <2>1. \A t : t \in AffectedPaths <=>
               \/ t \in paths
               \/ \E p \in paths : t \in PrimsInPrototypesUsing(p)
               \/ \E P \in PrototypesUsingUnder(paths) \cup NewOrChanged : t = <<P>>
    <3> DEFINE using == UNION {PrimsInPrototypesUsing(p) : p \in paths}
               owners == {<<P>> : P \in PrototypesUsingUnder(paths) \cup NewOrChanged}
    <3>1. \A t : t \in using <=> \E p \in paths : t \in PrimsInPrototypesUsing(p)
      OBVIOUS
    <3>2. \A t : t \in owners <=>
                   \E P \in PrototypesUsingUnder(paths) \cup NewOrChanged : t = <<P>>
      OBVIOUS
    <3>3. AffectedPaths = paths \cup using \cup owners
      BY DEF AffectedPaths
    <3> HIDE DEF using, owners
    <3> QED BY <3>1, <3>2, <3>3
  <2> QED BY <1>3, <2>1
<1>4. AffectedPaths \subseteq StagePaths
  <2>1. ASSUME NEW p \in paths, NEW s \in PrimsInPrototypesUsing(p)
        PROVE  s \in StagePaths
    <3>1. \A P \in Prototypes : <<P>> \in StagePaths /\ \A n \in Names : <<P, n>> \in StagePaths
      BY StageCases DEF Owners
    <3> QED BY <2>1, <3>1, UsersOfPaths
  <2>2. \A P \in Prototypes : <<P>> \in StagePaths
    BY StageCases DEF Owners
  <2> QED BY <1>0, <1>9, <2>1, <2>2
<1>5. ASSUME NEW t \in Prims PROVE t \in AffectedPaths <=> t \in paths
  <2>1. \A P \in Prototypes : t # <<P>> /\ \A n : t # <<P, n>>
    BY <1>0, <1>2, <1>5, OwnerFacts, PathFacts
  <2>2. ASSUME NEW p \in paths, t \in PrimsInPrototypesUsing(p) PROVE FALSE
    <3>1. \E P \in Prototypes : t = <<P>> \/ \E n \in Names : t = <<P, n>>
      BY <2>2, UsersOfPaths
    <3> QED BY <2>1, <3>1
  <2> QED BY <1>9, <2>1, <2>2
<1>6. ASSUME NEW P \in Prototypes PROVE <<P>> \notin Prims /\ \A n : <<P, n>> \notin Prims
  BY <1>0, <1>2, OwnerFacts, PathFacts
<1>7. ASSUME NEW P \in Prototypes PROVE <<P>> \in AffectedPaths <=> Touched(<<P>>)
  <2>1. ASSUME NEW p \in paths, <<P>> \in PrimsInPrototypesUsing(p)
        PROVE  Touched(<<P>>)
    <3>1. PICK Q \in Prototypes :
             /\ cache.key[Q] # None
             /\ \/ <<P>> = <<Q>> /\ p = cache.source[Q]
                \/ \E n \in Names : <<P>> = <<Q, n>> /\ p = cache.source[Q] \o <<n>>
      BY <2>1, UsersOfPaths
    <3>2. Q = P /\ p = cache.source[P]
      BY <3>1, OwnerFacts, PathFacts
    <3>3. Under(paths, p)
      BY <1>0, StagePrefixes, StageCases, PrimCases DEF Under, Owners
    <3> QED BY <3>1, <3>2, <3>3, TouchedHasKey
  <2>2. \A Q : <<P>> = <<Q>> <=> P = Q
    BY OwnerFacts
  <2> QED BY <1>0, <1>6, <1>9, <2>1, <2>2
<1>8. ASSUME NEW P \in Prototypes, NEW n \in Names
      PROVE  <<P, n>> \in AffectedPaths \/ Touched(<<P>>) <=> Touched(<<P, n>>)
  <2>1. ASSUME <<P, n>> \in AffectedPaths
        PROVE  cache.key[P] # None /\ cache.source[P] \o <<n>> \in paths
    <3>1. PICK p \in paths : <<P, n>> \in PrimsInPrototypesUsing(p)
      <4>1. \A Q : <<P, n>> # <<Q>>
        BY PathFacts
      <4> QED BY <1>0, <1>6, <1>9, <2>1, <4>1
    <3>2. PICK Q \in Prototypes :
             /\ cache.key[Q] # None
             /\ \/ <<P, n>> = <<Q>> /\ p = cache.source[Q]
                \/ \E m \in Names : <<P, n>> = <<Q, m>> /\ p = cache.source[Q] \o <<m>>
      BY <3>1, UsersOfPaths
    <3>3. \A m : <<P, n>> = <<Q, m>> <=> P = Q /\ n = m
      OBVIOUS
    <3>4. <<P, n>> # <<Q>>
      BY PathFacts
    <3> QED BY <3>1, <3>2, <3>3, <3>4
  <2>2. ASSUME cache.key[P] # None, cache.source[P] \o <<n>> \in paths
        PROVE  <<P, n>> \in AffectedPaths
    <3>1. PICK r \in Roots : cache.source[P] = <<r>> /\ cache.source[P] \o <<n>> = <<r, n>>
      BY <2>2, UnderCases
    <3>2. <<P, n>> \in PrimsInPrototypesUsing(<<r, n>>) /\ <<r, n>> \in paths
      BY <1>1, <2>2, <3>1
    <3> QED BY <3>2 DEF AffectedPaths
  <2> QED BY <2>1, <2>2, TouchedHasKey
<1> QED BY <1>4, <1>5, <1>7, <1>8, <1>9

(* AllPaths: they are what is touched, and none of them is below another.  *)
LEMMA AllFacts ==
  ASSUME IInv, phase # "composing", ChangesAreCurrent
  PROVE  /\ AllPaths \subseteq StagePaths
         /\ <<>> \in AllPaths <=> Touched(<<>>)
         /\ \A o \in Owners : Touched(<<o>>) <=>
              <<o>> \in AllPaths \/ (o \in Roots /\ <<>> \in AllPaths)
         /\ \A o \in Owners, n \in Names : Touched(<<o, n>>) <=>
              <<o, n>> \in AllPaths \/ Touched(<<o>>)
         /\ \A o \in Owners :
              <<o>> \in AllPaths => ~(o \in Roots /\ <<>> \in AllPaths)
         /\ \A o \in Owners, n \in Names :
              <<o, n>> \in AllPaths => ~Touched(<<o>>)
<1>1. /\ AffectedPaths \subseteq StagePaths
      /\ \A t \in Prims : t \in AffectedPaths <=> t \in paths
      /\ \A P \in Prototypes : <<P>> \in AffectedPaths <=> Touched(<<P>>)
      /\ \A P \in Prototypes, n \in Names :
           <<P, n>> \in AffectedPaths \/ Touched(<<P>>) <=> Touched(<<P, n>>)
  BY AffectedFacts
<1>2. /\ Touched(<<>>) <=> <<>> \in paths
      /\ \A o \in Owners : o \notin Prototypes =>
           /\ Touched(<<o>>) <=> <<>> \in paths \/ <<o>> \in paths
           /\ \A n \in Names : Touched(<<o, n>>) <=> Touched(<<o>>) \/ <<o, n>> \in paths
  BY TouchedHasKey
<1>3. AllPaths = IF <<>> \in paths THEN AffectedPaths ELSE Tops(AffectedPaths)
  BY DEF AllPaths, AffectedPaths
<1>4. /\ <<>> \in Prims
      /\ \A r \in Roots : <<r>> \in Prims /\ \A n \in Names : <<r, n>> \in Prims
      /\ \A o \in Owners : o \in Roots <=> o \notin Prototypes
  BY RecomposeAssumption DEF Prims, Owners
<1>5. CASE <<>> \in paths
  <2>1. AllPaths = AffectedPaths /\ paths = {<<>>}
    BY <1>3, <1>5 DEF ChangesAreCurrent
  <2>2. \A r \in Roots : <<r>> \notin AllPaths /\ \A n \in Names : <<r, n>> \notin AllPaths
    BY <1>1, <1>4, <2>1, PathFacts
  <2>3. \A P \in Prototypes : cache.key[P] # None => Touched(<<P>>)
    <3>1. ASSUME NEW P \in Prototypes, cache.key[P] # None
          PROVE  Under(paths, cache.source[P])
      <4>1. cache.source[P] \in Prims
        BY <3>1, SourceOfPrototype DEF Instances
      <4>2. IsPrefix(<<>>, cache.source[P])
        BY <4>1, StageCases, StagePrefixes, PrimCases DEF Owners
      <4> QED BY <1>5, <4>2 DEF Under
    <3> QED BY <3>1, TouchedHasKey
  <2>4. \A P \in Prototypes, n \in Names : <<P, n>> \in AllPaths => cache.key[P] # None /\ FALSE
    <3>1. ASSUME NEW P \in Prototypes, NEW n \in Names, <<P, n>> \in AllPaths PROVE FALSE
      <4>1. PrimsInPrototypesUsing(<<>>) = {}
        BY UsesInPrototypes
      <4>2. <<P, n>> # <<>> /\ \A Q : <<P, n>> # <<Q>>
        BY PathFacts
      <4>3. <<P, n>> \in paths \/ \E p \in paths : <<P, n>> \in PrimsInPrototypesUsing(p)
        BY <2>1, <3>1, <4>2, AffectedFacts
      <4> QED BY <2>1, <4>1, <4>2, <4>3
    <3> QED BY <3>1
  <2> QED BY <1>1, <1>2, <1>4, <1>5, <2>1, <2>2, <2>3, <2>4
<1>6. CASE <<>> \notin paths
  <2>1. <<>> \notin AffectedPaths
    BY <1>1, <1>4, <1>6
  <2>2. /\ AllPaths = Tops(AffectedPaths)
        /\ AffectedPaths \in SUBSET (StagePaths \ {<<>>})
    BY <1>1, <1>3, <1>6, <2>1
  <2>3. /\ AllPaths \subseteq AffectedPaths
        /\ \A o \in Owners : <<o>> \in AllPaths <=> <<o>> \in AffectedPaths
        /\ \A o \in Owners, n \in Names :
             <<o, n>> \in AllPaths <=> <<o, n>> \in AffectedPaths /\ <<o>> \notin AffectedPaths
    BY <2>2, TopsOfStage
  <2>4. \A o \in Owners : <<o>> \in AffectedPaths <=> Touched(<<o>>)
    BY <1>1, <1>2, <1>4, <1>6
  <2>5. \A o \in Owners, n \in Names :
          <<o, n>> \in AffectedPaths \/ Touched(<<o>>) <=> Touched(<<o, n>>)
    BY <1>1, <1>2, <1>4, <1>6
  <2> QED BY <1>1, <1>2, <1>6, <2>1, <2>3, <2>4, <2>5
<1> QED BY <1>5, <1>6

-----------------------------------------------------------------------------
(***************************************************************************)
(* Indexes of a stage composed anew.                                       *)
(***************************************************************************)
(* Nothing is below a child of a root prim.                                *)
LEMMA StatusDeeper ==
  ASSUME NEW s, NEW r, NEW m, NEW n
  PROVE  StatusIn(s, <<r, m>> \o <<n>>) = Absent
<1>1. Len(<<r, m>> \o <<n>>) = 3 /\ <<r, m>> \o <<n>> # <<>>
  BY JoinedDeep
<1> QED BY <1>1 DEF StatusIn

(* StatusDeeper of the scene as it is.                                     *)
LEMMA DeepIsAbsent ==
  ASSUME NEW r, NEW m, NEW n
  PROVE  Status(<<r, m>> \o <<n>>) = Absent
BY StatusDeeper DEF Status

(* A child of a root prim.                                                 *)
LEMMA ChildIsAPrim ==
  ASSUME NEW r \in Roots, NEW n \in Names
  PROVE  <<r, n>> \in Prims
<1>1. <<r, n>> \in {<<q, m>> : q \in Roots, m \in Names}
  OBVIOUS
<1> QED BY <1>1 DEF Prims

(* Which prims a stage composed anew has.                                  *)
LEMMA ComposedWhere ==
  ASSUME IInv, phase # "composing"
  PROVE  /\ FullyComposed[<<>>] # None
         /\ \A o \in Owners : FullyComposed[<<o>>] # None <=> HasOwner(o)
         /\ \A o \in Owners, n \in Names : FullyComposed[<<o, n>>] # None <=>
              HasOwner(o) /\ ~IsClosed(o) /\ Status(UsedIndex(<<o, n>>)) # Absent
         /\ \A u \in StagePaths : FullyComposed[u] # None => UsedIndex(u) \in Prims
<1>1. Before
  BY AtRest
<1>2. None \notin Prim
  BY RecomposeAssumption
<1>3. \A i \in Prims, b \in BOOLEAN : [index |-> i, live |-> TRUE, instance |-> b] # None
  <2>1. ASSUME NEW i \in Prims, NEW b \in BOOLEAN
        PROVE  [index |-> i, live |-> TRUE, instance |-> b] \in Prim
    <3>1. i \in Prims \cup {None} /\ TRUE \in BOOLEAN
      OBVIOUS
    <3> QED BY <3>1 DEF Prim
  <2> QED BY <1>2, <2>1
<1>4. <<>> \in Prims /\ UsedIndex(<<>>) = <<>>
  BY <1>1, UsedIndexes DEF Prims
<1>5. ASSUME NEW o \in Owners, HasOwner(o)
      PROVE  UsedIndex(<<o>>) \in Prims
  BY <1>1, <1>5, UsedIndexes DEF HasOwner, Instances
<1>6. ASSUME NEW o \in Owners, NEW n \in Names, HasOwner(o),
             Status(UsedIndex(<<o, n>>)) # Absent
      PROVE  UsedIndex(<<o, n>>) \in Prims
  <2>1. CASE o \in Prototypes
    <3>1. cache.source[o] \in Prims /\ cache.source[o] # <<>>
      BY <1>6, <2>1, SourceOfPrototype, AtRest DEF HasOwner
    <3>2. UsedIndex(<<o, n>>) = cache.source[o] \o <<n>>
      BY <1>1, <2>1, UsedIndexes
    <3>3. ~\E r \in Roots, m \in Names : cache.source[o] = <<r, m>>
      BY <1>6, <3>2, DeepIsAbsent
    <3>4. PICK r \in Roots : cache.source[o] = <<r>>
      BY <3>1, <3>3, PrimCases
    <3>5. UsedIndex(<<o, n>>) = <<r, n>>
      BY <3>2, <3>4, Joined
    <3> QED BY <3>5, ChildIsAPrim
  <2>2. CASE o \notin Prototypes
    <3>1. o \in Roots /\ UsedIndex(<<o, n>>) = <<o, n>>
      BY <1>1, <2>2, UsedIndexes
    <3> QED BY <3>1, ChildIsAPrim
  <2> QED BY <2>1, <2>2
<1>7. ASSUME NEW o \in Owners PROVE IsClosed(o) \in BOOLEAN
  BY DEF IsClosed
<1>8. FullyComposed[<<>>] # None
  BY <1>1, <1>3, <1>4, FullyFacts
<1>9. ASSUME NEW o \in Owners PROVE FullyComposed[<<o>>] # None <=> HasOwner(o)
  BY <1>1, <1>3, <1>5, <1>7, FullyFacts
<1>10. ASSUME NEW o \in Owners, NEW n \in Names
       PROVE  FullyComposed[<<o, n>>] # None <=>
                HasOwner(o) /\ ~IsClosed(o) /\ Status(UsedIndex(<<o, n>>)) # Absent
  <2>1. (Status(UsedIndex(<<o, n>>)) \in Keys) \in BOOLEAN
    OBVIOUS
  <2> QED BY <1>1, <1>3, <1>6, <2>1, FullyFacts
<1> QED BY <1>4, <1>5, <1>6, <1>8, <1>9, <1>10, StageCases

(* Every prim of a stage composed anew has an index, and is built from it. *)
LEMMA ComposedPrims ==
  ASSUME IInv, phase # "composing", IndexesAreFound,
         NEW u \in StagePaths, FullyComposed[u] # None
  PROVE  /\ UsedIndex(u) \in Prims
         /\ PrimAt(u, UsedIndex(u)) = FullyComposed[u]
<1>1. /\ Before /\ todo = {} /\ Coming = Instances
      /\ \A p \in Instances : Status(p) \in Keys /\ Status(p) # Absent
  BY AtRest, AbsentFacts
<1>2. /\ <<>> \in indexes
      /\ \A r \in Roots :
           /\ Status(<<r>>) # Absent => <<r>> \in indexes
           /\ \A n \in Names : Status(<<r, n>>) # Absent =>
                <<r, n>> \in indexes \/ (Status(<<r>>) \in Keys /\ ~Opens(<<r>>))
  BY <1>1 DEF IndexesAreFound
<1>3. indexes \subseteq Prims
  BY DEF IInv, TypeOK
<1>4. /\ FullyComposed[<<>>] = [index |-> <<>>, live |-> TRUE, instance |-> FALSE]
      /\ \A o \in Owners :
           FullyComposed[<<o>>] =
             IF HasOwner(o)
               THEN [index |-> UsedIndex(<<o>>), live |-> TRUE, instance |-> IsClosed(o)]
               ELSE None
      /\ \A o \in Owners, n \in Names :
           FullyComposed[<<o, n>>] =
             IF HasOwner(o) /\ ~IsClosed(o) /\ Status(UsedIndex(<<o, n>>)) # Absent
               THEN [index |-> UsedIndex(<<o, n>>), live |-> TRUE,
                     instance |-> Status(UsedIndex(<<o, n>>)) \in Keys]
               ELSE None
  BY <1>1, FullyFacts
<1>5. /\ UsedIndex(<<>>) = <<>>
      /\ \A o \in Owners : o \notin Prototypes =>
           /\ o \in Roots /\ <<o>> \in Prims /\ UsedIndex(<<o>>) = <<o>>
           /\ \A n \in Names : UsedIndex(<<o, n>>) = <<o, n>>
      /\ \A P \in Prototypes : cache.key[P] # None =>
           /\ cache.source[P] \in Instances
           /\ UsedIndex(<<P>>) = cache.source[P]
      /\ \A P \in Prototypes, n \in Names :
           UsedIndex(<<P, n>>) = cache.source[P] \o <<n>>
  BY <1>1, UsedIndexes
<1>6. ASSUME NEW P \in Prototypes, cache.key[P] # None
      PROVE  /\ cache.source[P] \in Instances /\ Status(cache.source[P]) \in Keys
             /\ cache.source[P] \in Prims /\ cache.source[P] # <<>> /\ Opens(cache.source[P])
  BY <1>6, SourceOfPrototype, AtRest
<1>7. ASSUME NEW p \in Instances PROVE p \in indexes
  <2>1. p \in Prims /\ p # <<>> /\ Status(p) # Absent
    BY <1>1, <1>7, AtRest
  <2>2. ASSUME NEW r \in Roots, NEW m \in Names, p = <<r, m>> PROVE p \in indexes
    <3>1. Status(<<r>>) \in Keys => Opens(<<r>>)
      BY <1>1, <1>7, <2>2 DEF IInv, NestedIsOpen
    <3> QED BY <1>2, <2>1, <2>2, <3>1
  <2> QED BY <1>2, <2>1, <2>2, PrimCases
<1>8. CASE u = <<>>
  <2>1. UsedIndex(u) \in indexes /\ ~(Status(<<>>) \in Keys)
    BY <1>2, <1>5, <1>8, RootIsPlain
  <2> QED BY <1>3, <1>4, <1>5, <1>8, <2>1 DEF PrimAt
<1>9. ASSUME NEW o \in Owners, u = <<o>>
      PROVE  /\ UsedIndex(u) \in indexes
             /\ PrimAt(u, UsedIndex(u)) = FullyComposed[u]
  <2>1. HasOwner(o)
    BY <1>9, ComposedWhere
  <2>2. UsedIndex(u) \in indexes
    <3>1. CASE o \in Prototypes
      BY <1>5, <1>7, <1>9, <2>1, <3>1 DEF HasOwner
    <3>2. CASE o \notin Prototypes
      BY <1>2, <1>5, <1>9, <2>1, <3>2 DEF HasOwner
    <3> QED BY <3>1, <3>2
  <2>3. (Status(UsedIndex(u)) \in Keys /\ ~IsPrototypePath(u)) = IsClosed(o)
    BY <1>5, <1>9, OwnerFacts DEF IsClosed
  <2>4. PrimAt(u, UsedIndex(u)) = [index |-> UsedIndex(<<o>>), live |-> TRUE,
                                   instance |-> IsClosed(o)]
    BY <1>9, <2>2, <2>3 DEF PrimAt
  <2> QED BY <1>4, <1>9, <2>1, <2>2, <2>4
<1>10. ASSUME NEW o \in Owners, NEW n \in Names, u = <<o, n>>
       PROVE  /\ UsedIndex(u) \in indexes
              /\ PrimAt(u, UsedIndex(u)) = FullyComposed[u]
  <2>1. HasOwner(o) /\ ~IsClosed(o) /\ Status(UsedIndex(u)) # Absent
    BY <1>10, ComposedWhere
  <2>2. UsedIndex(u) \in indexes
    <3>1. CASE o \in Prototypes
      <4>1. cache.key[o] # None
        BY <2>1, <3>1 DEF HasOwner
      <4>2. UsedIndex(u) = cache.source[o] \o <<n>>
        BY <1>5, <1>10, <3>1
      <4>3. PICK r \in Roots : cache.source[o] = <<r>>
        BY <1>6, <2>1, <3>1, <4>1, <4>2, DeepIsAbsent, PrimCases
      <4>4. UsedIndex(u) = <<r, n>>
        BY <4>2, <4>3, Joined
      <4> QED BY <1>2, <1>6, <2>1, <3>1, <4>1, <4>3, <4>4
    <3>2. CASE o \notin Prototypes
      BY <1>2, <1>5, <1>10, <2>1, <3>2 DEF IsClosed
    <3> QED BY <3>1, <3>2
  <2>3. (Status(UsedIndex(u)) \in Keys /\ ~IsPrototypePath(u))
          = (Status(UsedIndex(u)) \in Keys)
    BY <1>10, OwnerFacts
  <2>4. PrimAt(u, UsedIndex(u)) = [index |-> UsedIndex(<<o, n>>), live |-> TRUE,
                                   instance |-> Status(UsedIndex(<<o, n>>)) \in Keys]
    BY <1>10, <2>2, <2>3 DEF PrimAt
  <2> QED BY <1>4, <1>10, <2>1, <2>2, <2>4
<1> QED BY <1>3, <1>8, <1>9, <1>10, StageCases

(* prototypeToPrimIndexMap agrees with the cache.                          *)
LEMMA IndexForFacts ==
  ASSUME IInv, phase # "composing", ChangesAreCurrent, NEW s \in StagePaths
  PROVE  IndexFor(s) = UsedIndex(s)
<1>1. CASE IsInPrototype(s)
  <2>1. s # <<>> /\ s[1] \in Prototypes
    BY <1>1 DEF IsInPrototype
  <2>2. /\ changes.new[s[1]] \in {None, cache.source[s[1]]}
        /\ changes.changed[s[1]] \in {None, cache.source[s[1]]}
    BY <2>1 DEF ChangesAreCurrent
  <2> QED BY <1>1, <2>1, <2>2 DEF IndexFor, UsedIndex
<1>2. CASE ~IsInPrototype(s)
  BY <1>2 DEF IndexFor, UsedIndex, IsInPrototype
<1> QED BY <1>1, <1>2

IndexBelow(s, t) == IndexFor(s) \o SubSeq(t, Len(s) + 1, Len(t))

(* Down from an affected path, each prim gets the index it is to use.      *)
LEMMA IndexesBelow ==
  ASSUME IInv, phase # "composing", ChangesAreCurrent, IndexesAreFound
  PROVE  /\ \A s \in StagePaths : FullyComposed[s] # None => IndexBelow(s, s) = UsedIndex(s)
         /\ \A r \in Roots :
              /\ IndexBelow(<<>>, <<r>>) = UsedIndex(<<r>>)
              /\ \A n \in Names : IndexBelow(<<>>, <<r, n>>) = UsedIndex(<<r, n>>)
         /\ \A o \in Owners, n \in Names : FullyComposed[<<o>>] # None =>
              IndexBelow(<<o>>, <<o, n>>) = UsedIndex(<<o, n>>)
<1>0. /\ Before /\ \A s \in StagePaths : IndexFor(s) = UsedIndex(s)
      /\ \A r \in Roots : r \in Owners /\ r \notin Prototypes
  BY AtRest, IndexForFacts, RecomposeAssumption DEF Owners
<1>1. ASSUME NEW s \in StagePaths, FullyComposed[s] # None
      PROVE  IndexBelow(s, s) = UsedIndex(s)
  <2>1. UsedIndex(s) \in Prims
    BY <1>1, ComposedPrims
  <2>2. SubSeq(s, Len(s) + 1, Len(s)) = <<>>
    <3>1. Len(s) \in Nat
      BY StageCases, PathFacts
    <3>2. Len(s) + 1 \in Int /\ Len(s) \in Int /\ Len(s) < Len(s) + 1
      BY <3>1
    <3> QED BY <3>2, SubSeqEmpty
  <2>3. UsedIndex(s) \o <<>> = UsedIndex(s)
    <3>1. CASE UsedIndex(s) = <<>>
      <4>1. <<>> \o <<>> = <<>>
        BY ConcatEmptySeq, EmptySeq
      <4> QED BY <3>1, <4>1
    <3>2. ASSUME NEW r \in Roots, UsedIndex(s) = <<r>>
          PROVE  UsedIndex(s) \o <<>> = UsedIndex(s)
      <4>1. <<r>> \o <<>> = <<r>>
        BY <1>1, Joined
      <4> QED BY <3>2, <4>1
    <3>3. ASSUME NEW r \in Roots, NEW n \in Names, UsedIndex(s) = <<r, n>>
          PROVE  UsedIndex(s) \o <<>> = UsedIndex(s)
      <4>1. <<r, n>> \o <<>> = <<r, n>>
        BY Joined
      <4> QED BY <3>3, <4>1
    <3> QED BY <2>1, <3>1, <3>2, <3>3, PrimCases
  <2> QED BY <1>0, <2>2, <2>3 DEF IndexBelow
<1>2. ASSUME NEW r \in Roots
      PROVE  /\ IndexBelow(<<>>, <<r>>) = UsedIndex(<<r>>)
             /\ \A n \in Names : IndexBelow(<<>>, <<r, n>>) = UsedIndex(<<r, n>>)
  <2>1. IndexFor(<<>>) = <<>> /\ Len(<<>>) + 1 = 1 /\ Len(<<r>>) = 1
    BY <1>0, StageCases, UsedIndexes, PathFacts
  <2>2. SubSeq(<<r>>, 1, 1) = <<r>>
    BY <1>2, Parts
  <2>3. <<>> \o <<r>> = <<r>>
    <3>1. <<r>> \in Seq({r})
      OBVIOUS
    <3> QED BY <3>1, ConcatEmptySeq
  <2>4. ASSUME NEW n \in Names
        PROVE  IndexBelow(<<>>, <<r, n>>) = <<r, n>>
    <3>1. SubSeq(<<r, n>>, 1, 2) = <<r, n>> /\ Len(<<r, n>>) = 2
      BY Parts
    <3>2. <<>> \o <<r, n>> = <<r, n>>
      <4>1. <<r, n>> \in Seq({r, n})
        OBVIOUS
      <4> QED BY <4>1, ConcatEmptySeq
    <3> QED BY <2>1, <3>1, <3>2 DEF IndexBelow
  <2>5. UsedIndex(<<r>>) = <<r>> /\ \A n \in Names : UsedIndex(<<r, n>>) = <<r, n>>
    BY <1>0, UsedIndexes
  <2>6. IndexBelow(<<>>, <<r>>) = <<r>>
    BY <2>1, <2>2, <2>3 DEF IndexBelow
  <2> QED BY <2>4, <2>5, <2>6
<1>3. ASSUME NEW o \in Owners, NEW n \in Names, FullyComposed[<<o>>] # None
      PROVE  IndexBelow(<<o>>, <<o, n>>) = UsedIndex(<<o, n>>)
  <2>1. IndexFor(<<o>>) = UsedIndex(<<o>>) /\ HasOwner(o)
    BY <1>0, <1>3, StageCases, ComposedWhere
  <2>2. Len(<<o>>) + 1 = 2 /\ Len(<<o, n>>) = 2
    OBVIOUS
  <2>3. SubSeq(<<o, n>>, 2, 2) = <<n>>
    <3>1. Tail(<<o, n>>) = <<n>> /\ <<o, n>> \in Seq({o, n}) /\ <<o, n>> # <<>>
      BY Joined
    <3> QED BY <2>2, <3>1, TailIsSubSeq
  <2>4. IndexBelow(<<o>>, <<o, n>>) = UsedIndex(<<o>>) \o <<n>>
    BY <2>1, <2>2, <2>3 DEF IndexBelow
  <2>5. CASE o \in Prototypes
    BY <1>0, <2>1, <2>4, <2>5, UsedIndexes DEF HasOwner
  <2>6. CASE o \notin Prototypes
    <3>1. UsedIndex(<<o>>) = <<o>> /\ UsedIndex(<<o, n>>) = <<o, n>>
      BY <1>0, <2>6, UsedIndexes
    <3>2. <<o>> \o <<n>> = <<o, n>>
      BY Joined
    <3> QED BY <2>4, <3>1, <3>2
  <2> QED BY <2>5, <2>6
<1> QED BY <1>1, <1>2, <1>3

-----------------------------------------------------------------------------
(***************************************************************************)
(* What the composition of a subtree gives.                                *)
(***************************************************************************)
(* One affected path is above a prim, if any.                              *)
LEMMA OneIsAbove ==
  ASSUME IInv, phase # "composing", ChangesAreCurrent, NEW t \in StagePaths
  PROVE  /\ (\E s \in AllPaths : Below(s, t)) <=> Touched(t)
         /\ \A s, u \in AllPaths : Below(s, t) /\ Below(u, t) => s = u
<1>1. /\ AllPaths \subseteq StagePaths
      /\ <<>> \in AllPaths <=> Touched(<<>>)
      /\ \A o \in Owners : Touched(<<o>>) <=>
           <<o>> \in AllPaths \/ (o \in Roots /\ <<>> \in AllPaths)
      /\ \A o \in Owners, n \in Names : Touched(<<o, n>>) <=>
           <<o, n>> \in AllPaths \/ Touched(<<o>>)
      /\ \A o \in Owners :
           <<o>> \in AllPaths => ~(o \in Roots /\ <<>> \in AllPaths)
      /\ \A o \in Owners, n \in Names :
           <<o, n>> \in AllPaths => ~Touched(<<o>>)
  BY AllFacts
<1>2. ASSUME NEW s \in StagePaths
      PROVE  /\ Below(s, <<>>) <=> s = <<>>
             /\ \A o \in Owners : Below(s, <<o>>) <=> s = <<o>> \/ (s = <<>> /\ o \in Roots)
             /\ \A o \in Owners, n \in Names :
                  Below(s, <<o, n>>) <=> s = <<o, n>> \/ s = <<o>> \/ (s = <<>> /\ o \in Roots)
  <2>1. \A o, n : <<o, n>>[1] = o /\ <<o, n>> # <<>>
    BY OwnerFacts, PathFacts
  <2>2. \A o : <<o>>[1] = o /\ <<o>> # <<>>
    BY OwnerFacts, PathFacts
  <2> QED BY <2>1, <2>2, StagePrefixes DEF Below
<1>3. CASE t = <<>>
  BY <1>1, <1>2, <1>3
<1>4. ASSUME NEW o \in Owners, t = <<o>>
      PROVE  /\ (\E s \in AllPaths : Below(s, t)) <=> Touched(t)
             /\ \A s, u \in AllPaths : Below(s, t) /\ Below(u, t) => s = u
  BY <1>1, <1>2, <1>4
<1>5. ASSUME NEW o \in Owners, NEW n \in Names, t = <<o, n>>
      PROVE  /\ (\E s \in AllPaths : Below(s, t)) <=> Touched(t)
             /\ \A s, u \in AllPaths : Below(s, t) /\ Below(u, t) => s = u
  <2>1. /\ Touched(<<o>>) <=> <<o>> \in AllPaths \/ (o \in Roots /\ <<>> \in AllPaths)
        /\ Touched(<<o, n>>) <=> <<o, n>> \in AllPaths \/ Touched(<<o>>)
        /\ <<o>> \in AllPaths => ~(o \in Roots /\ <<>> \in AllPaths)
        /\ <<o, n>> \in AllPaths => ~Touched(<<o>>)
    BY <1>1
  <2>2. \A s \in AllPaths :
          Below(s, t) <=> s = <<o, n>> \/ s = <<o>> \/ (s = <<>> /\ o \in Roots)
    BY <1>1, <1>2, <1>5
  <2> QED BY <1>5, <2>1, <2>2
<1> QED BY <1>3, <1>4, <1>5, StageCases

(* What the composition of a subtree gives, step by step down.             *)
Visited(s, t) ==
  \A m \in Len(s) + 1 .. Len(t) :
    /\ Exposes(PrimAt(SubSeq(t, 1, m - 1), IndexBelow(s, SubSeq(t, 1, m - 1))))
    /\ Status(IndexBelow(s, SubSeq(t, 1, m))) # Absent

(* What ComposeSubtrees gives at a place.                                  *)
LEMMA SubtreeAt ==
  ASSUME NEW map, NEW tops, NEW t \in StagePaths
  PROVE  /\ (\A s \in tops : ~Below(s, t)) => ComposeSubtrees(map, tops)[t] = map[t]
         /\ \A s \in tops :
              Below(s, t) /\ (\A u \in tops : Below(u, t) => u = s) =>
                ComposeSubtrees(map, tops)[t] =
                  IF Visited(s, t) THEN PrimAt(t, IndexBelow(s, t)) ELSE None
<1> DEFINE top == CHOOSE s \in tops : Below(s, t)
<1>1. ComposeSubtrees(map, tops)[t] =
        IF \E s \in tops : Below(s, t)
          THEN IF Visited(top, t) THEN PrimAt(t, IndexBelow(top, t)) ELSE None
          ELSE map[t]
  BY DEF ComposeSubtrees, Visited, IndexBelow
<1>2. (\E s \in tops : Below(s, t)) => top \in tops /\ Below(top, t)
  OBVIOUS
<1>. HIDE DEF top
<1> QED BY <1>1, <1>2

(* A subtree is composed as the whole stage would be.                      *)
LEMMA VisitedFacts ==
  ASSUME IInv, phase # "composing", ChangesAreCurrent, IndexesAreFound,
         NEW s \in StagePaths, NEW t \in StagePaths, Below(s, t), FullyComposed[s] # None
  PROVE  (IF Visited(s, t) THEN PrimAt(t, IndexBelow(s, t)) ELSE None) = FullyComposed[t]
<1>1. Before
  BY AtRest
<1>2. ASSUME NEW u \in StagePaths, FullyComposed[u] # None
      PROVE  /\ PrimAt(u, UsedIndex(u)) = FullyComposed[u]
             /\ IndexBelow(u, u) = UsedIndex(u)
  BY <1>2, ComposedPrims, IndexesBelow
<1>3. /\ \A o \in Owners : FullyComposed[<<o>>] # None <=> HasOwner(o)
      /\ \A o \in Owners, n \in Names : FullyComposed[<<o, n>>] # None <=>
           HasOwner(o) /\ ~IsClosed(o) /\ Status(UsedIndex(<<o, n>>)) # Absent
      /\ FullyComposed[<<>>] # None
  BY ComposedWhere
<1>4. /\ Exposes(FullyComposed[<<>>])
      /\ \A o \in Owners : FullyComposed[<<o>>] # None =>
           (Exposes(FullyComposed[<<o>>]) <=> ~IsClosed(o))
  <2>1. <<>> # None /\ \A o \in Owners : FullyComposed[<<o>>] # None => UsedIndex(<<o>>) # None
    <3>1. <<>> \in Prims /\ None \notin Prims
      BY RecomposeAssumption DEF Prims
    <3> QED BY <3>1, StageCases, ComposedWhere
  <2>2. FullyComposed[<<>>] = [index |-> <<>>, live |-> TRUE, instance |-> FALSE]
    BY <1>1, FullyFacts
  <2>3. ASSUME NEW o \in Owners, FullyComposed[<<o>>] # None
        PROVE  Exposes(FullyComposed[<<o>>]) <=> ~IsClosed(o)
    <3>1. FullyComposed[<<o>>] =
            [index |-> UsedIndex(<<o>>), live |-> TRUE, instance |-> IsClosed(o)]
      BY <1>1, <1>3, <2>3, FullyFacts
    <3> QED BY <2>1, <2>3, <3>1 DEF Exposes
  <2> QED BY <1>3, <2>1, <2>2, <2>3 DEF Exposes
<1>5. CASE s = t
  <2>1. Len(s) \in Nat
    BY StageCases, PathFacts
  <2>2. \A m : m \notin Len(s) + 1 .. Len(t)
    BY <1>5, <2>1
  <2>3. Visited(s, t)
    BY <2>2 DEF Visited
  <2> QED BY <1>2, <1>5, <2>3
<1>6. ASSUME NEW r \in Roots, s = <<>>, t = <<r>>
      PROVE  (IF Visited(s, t) THEN PrimAt(t, IndexBelow(s, t)) ELSE None) = FullyComposed[t]
  <2>1. Len(s) + 1 = 1 /\ Len(t) = 1 /\ 1 - 1 = 0 /\ \A m : m \in 1 .. 1 <=> m = 1
    BY <1>6, PathFacts
  <2>2. SubSeq(t, 1, 1) = t /\ SubSeq(t, 1, 0) = <<>>
    BY <1>6, Parts
  <2>3. /\ IndexBelow(s, s) = UsedIndex(s) /\ IndexBelow(s, t) = UsedIndex(t)
        /\ PrimAt(s, UsedIndex(s)) = FullyComposed[s]
    BY <1>2, <1>6, IndexesBelow
  <2>4. Visited(s, t) <=> Status(UsedIndex(t)) # Absent
    BY <1>4, <1>6, <2>1, <2>2, <2>3 DEF Visited
  <2>5. r \in Owners /\ r \notin Prototypes /\ UsedIndex(t) = t
    BY <1>1, <1>6, UsedIndexes, RecomposeAssumption DEF Owners
  <2>6. FullyComposed[t] # None <=> Status(UsedIndex(t)) # Absent
    BY <1>3, <1>6, <2>5 DEF HasOwner
  <2> QED BY <1>2, <2>3, <2>4, <2>6
<1>7. ASSUME NEW o \in Owners, NEW n \in Names, s = <<o>>, t = <<o, n>>
      PROVE  (IF Visited(s, t) THEN PrimAt(t, IndexBelow(s, t)) ELSE None) = FullyComposed[t]
  <2>1. Len(s) + 1 = 2 /\ Len(t) = 2 /\ 2 - 1 = 1 /\ \A m : m \in 2 .. 2 <=> m = 2
    BY <1>7, PathFacts
  <2>2. SubSeq(t, 1, 2) = t /\ SubSeq(t, 1, 1) = s
    BY <1>7, Parts
  <2>3. /\ IndexBelow(s, s) = UsedIndex(s) /\ IndexBelow(s, t) = UsedIndex(t)
        /\ PrimAt(s, UsedIndex(s)) = FullyComposed[s]
    BY <1>2, <1>7, IndexesBelow
  <2>4. Visited(s, t) <=> ~IsClosed(o) /\ Status(UsedIndex(t)) # Absent
    BY <1>4, <1>7, <2>1, <2>2, <2>3 DEF Visited
  <2>5. FullyComposed[t] # None <=> ~IsClosed(o) /\ Status(UsedIndex(t)) # Absent
    BY <1>3, <1>7
  <2> QED BY <1>2, <2>3, <2>4, <2>5
<1>8. ASSUME NEW r \in Roots, NEW n \in Names, s = <<>>, t = <<r, n>>
      PROVE  (IF Visited(s, t) THEN PrimAt(t, IndexBelow(s, t)) ELSE None) = FullyComposed[t]
  <2>0. r \in Owners /\ r \notin Prototypes /\ UsedIndex(<<r>>) = <<r>>
        /\ <<r>> \in StagePaths
    BY <1>1, UsedIndexes, StageCases, RecomposeAssumption DEF Owners
  <2>1. /\ Len(s) + 1 = 1 /\ Len(t) = 2 /\ 1 - 1 = 0 /\ 2 - 1 = 1
        /\ \A m : m \in 1 .. 2 <=> m = 1 \/ m = 2
    BY <1>8, PathFacts
  <2>2. SubSeq(t, 1, 2) = t /\ SubSeq(t, 1, 1) = <<r>> /\ SubSeq(t, 1, 0) = <<>>
    BY <1>8, Parts
  <2>3. /\ IndexBelow(s, s) = UsedIndex(s) /\ IndexBelow(s, t) = UsedIndex(t)
        /\ PrimAt(s, UsedIndex(s)) = FullyComposed[s]
        /\ IndexBelow(s, <<r>>) = UsedIndex(<<r>>)
    BY <1>2, <1>8, IndexesBelow
  <2>4. Visited(s, t) <=> /\ Status(UsedIndex(<<r>>)) # Absent
                          /\ Exposes(PrimAt(<<r>>, UsedIndex(<<r>>)))
                          /\ Status(UsedIndex(t)) # Absent
    BY <1>4, <1>8, <2>1, <2>2, <2>3 DEF Visited
  <2>5. Status(UsedIndex(<<r>>)) # Absent <=> FullyComposed[<<r>>] # None
    BY <1>3, <2>0 DEF HasOwner
  <2>6. FullyComposed[<<r>>] # None => PrimAt(<<r>>, UsedIndex(<<r>>)) = FullyComposed[<<r>>]
    BY <1>2, <2>0
  <2>7. Visited(s, t) <=> FullyComposed[t] # None
    BY <1>3, <1>4, <1>8, <2>0, <2>4, <2>5, <2>6
  <2> QED BY <1>2, <2>3, <2>7
<1>9. \/ s = t \/ (\E r \in Roots : s = <<>> /\ t = <<r>>)
      \/ (\E o \in Owners, n \in Names : s = <<o>> /\ t = <<o, n>>)
      \/ (\E r \in Roots, n \in Names : s = <<>> /\ t = <<r, n>>)
  <2>1. \A o, n : <<o, n>>[1] = o /\ <<o, n>> # <<>>
    BY OwnerFacts, PathFacts
  <2>2. \A o : <<o>>[1] = o /\ <<o>> # <<>>
    BY OwnerFacts, PathFacts
  <2>3. CASE t = <<>>
    BY <2>3, StagePrefixes DEF Below
  <2>4. ASSUME NEW o \in Owners, t = <<o>>
        PROVE  s = t \/ (s = <<>> /\ o \in Roots)
    BY <2>2, <2>4, StagePrefixes DEF Below
  <2>5. ASSUME NEW o \in Owners, NEW n \in Names, t = <<o, n>>
        PROVE  s = t \/ s = <<o>> \/ (s = <<>> /\ o \in Roots)
    BY <2>1, <2>5, StagePrefixes DEF Below
  <2> QED BY <2>3, <2>4, <2>5, StageCases
<1> QED BY <1>5, <1>6, <1>7, <1>8, <1>9

-----------------------------------------------------------------------------
(***************************************************************************)
(* What _ComposeChildren of the parents does.                              *)
(***************************************************************************)
(* What _ComposeChildren finds under a prim that is as it should be.       *)
LEMMA KnownChildFacts ==
  ASSUME IInv, phase # "composing"
  PROVE  /\ primMap[<<>>] = FullyComposed[<<>>] =>
              \A r \in Roots : KnownChild(primMap, <<r>>) <=> FullyComposed[<<r>>] # None
         /\ \A o \in Owners :
              primMap[<<o>>] = FullyComposed[<<o>>] /\ FullyComposed[<<o>>] # None =>
                \A n \in Names :
                  KnownChild(primMap, <<o, n>>) <=> FullyComposed[<<o, n>>] # None
<1>1. Before
  BY AtRest
<1>2. /\ <<>> # None /\ \A o \in Owners : FullyComposed[<<o>>] # None => UsedIndex(<<o>>) # None
      /\ FullyComposed[<<>>] # None
      /\ \A o \in Owners : FullyComposed[<<o>>] # None <=> HasOwner(o)
      /\ \A o \in Owners, n \in Names : FullyComposed[<<o, n>>] # None <=>
           HasOwner(o) /\ ~IsClosed(o) /\ Status(UsedIndex(<<o, n>>)) # Absent
  <2>1. <<>> \in Prims /\ None \notin Prims
    BY RecomposeAssumption DEF Prims
  <2> QED BY <2>1, StageCases, ComposedWhere
<1>3. ASSUME primMap[<<>>] = FullyComposed[<<>>], NEW r \in Roots
      PROVE  KnownChild(primMap, <<r>>) <=> FullyComposed[<<r>>] # None
  <2>1. primMap[<<>>] = [index |-> <<>>, live |-> TRUE, instance |-> FALSE]
    BY <1>1, <1>3, FullyFacts
  <2>2. Front(<<r>>) = <<>> /\ Last(<<r>>) = r /\ Append(<<>>, r) = <<r>>
    BY Joined
  <2>3. KnownChild(primMap, <<r>>) <=> Status(<<r>>) # Absent
    <3>1. primMap[Front(<<r>>)] = [index |-> <<>>, live |-> TRUE, instance |-> FALSE]
      BY <2>1, <2>2
    <3>2. Append(primMap[Front(<<r>>)].index, Last(<<r>>)) = <<r>>
      BY <2>2, <3>1
    <3>3. Exposes(primMap[Front(<<r>>)])
      BY <1>2, <1>3, <2>1, <2>2, <3>1 DEF Exposes
    <3> QED BY <3>2, <3>3 DEF KnownChild
  <2>4. r \in Owners /\ r \notin Prototypes
    BY RecomposeAssumption DEF Owners
  <2> QED BY <1>2, <2>3, <2>4 DEF HasOwner
<1>4. ASSUME NEW o \in Owners, primMap[<<o>>] = FullyComposed[<<o>>],
             FullyComposed[<<o>>] # None, NEW n \in Names
      PROVE  KnownChild(primMap, <<o, n>>) <=> FullyComposed[<<o, n>>] # None
  <2>1. primMap[<<o>>] =
          [index |-> UsedIndex(<<o>>), live |-> TRUE, instance |-> IsClosed(o)]
    BY <1>1, <1>2, <1>4, FullyFacts
  <2>2. Front(<<o, n>>) = <<o>> /\ Last(<<o, n>>) = n
    BY Joined
  <2>3. Append(UsedIndex(<<o>>), n) = UsedIndex(<<o, n>>)
    <3>1. CASE o \in Prototypes
      <4>1. UsedIndex(<<o>>) = cache.source[o] /\ UsedIndex(<<o, n>>) = cache.source[o] \o <<n>>
        BY <1>1, <1>2, <1>4, <3>1, UsedIndexes DEF HasOwner
      <4>2. cache.source[o] \in Prims /\ cache.source[o] # <<>>
        BY <1>2, <1>4, <3>1, SourceOfPrototype, AtRest DEF HasOwner
      <4>3. ASSUME NEW r \in Roots, cache.source[o] = <<r>>
            PROVE  Append(cache.source[o], n) = cache.source[o] \o <<n>>
        BY <4>3, Joined
      <4>4. ASSUME NEW r \in Roots, NEW m \in Names, cache.source[o] = <<r, m>>
            PROVE  Append(cache.source[o], n) = cache.source[o] \o <<n>>
        BY <4>4, JoinedDeep
      <4> QED BY <4>1, <4>2, <4>3, <4>4, PrimCases
    <3>2. CASE o \notin Prototypes
      <4>1. UsedIndex(<<o>>) = <<o>> /\ UsedIndex(<<o, n>>) = <<o, n>>
        BY <1>1, <3>2, UsedIndexes
      <4>2. Append(<<o>>, n) = <<o, n>>
        BY Joined
      <4> QED BY <4>1, <4>2
    <3> QED BY <3>1, <3>2
  <2>4. KnownChild(primMap, <<o, n>>) <=>
          ~IsClosed(o) /\ Status(UsedIndex(<<o, n>>)) # Absent
    <3>1. primMap[Front(<<o, n>>)] =
            [index |-> UsedIndex(<<o>>), live |-> TRUE, instance |-> IsClosed(o)]
      BY <2>1, <2>2
    <3>2. Append(primMap[Front(<<o, n>>)].index, Last(<<o, n>>)) = UsedIndex(<<o, n>>)
      BY <2>2, <2>3, <3>1
    <3>3. primMap[Front(<<o, n>>)] # None
      BY <1>4, <2>2
    <3>4. Exposes(primMap[Front(<<o, n>>)]) <=> ~IsClosed(o)
      <4>1. UsedIndex(<<o>>) # None
        BY <1>2, <1>4
      <4> QED BY <3>1, <3>3, <4>1 DEF Exposes
    <3> QED BY <3>2, <3>4 DEF KnownChild
  <2> QED BY <1>2, <1>4, <2>4
<1> QED BY <1>3, <1>4

(* What RefreshParents does to the prims of the stage, by their place.     *)
IsRefreshed(q) == q \in ParentsOf(AllPaths) /\ primMap[q] # None

Appears(s) == s # <<>> /\ ~IsPrototypePath(s) /\ IsRefreshed(Front(s))

Goes(s) == Appears(s) /\ ~KnownChild(primMap, s)

Refreshed == RefreshParents(AllPaths)

(* RefreshParents, place by place.                                         *)
LEMMA RefreshCases ==
  /\ Refreshed[<<>>] = primMap[<<>>]
  /\ \A o \in Owners : Refreshed[<<o>>] =
       IF Goes(<<o>>) THEN None
       ELSE IF primMap[<<o>>] = None /\ (Appears(<<o>>) \/ (o \in Prototypes /\ <<o>> \in AllPaths))
         THEN Instantiated ELSE primMap[<<o>>]
  /\ \A o \in Owners, n \in Names : Refreshed[<<o, n>>] =
       IF Goes(<<o>>) \/ Goes(<<o, n>>) THEN None
       ELSE IF primMap[<<o, n>>] = None /\ Appears(<<o, n>>)
         THEN Instantiated ELSE primMap[<<o, n>>]
<1>1. \A s \in StagePaths : Refreshed[s] =
        IF \E t \in Prefixes(s) \ {<<>>} : Goes(t) THEN None
        ELSE IF primMap[s] = None /\ (Appears(s) \/ s \in AllPaths \cap PrototypePaths)
          THEN Instantiated
        ELSE primMap[s]
  BY DEF Refreshed, RefreshParents, Goes, Appears, IsRefreshed
<1>2. \A o \in Owners : <<o>> \in PrototypePaths <=> o \in Prototypes
  BY OwnerFacts DEF IsPrototypePath
<1>3. <<>> \notin PrototypePaths /\ \A o, n : <<o, n>> \notin PrototypePaths
  BY OwnerFacts DEF IsPrototypePath
<1>4. Refreshed[<<>>] = primMap[<<>>]
  <2>1. <<>> \in StagePaths /\ Prefixes(<<>>) \ {<<>>} = {} /\ ~Appears(<<>>)
    BY StageCases, PrefixSets DEF Appears
  <2> QED BY <1>1, <1>3, <2>1
<1>5. ASSUME NEW o \in Owners
      PROVE  Refreshed[<<o>>] =
               IF Goes(<<o>>) THEN None
               ELSE IF primMap[<<o>>] = None
                         /\ (Appears(<<o>>) \/ (o \in Prototypes /\ <<o>> \in AllPaths))
                 THEN Instantiated ELSE primMap[<<o>>]
  <2>1. <<o>> \in StagePaths /\ Prefixes(<<o>>) \ {<<>>} = {<<o>>}
    <3>1. Prefixes(<<o>>) = {<<>>, <<o>>} /\ <<o>> # <<>>
      BY PrefixSets, PathFacts
    <3> QED BY <3>1, StageCases
  <2> QED BY <1>1, <1>2, <2>1
<1>6. ASSUME NEW o \in Owners, NEW n \in Names
      PROVE  Refreshed[<<o, n>>] =
               IF Goes(<<o>>) \/ Goes(<<o, n>>) THEN None
               ELSE IF primMap[<<o, n>>] = None /\ Appears(<<o, n>>)
                 THEN Instantiated ELSE primMap[<<o, n>>]
  <2>1. <<o, n>> \in StagePaths /\ Prefixes(<<o, n>>) \ {<<>>} = {<<o>>, <<o, n>>}
    <3>1. Prefixes(<<o, n>>) = {<<>>, <<o>>, <<o, n>>} /\ <<o>> # <<>> /\ <<o, n>> # <<>>
      BY PrefixSets, PathFacts
    <3> QED BY <3>1, StageCases
  <2> QED BY <1>1, <1>3, <2>1
<1> QED BY <1>4, <1>5, <1>6

(* Only what is as it should be is refreshed.                              *)
LEMMA RefreshedParents ==
  ASSUME IInv, phase # "composing", RInv
  PROVE  /\ IsRefreshed(<<>>) => primMap[<<>>] = FullyComposed[<<>>]
         /\ \A r \in Roots : <<r>> \in AllPaths => IsRefreshed(<<>>)
         /\ \A o \in Owners : IsRefreshed(<<o>>) =>
              primMap[<<o>>] = FullyComposed[<<o>>] /\ FullyComposed[<<o>>] # None
         /\ \A o \in Owners, n \in Names : <<o, n>> \in AllPaths =>
              /\ primMap[<<o>>] = FullyComposed[<<o>>]
              /\ FullyComposed[<<o>>] # None => IsRefreshed(<<o>>)
<1>1. ChangesAreCurrent /\ StageIsKept
  BY DEF RInv
<1>2. /\ AllPaths \subseteq StagePaths
      /\ <<>> \in AllPaths <=> Touched(<<>>)
      /\ \A o \in Owners : <<o>> \in AllPaths => ~(o \in Roots /\ <<>> \in AllPaths)
      /\ \A o \in Owners, n \in Names : <<o, n>> \in AllPaths => ~Touched(<<o>>)
      /\ \A o \in Owners, n \in Names : Touched(<<o, n>>) <=>
           <<o, n>> \in AllPaths \/ Touched(<<o>>)
  BY <1>1, AllFacts
<1>3. \A q : q \in ParentsOf(AllPaths) <=>
               \E s \in AllPaths : s # <<>> /\ ~IsPrototypePath(s) /\ q = Front(s)
  BY DEF ParentsOf
<1>4. /\ \A r \in Roots : /\ <<r>> # <<>> /\ ~IsPrototypePath(<<r>>) /\ Front(<<r>>) = <<>>
                          /\ r \in Owners /\ r \notin Prototypes
      /\ \A o, n : <<o, n>> # <<>> /\ ~IsPrototypePath(<<o, n>>) /\ Front(<<o, n>>) = <<o>>
      /\ \A o : <<o>> # <<>> /\ Front(<<o>>) = <<>>
      /\ \A o, q : <<o>> = <<q>> <=> o = q
      /\ \A P \in Prototypes : IsPrototypePath(<<P>>)
  BY OwnerFacts, PathFacts, Joined, RecomposeAssumption DEF Owners
<1>5. ASSUME <<>> \in ParentsOf(AllPaths) PROVE primMap[<<>>] = FullyComposed[<<>>]
  <2>1. PICK s \in AllPaths : s # <<>> /\ ~IsPrototypePath(s) /\ <<>> = Front(s)
    BY <1>3, <1>5
  <2>2. PICK o \in Owners : s = <<o>>
    BY <1>2, <1>4, <2>1, StageCases
  <2>3. o \in Roots
    BY <1>4, <2>1, <2>2 DEF Owners
  <2>4. ~Touched(<<>>) /\ ~IsDead(<<>>)
    BY <1>2, <2>1, <2>2, <2>3, OwnerFacts
  <2> QED BY <1>1, <2>4, StageCases DEF StageIsKept
<1>6. ASSUME NEW o \in Owners, NEW n \in Names, <<o, n>> \in AllPaths
      PROVE  primMap[<<o>>] = FullyComposed[<<o>>]
  <2>1. ~Touched(<<o>>) /\ Touched(<<o, n>>)
    BY <1>2, <1>6
  <2>2. ~IsDead(<<o>>)
    <3>1. CASE o \in Prototypes
      <4>1. cache.key[o] # None
        BY <1>1, <2>1, <3>1, TouchedHasKey
      <4> QED BY <1>1, <3>1, <4>1, OwnerFacts DEF ChangesAreCurrent
    <3>2. CASE o \notin Prototypes
      <4>1. changes.dead \subseteq Prototypes
        BY DEF IInv, TypeOK, CacheTypeOK
      <4> QED BY <3>2, <4>1, OwnerFacts
    <3> QED BY <3>1, <3>2
  <2> QED BY <1>1, <2>1, <2>2, StageCases DEF StageIsKept
<1>7. ASSUME NEW o \in Owners, <<o>> \in ParentsOf(AllPaths)
      PROVE  primMap[<<o>>] = FullyComposed[<<o>>]
  <2>1. PICK s \in AllPaths : s # <<>> /\ ~IsPrototypePath(s) /\ <<o>> = Front(s)
    BY <1>3, <1>7
  <2>2. PICK q \in Owners, n \in Names : s = <<q, n>>
    BY <1>2, <1>4, <2>1, StageCases
  <2>3. q = o
    BY <1>4, <2>1, <2>2
  <2> QED BY <1>6, <2>1, <2>2, <2>3
<1>8. FullyComposed[<<>>] # None
  BY ComposedWhere
<1>9. ASSUME NEW r \in Roots, <<r>> \in AllPaths PROVE IsRefreshed(<<>>)
  <2>1. <<>> \in ParentsOf(AllPaths)
    BY <1>3, <1>4, <1>9
  <2> QED BY <1>5, <1>8, <2>1 DEF IsRefreshed
<1>10. ASSUME NEW o \in Owners, NEW n \in Names, <<o, n>> \in AllPaths,
              FullyComposed[<<o>>] # None
       PROVE  IsRefreshed(<<o>>)
  <2>1. <<o>> \in ParentsOf(AllPaths)
    BY <1>3, <1>4, <1>10
  <2> QED BY <1>7, <1>10, <2>1 DEF IsRefreshed
<1> QED BY <1>5, <1>6, <1>7, <1>9, <1>10 DEF IsRefreshed

-----------------------------------------------------------------------------
(***************************************************************************)
(* The stage that RecomposePrims builds.                                   *)
(***************************************************************************)
(* After the parents are refreshed, what no change touches is as it should *)
(* be, and an affected path is there exactly if it is to be.               *)
LEMMA RefreshedFacts ==
  ASSUME IInv, phase # "composing", RInv
  PROVE  /\ \A t \in StagePaths : ~Touched(t) /\ ~IsDead(t) => Refreshed[t] = FullyComposed[t]
         /\ \A s \in AllPaths : s # <<>> => (Refreshed[s] # None <=> FullyComposed[s] # None)
         /\ \A s \in AllPaths, t \in StagePaths :
              FullyComposed[s] = None /\ Below(s, t) =>
                Refreshed[t] = None /\ FullyComposed[t] = None
<1>1. ChangesAreCurrent /\ StageIsKept /\ StageIsATree
  BY DEF RInv
<1>2. /\ AllPaths \subseteq StagePaths
      /\ <<>> \in AllPaths <=> Touched(<<>>)
      /\ \A o \in Owners : Touched(<<o>>) <=>
           <<o>> \in AllPaths \/ (o \in Roots /\ <<>> \in AllPaths)
      /\ \A o \in Owners, n \in Names : Touched(<<o, n>>) <=>
           <<o, n>> \in AllPaths \/ Touched(<<o>>)
      /\ \A o \in Owners, n \in Names : <<o, n>> \in AllPaths => ~Touched(<<o>>)
  BY <1>1, AllFacts
<1>3. /\ FullyComposed[<<>>] # None
      /\ \A o \in Owners : FullyComposed[<<o>>] # None <=> HasOwner(o)
      /\ \A o \in Owners, n \in Names :
           FullyComposed[<<o, n>>] # None => FullyComposed[<<o>>] # None
  BY ComposedWhere
<1>4. /\ \A o \in Owners : Appears(<<o>>) <=> o \notin Prototypes /\ IsRefreshed(<<>>)
      /\ \A o \in Owners, n \in Names : Appears(<<o, n>>) <=> IsRefreshed(<<o>>)
  <2>1. ASSUME NEW o PROVE Appears(<<o>>) <=> o \notin Prototypes /\ IsRefreshed(<<>>)
    <3>1. <<o>> # <<>> /\ Front(<<o>>) = <<>> /\ (IsPrototypePath(<<o>>) <=> o \in Prototypes)
      BY OwnerFacts, PathFacts, Joined
    <3> QED BY <3>1 DEF Appears
  <2>2. ASSUME NEW o, NEW n PROVE Appears(<<o, n>>) <=> IsRefreshed(<<o>>)
    <3>1. <<o, n>> # <<>> /\ Front(<<o, n>>) = <<o>> /\ ~IsPrototypePath(<<o, n>>)
      BY OwnerFacts, PathFacts, Joined
    <3> QED BY <3>1 DEF Appears
  <2> QED BY <2>1, <2>2
<1>5. \A o \in Owners : o \notin Prototypes => o \in Roots
  BY DEF Owners
<1>6. \A o \in Owners : Goes(<<o>>) <=> Appears(<<o>>) /\ FullyComposed[<<o>>] = None
  <2>1. ASSUME NEW o \in Owners, Appears(<<o>>)
        PROVE  KnownChild(primMap, <<o>>) <=> FullyComposed[<<o>>] # None
    BY <1>4, <1>5, <2>1, RefreshedParents, KnownChildFacts
  <2> QED BY <2>1 DEF Goes
<1>7. \A o \in Owners, n \in Names :
        Goes(<<o, n>>) <=> Appears(<<o, n>>) /\ FullyComposed[<<o, n>>] = None
  <2>1. ASSUME NEW o \in Owners, NEW n \in Names, Appears(<<o, n>>)
        PROVE  KnownChild(primMap, <<o, n>>) <=> FullyComposed[<<o, n>>] # None
    BY <1>4, <2>1, RefreshedParents, KnownChildFacts
  <2> QED BY <2>1 DEF Goes
<1>8. Instantiated # None
  <2>1. Instantiated \in Prim
    BY DEF Instantiated, Prim
  <2> QED BY <2>1, RecomposeAssumption
<1>9. ASSUME NEW t \in StagePaths, ~Touched(t), ~IsDead(t)
      PROVE  Refreshed[t] = FullyComposed[t]
  <2>1. primMap[t] = FullyComposed[t]
    BY <1>1, <1>9 DEF StageIsKept
  <2>2. CASE t = <<>>
    BY <2>1, <2>2, RefreshCases
  <2>3. ASSUME NEW o \in Owners, t = <<o>> PROVE Refreshed[t] = FullyComposed[t]
    <3>1. <<o>> \notin AllPaths
      BY <1>2, <1>9, <2>3
    <3> QED BY <1>6, <2>1, <2>3, <3>1, RefreshCases
  <2>4. ASSUME NEW o \in Owners, NEW n \in Names, t = <<o, n>>
        PROVE  Refreshed[t] = FullyComposed[t]
    BY <1>3, <1>6, <1>7, <2>1, <2>4, RefreshCases
  <2> QED BY <2>2, <2>3, <2>4, StageCases
<1>10. ASSUME NEW s \in AllPaths, s # <<>>
       PROVE  Refreshed[s] # None <=> FullyComposed[s] # None
  <2>1. ASSUME NEW o \in Owners, s = <<o>>, o \in Prototypes
        PROVE  Refreshed[s] # None /\ FullyComposed[s] # None
    <3>1. Touched(<<o>>)
      BY <1>2, <1>10, <2>1
    <3>2. cache.key[o] # None
      BY <1>1, <2>1, <3>1, TouchedHasKey
    <3>3. FullyComposed[<<o>>] # None
      BY <1>3, <2>1, <3>2 DEF HasOwner
    <3>4. ~Goes(<<o>>) /\ <<o>> \in AllPaths
      BY <1>6, <1>10, <2>1, <3>3
    <3> QED BY <1>8, <2>1, <3>3, <3>4, RefreshCases
  <2>2. ASSUME NEW o \in Owners, s = <<o>>, o \notin Prototypes
        PROVE  Refreshed[s] # None <=> FullyComposed[s] # None
    <3>1. Appears(<<o>>)
      BY <1>4, <1>5, <1>10, <2>2, RefreshedParents
    <3> QED BY <1>6, <1>8, <2>2, <3>1, RefreshCases
  <2>3. ASSUME NEW o \in Owners, NEW n \in Names, s = <<o, n>>
        PROVE  Refreshed[s] # None <=> FullyComposed[s] # None
    <3>1. primMap[<<o>>] = FullyComposed[<<o>>]
      BY <1>10, <2>3, RefreshedParents
    <3>2. CASE FullyComposed[<<o>>] = None
      <4>1. primMap[<<o, n>>] = None
        BY <1>1, <3>1, <3>2, StageCases DEF StageIsATree, Owners
      <4>2. ~Appears(<<o, n>>)
        BY <1>4, <3>2, RefreshedParents
      <4> QED BY <1>3, <2>3, <3>2, <4>1, <4>2, RefreshCases
    <3>3. CASE FullyComposed[<<o>>] # None
      <4>1. Appears(<<o, n>>)
        BY <1>4, <1>10, <2>3, <3>3, RefreshedParents
      <4> QED BY <1>6, <1>7, <1>8, <2>3, <3>3, <4>1, RefreshCases
    <3> QED BY <3>2, <3>3
  <2> QED BY <1>2, <1>10, <2>1, <2>2, <2>3, StageCases
<1>11. ASSUME NEW s \in AllPaths, NEW t \in StagePaths, FullyComposed[s] = None, Below(s, t)
       PROVE  Refreshed[t] = None /\ FullyComposed[t] = None
  <2>1. s # <<>> /\ s \in StagePaths
    BY <1>2, <1>3, <1>11
  <2>2. CASE s = t
    BY <1>10, <1>11, <2>1, <2>2
  <2>3. ASSUME NEW o \in Owners, NEW n \in Names, s = <<o>>, t = <<o, n>>
        PROVE  Refreshed[t] = None /\ FullyComposed[t] = None
    <3>1. Refreshed[<<o>>] = None
      BY <1>10, <1>11, <2>1, <2>3
    <3>2. o \notin Prototypes
      <4>1. ASSUME o \in Prototypes PROVE FALSE
        <5>1. Touched(<<o>>)
          BY <1>2, <1>11, <2>3
        <5>2. cache.key[o] # None
          BY <1>1, <4>1, <5>1, TouchedHasKey
        <5> QED BY <1>3, <1>11, <2>3, <4>1, <5>2 DEF HasOwner
      <4> QED BY <4>1
    <3>3. Appears(<<o>>)
      BY <1>4, <1>5, <1>11, <2>3, <3>2, RefreshedParents
    <3>4. Goes(<<o>>)
      BY <1>6, <1>11, <2>3, <3>3
    <3> QED BY <1>3, <1>11, <2>3, <3>4, RefreshCases
  <2>4. s = t \/ \E o \in Owners, n \in Names : s = <<o>> /\ t = <<o, n>>
    <3>1. CASE t = <<>>
      BY <1>11, <2>1, <3>1, StagePrefixes DEF Below
    <3>2. ASSUME NEW o \in Owners, t = <<o>> PROVE s = t
      BY <1>11, <2>1, <3>2, StagePrefixes DEF Below
    <3>3. ASSUME NEW o \in Owners, NEW n \in Names, t = <<o, n>>
          PROVE  s = t \/ s = <<o>>
      BY <1>11, <2>1, <3>3, StagePrefixes DEF Below
    <3> QED BY <3>1, <3>2, <3>3, StageCases
  <2> QED BY <2>2, <2>3, <2>4
<1> QED BY <1>9, <1>10, <1>11

(* What RecomposePrims builds.                                             *)
LEMMA StageIsComposed ==
  ASSUME IInv, phase # "composing", RInv
  PROVE  LET tops == {s \in AllPaths : s = <<>> \/ Refreshed[s] # None}
         IN  Destroy(ComposeSubtrees(Refreshed, tops), changes.dead) = FullyComposed
<1> DEFINE tops  == {s \in AllPaths : s = <<>> \/ Refreshed[s] # None}
           built == ComposeSubtrees(Refreshed, tops)
<1>1. ChangesAreCurrent /\ StageIsKept /\ StageIsATree /\ IndexesAreFound
  BY DEF RInv
<1>2. AllPaths \subseteq StagePaths
  BY <1>1, AllFacts
<1>3. /\ FullyComposed[<<>>] # None
      /\ \A o \in Owners : FullyComposed[<<o>>] # None <=> HasOwner(o)
      /\ \A o \in Owners, n \in Names :
           FullyComposed[<<o, n>>] # None => FullyComposed[<<o>>] # None
  BY ComposedWhere
<1>4. \A s \in AllPaths : s \in tops <=> FullyComposed[s] # None
  BY <1>3, RefreshedFacts
<1>5. ASSUME NEW t \in StagePaths, Touched(t)
      PROVE  built[t] = FullyComposed[t]
  <2>1. PICK s \in AllPaths : Below(s, t)
    BY <1>1, <1>5, OneIsAbove
  <2>2. \A u \in AllPaths : Below(u, t) => u = s
    BY <1>1, <2>1, OneIsAbove
  <2>3. CASE FullyComposed[s] # None
    <3>1. built[t] = IF Visited(s, t) THEN PrimAt(t, IndexBelow(s, t)) ELSE None
      <4>1. s \in tops /\ \A u \in tops : Below(u, t) => u = s
        BY <1>4, <2>2, <2>3
      <4>. HIDE DEF tops
      <4> QED BY <2>1, <4>1, SubtreeAt
    <3> QED BY <1>1, <1>2, <2>1, <2>3, <3>1, VisitedFacts
  <2>4. CASE FullyComposed[s] = None
    <3>1. built[t] = Refreshed[t]
      <4>1. \A u \in tops : ~Below(u, t)
        BY <1>4, <2>2, <2>4
      <4>. HIDE DEF tops
      <4> QED BY <4>1, SubtreeAt
    <3> QED BY <2>1, <2>4, <3>1, RefreshedFacts
  <2> QED BY <2>3, <2>4
<1>6. ASSUME NEW t \in StagePaths, ~Touched(t)
      PROVE  built[t] = Refreshed[t]
  <2>1. \A u \in tops : ~Below(u, t)
    BY <1>1, <1>6, OneIsAbove
  <2>. HIDE DEF tops
  <2> QED BY <2>1, SubtreeAt
<1>7. ASSUME NEW t \in StagePaths, IsDead(t)
      PROVE  FullyComposed[t] = None
  <2>1. t # <<>> /\ t[1] \in changes.dead /\ changes.dead \subseteq Prototypes
    BY <1>7 DEF IsDead, IInv, TypeOK, CacheTypeOK
  <2>2. ASSUME NEW o \in Owners, o \in changes.dead PROVE FullyComposed[<<o>>] = None
    BY <1>1, <1>3, <2>1, <2>2 DEF ChangesAreCurrent, HasOwner
  <2>3. \A o : <<o>>[1] = o
    BY OwnerFacts
  <2>4. \A o, n : <<o, n>>[1] = o
    BY OwnerFacts
  <2>5. ASSUME NEW o \in Owners, t = <<o>> PROVE FullyComposed[t] = None
    BY <2>1, <2>2, <2>3, <2>5
  <2>6. ASSUME NEW o \in Owners, NEW n \in Names, t = <<o, n>>
        PROVE  FullyComposed[t] = None
    BY <1>3, <2>1, <2>2, <2>4, <2>6
  <2> QED BY <2>1, <2>5, <2>6, StageCases
<1>8. ASSUME NEW t \in StagePaths
      PROVE  Destroy(built, changes.dead)[t] = FullyComposed[t]
  <2>1. Destroy(built, changes.dead)[t] = IF IsDead(t) THEN None ELSE built[t]
    <3>. HIDE DEF built
    <3> QED BY DEF Destroy, IsDead
  <2> QED BY <1>5, <1>6, <1>7, <2>1, RefreshedFacts
<1>9. Destroy(built, changes.dead) = [t \in StagePaths |-> Destroy(built, changes.dead)[t]]
  <2>. HIDE DEF built
  <2> QED BY DEF Destroy
<1>10. FullyComposed = [t \in StagePaths |-> FullyComposed[t]]
  BY DEF FullyComposed
<1>. HIDE DEF tops, built
<1>11. Destroy(built, changes.dead) = FullyComposed
  BY <1>8, <1>9, <1>10
<1> QED BY <1>11 DEF tops, built

(* RecomposePrims composes the stage.                                      *)
LEMMA RecomposePrimsComposes ==
  ASSUME IInv, RInv, RecomposePrims
  PROVE  primMap' = FullyComposed
<1>1. phase # "composing"
  BY DEF RecomposePrims
<1>2. primMap' = Destroy(ComposeSubtrees(Refreshed,
                   {s \in AllPaths : s = <<>> \/ Refreshed[s] # None}), changes.dead)
  BY DEF RecomposePrims, Refreshed
<1> QED BY <1>1, <1>2, StageIsComposed

-----------------------------------------------------------------------------
(***************************************************************************)
(* Tasks keep what is known of the stage.                                  *)
(***************************************************************************)
(* Which prims there are depends on the scene and the cache alone.         *)
LEMMA SameComposed ==
  ASSUME scene' = scene, cache' = cache
  PROVE  /\ FullyComposed' = FullyComposed
         /\ \A q : Status(q)' = Status(q)
         /\ \A t : UsedIndex(t)' = UsedIndex(t)
<1>1. \A q : Status(q)' = Status(q)
  BY DEF Status
<1>2. FullyComposed' = FullyComposed
  BY DEF FullyComposed, Status
<1> QED BY <1>1, <1>2 DEF UsedIndex

(* A stage composed anew has no child without its parent.                  *)
LEMMA ComposedIsATree ==
  ASSUME IInv, phase # "composing", NEW o \in Owners, NEW n \in Names,
         FullyComposed[<<o, n>>] # None
  PROVE  FullyComposed[<<o>>] # None
BY ComposedWhere

(* RInv is kept by the step that rebuilds prims.                           *)
LEMMA RecomposePrimsKeepsR ==
  ASSUME IInv, RInv, RecomposePrims
  PROVE  RInv'
<1>1. /\ primMap' = FullyComposed /\ scene' = scene /\ cache' = cache /\ indexes' = indexes
      /\ todo' = todo /\ pendingAdded' = pendingAdded /\ pendingRemoved' = pendingRemoved
      /\ paths' = {} /\ changes' = NoChanges /\ phase' = "idle" /\ phase # "composing"
  BY RecomposePrimsComposes DEF RecomposePrims, Finish
<1>2. FullyComposed' = FullyComposed /\ \A q : Status(q)' = Status(q)
  BY <1>1, SameComposed
<1>3. StageIsKept'
  BY <1>1, <1>2 DEF StageIsKept
<1>4. StageIsATree'
  BY <1>1, ComposedIsATree DEF StageIsATree, Owners
<1>5. ChangesAreCurrent'
  BY <1>1 DEF ChangesAreCurrent, NoChanges
<1>6. IndexesAreFound'
  <2>1. \A q : Opens(q)' <=> Opens(q)
    BY <1>1, <1>2 DEF Opens
  <2> QED BY <1>1, <1>2, <2>1 DEF RInv, IndexesAreFound
<1> QED BY <1>3, <1>4, <1>5, <1>6 DEF RInv

(* Paths, changes and the stage: what no task touches.                     *)
LEMMA SameStage ==
  ASSUME RInv, scene' = scene, cache' = cache, paths' = paths, changes' = changes,
         primMap' = primMap, phase' = phase, pendingRemoved' = pendingRemoved
  PROVE  StageIsKept' /\ StageIsATree' /\ ChangesAreCurrent'
<1>1. FullyComposed' = FullyComposed /\ \A t : UsedIndex(t)' = UsedIndex(t)
  BY SameComposed
<1>2. \A t : (Touched(t)' <=> Touched(t)) /\ (IsDead(t)' <=> IsDead(t))
  BY <1>1 DEF Touched, IsDead, NewOrChanged
<1>3. StageIsKept'
  BY <1>1, <1>2 DEF RInv, StageIsKept
<1>4. StageIsATree'
  BY DEF RInv, StageIsATree
<1>5. ChangesAreCurrent'
  BY DEF RInv, ChangesAreCurrent
<1> QED BY <1>3, <1>4, <1>5

(* RInv is kept by a stuttering step.                                      *)
LEMMA SameKeepsR ==
  ASSUME RInv, UNCHANGED vars
  PROVE  RInv'
<1>1. /\ scene' = scene /\ cache' = cache /\ paths' = paths /\ changes' = changes
      /\ primMap' = primMap /\ phase' = phase /\ pendingRemoved' = pendingRemoved
      /\ pendingAdded' = pendingAdded /\ indexes' = indexes /\ todo' = todo
  BY DEF vars, cacheVars
<1>2. \A q : Status(q)' = Status(q) /\ (Opens(q)' <=> Opens(q))
  BY <1>1, SameComposed DEF Opens
<1>3. IndexesAreFound'
  BY <1>1, <1>2 DEF RInv, IndexesAreFound
<1> QED BY <1>1, <1>3, SameStage DEF RInv

(* RInv is kept by a task.                                                 *)
LEMMA ComputeIndexKeepsR ==
  ASSUME IInv, RInv, NEW p \in Prims, ComputeIndex(p)
  PROVE  RInv'
<1>1. /\ p \in todo /\ scene' = scene /\ cache' = cache /\ paths' = paths
      /\ changes' = changes /\ primMap' = primMap /\ phase' = phase
      /\ pendingRemoved' = pendingRemoved /\ indexes' = indexes \cup {p}
  BY DEF ComputeIndex
<1>2. /\ \A q : Status(q)' = Status(q)
      /\ \A q \in Prims : Status(q) \in Keys /\ q # p => (Opens(q)' <=> Opens(q))
      /\ Status(p) \in Keys /\ p \notin Added =>
           (Opens(p)' <=> RegisterReturns(p, Status(p)))
      /\ todo' = (todo \ {p}) \cup
           (IF Status(p) \in Keys => RegisterReturns(p, Status(p)) THEN ChildIndexes(p)
            ELSE {})
  BY <1>1, VisitKeeps
<1>3. /\ IndexesAreFound /\ TodoIsNew /\ TypeOK
      /\ \A r \in Roots : <<r>> \in Prims
  BY DEF RInv, IInv, Prims
<1>4. CASE p = <<>>
  <2>1. todo = {<<>>} /\ todo' = ChildIndexes(<<>>)
    BY <1>1, <1>2, <1>3, <1>4, RootIsPlain DEF TodoIsNew
  <2>2. \A r \in Roots : <<r>> \notin ChildIndexes(<<>>) => Status(<<r>>) = Absent
    BY ChildFacts
  <2>3. IndexesAreFound'
    BY <1>1, <1>2, <1>3, <1>4, <2>1, <2>2, AbsentFacts DEF IndexesAreFound
  <2> QED BY <1>1, <2>3, SameStage DEF RInv
<1>5. ASSUME NEW r \in Roots, p = <<r>>
      PROVE  RInv'
  <2>1. /\ p \notin Added /\ <<>> \notin todo
        /\ \A q \in Roots : <<q>> = p <=> q = r
        /\ \A q \in Roots, n \in Names : <<q, n>> # p
        /\ p # <<>>
    BY <1>1, <1>3, <1>5, PrimsAreDistinct DEF TodoIsNew
  <2>2. ChildIndexes(p) = {<<r, n>> : n \in {n \in Names : Status(<<r, n>>) # Absent}}
    BY <1>5, ChildFacts
  <2>3. /\ todo' = (todo \ {p}) \cup
                   (IF Status(p) \in Keys /\ ~Opens(p)' THEN {} ELSE ChildIndexes(p))
        /\ \A q \in Roots : <<q>> \notin ChildIndexes(p)
    BY <1>2, <2>1, <2>2, PrimsAreDistinct
  <2>4. <<>> \in indexes'
    BY <1>1, <1>3, <2>1 DEF IndexesAreFound
  <2>5. ASSUME NEW q \in Roots, <<q>> \notin todo'
        PROVE  /\ Status(<<q>>) # Absent => <<q>> \in indexes'
               /\ \A n \in Names : Status(<<q, n>>) # Absent =>
                    \/ <<q, n>> \in indexes' \cup todo'
                    \/ Status(<<q>>) \in Keys /\ ~Opens(<<q>>)'
    <3>1. CASE q # r
      <4>1. <<q>> \notin todo /\ <<q>> # p
        BY <2>1, <2>3, <2>5, <3>1
      <4>2. /\ Status(<<q>>) # Absent => <<q>> \in indexes
            /\ \A n \in Names : Status(<<q, n>>) # Absent =>
                 \/ <<q, n>> \in indexes \cup todo
                 \/ Status(<<q>>) \in Keys /\ ~Opens(<<q>>)
        BY <1>3, <2>1, <4>1 DEF IndexesAreFound
      <4> QED BY <1>1, <1>2, <1>3, <2>1, <2>3, <4>1, <4>2
    <3>2. CASE q = r
      BY <1>1, <1>5, <2>2, <2>3, <3>2
    <3> QED BY <3>1, <3>2
  <2>6. IndexesAreFound'
    BY <1>2, <2>4, <2>5 DEF IndexesAreFound
  <2> QED BY <1>1, <2>6, SameStage DEF RInv
<1>6. ASSUME NEW r \in Roots, NEW n \in Names, p = <<r, n>>
      PROVE  RInv'
  <2>1. /\ todo' = todo \ {p} /\ p # <<>> /\ \A q \in Roots : <<q>> # p
    BY <1>2, <1>6, ChildFacts, PrimsAreDistinct
  <2>2. IndexesAreFound'
    BY <1>1, <1>2, <1>3, <2>1 DEF IndexesAreFound
  <2> QED BY <1>1, <2>2, SameStage DEF RInv
<1> QED BY <1>4, <1>5, <1>6, PrimCases

(* RInv holds when the stage opens.                                        *)
LEMMA InitRInv ==
  ASSUME Init
  PROVE  RInv
<1>1. IInv /\ Before
  BY InitIInv DEF IInv, Before
<1>2. /\ paths = {<<>>} /\ todo = {<<>>} /\ phase = "composing" /\ changes = NoChanges
      /\ primMap = [s \in StagePaths |-> None]
      /\ \A P \in Prototypes : cache.key[P] = None
  BY DEF Init, CacheInit
<1>3. \A o \in Prototypes : FullyComposed[<<o>>] = None
        /\ \A n \in Names : FullyComposed[<<o, n>>] = None
  BY <1>1, <1>2, FullyFacts DEF HasOwner, Owners
<1>4. /\ Under(paths, <<>>)
      /\ \A r \in Roots : Under(paths, <<r>>) /\ \A n \in Names : Under(paths, <<r, n>>)
  BY <1>2, PathFacts, Above DEF Under
<1>5. StageIsKept
  <2>1. ASSUME NEW t \in StagePaths, ~Touched(t)
        PROVE  primMap[t] = FullyComposed[t]
    <3>1. CASE t = <<>>
      BY <1>4, <2>1, <3>1, OwnerFacts DEF Touched
    <3>2. ASSUME NEW o \in Owners, t = <<o>> PROVE primMap[t] = FullyComposed[t]
      BY <1>2, <1>3, <1>4, <2>1, <3>2, OwnerFacts DEF Touched, Owners
    <3>3. ASSUME NEW o \in Owners, NEW n \in Names, t = <<o, n>>
          PROVE  primMap[t] = FullyComposed[t]
      BY <1>2, <1>3, <1>4, <2>1, <3>3, OwnerFacts DEF Touched, Owners
    <3> QED BY <3>1, <3>2, <3>3, StageCases
  <2> QED BY <2>1 DEF StageIsKept
<1>6. StageIsATree
  BY <1>2 DEF StageIsATree
<1>7. ChangesAreCurrent
  BY <1>2 DEF ChangesAreCurrent, NoChanges
<1>8. IndexesAreFound
  BY <1>2 DEF IndexesAreFound
<1> QED BY <1>5, <1>6, <1>7, <1>8 DEF RInv

-----------------------------------------------------------------------------
(***************************************************************************)
(* A change of the scene keeps it.                                         *)
(***************************************************************************)
(* A stage composed anew, as a state predicate.                            *)
ComposedIs ==
  /\ \A o \in Owners :
       FullyComposed[<<o>>] =
         IF HasOwner(o)
           THEN [index |-> UsedIndex(<<o>>), live |-> TRUE, instance |-> IsClosed(o)]
           ELSE None
  /\ \A o \in Owners, n \in Names :
       FullyComposed[<<o, n>>] =
         IF HasOwner(o) /\ ~IsClosed(o) /\ Status(UsedIndex(<<o, n>>)) # Absent
           THEN [index |-> UsedIndex(<<o, n>>), live |-> TRUE,
                 instance |-> Status(UsedIndex(<<o, n>>)) \in Keys]
           ELSE None
  /\ FullyComposed[<<>>] = [index |-> <<>>, live |-> TRUE, instance |-> FALSE]

(* FullyFacts by name.                                                     *)
LEMMA ComposedNow == Before => ComposedIs
BY FullyFacts DEF ComposedIs

(* FullyFacts after a step.                                                *)
LEMMA ComposedNext == Before' => ComposedIs'
BY ComposedNow, PTL

(* A prim is composed as before if what it depends on is as before.        *)
LEMMA SamePrims ==
  ASSUME Before, Before'
  PROVE  /\ FullyComposed'[<<>>] = FullyComposed[<<>>]
         /\ \A o \in Owners :
              /\ HasOwner(o)' <=> HasOwner(o)
              /\ HasOwner(o) =>
                   /\ UsedIndex(<<o>>)' = UsedIndex(<<o>>)
                   /\ IsClosed(o)' <=> IsClosed(o)
              => FullyComposed'[<<o>>] = FullyComposed[<<o>>]
         /\ \A o \in Owners, n \in Names :
              /\ HasOwner(o)' <=> HasOwner(o)
              /\ HasOwner(o) =>
                   /\ UsedIndex(<<o, n>>)' = UsedIndex(<<o, n>>)
                   /\ Status(UsedIndex(<<o, n>>))' = Status(UsedIndex(<<o, n>>))
                   /\ IsClosed(o)' <=> IsClosed(o)
              => FullyComposed'[<<o, n>>] = FullyComposed[<<o, n>>]
<1>1. ComposedIs /\ ComposedIs'
  BY ComposedNow, ComposedNext
<1>2. FullyComposed'[<<>>] = FullyComposed[<<>>]
  BY <1>1 DEF ComposedIs
<1>3. ASSUME NEW o \in Owners, HasOwner(o)' <=> HasOwner(o),
             HasOwner(o) => /\ UsedIndex(<<o>>)' = UsedIndex(<<o>>)
                            /\ IsClosed(o)' <=> IsClosed(o)
      PROVE  FullyComposed'[<<o>>] = FullyComposed[<<o>>]
  <2>1. /\ FullyComposed[<<o>>] =
             IF HasOwner(o)
               THEN [index |-> UsedIndex(<<o>>), live |-> TRUE, instance |-> IsClosed(o)]
               ELSE None
        /\ FullyComposed'[<<o>>] =
             IF HasOwner(o)'
               THEN [index |-> UsedIndex(<<o>>)', live |-> TRUE, instance |-> IsClosed(o)']
               ELSE None
    BY <1>1 DEF ComposedIs
  <2>2. (IsClosed(o)' <=> IsClosed(o)) => IsClosed(o)' = IsClosed(o)
    BY DEF IsClosed
  <2>3. CASE HasOwner(o)
    <3>1. FullyComposed'[<<o>>] =
            [index |-> UsedIndex(<<o>>)', live |-> TRUE, instance |-> IsClosed(o)']
      BY <1>3, <2>1, <2>3
    <3>2. FullyComposed[<<o>>] =
            [index |-> UsedIndex(<<o>>), live |-> TRUE, instance |-> IsClosed(o)]
      BY <2>1, <2>3
    <3>3. UsedIndex(<<o>>)' = UsedIndex(<<o>>) /\ IsClosed(o)' = IsClosed(o)
      BY <1>3, <2>2, <2>3
    <3> QED BY <3>1, <3>2, <3>3
  <2>4. CASE ~HasOwner(o)
    BY <1>3, <2>1, <2>4
  <2> QED BY <2>3, <2>4
<1>4. ASSUME NEW o \in Owners, NEW n \in Names, HasOwner(o)' <=> HasOwner(o),
             HasOwner(o) => /\ UsedIndex(<<o, n>>)' = UsedIndex(<<o, n>>)
                            /\ Status(UsedIndex(<<o, n>>))' = Status(UsedIndex(<<o, n>>))
                            /\ IsClosed(o)' <=> IsClosed(o)
      PROVE  FullyComposed'[<<o, n>>] = FullyComposed[<<o, n>>]
  <2>1. /\ FullyComposed[<<o, n>>] =
             IF HasOwner(o) /\ ~IsClosed(o) /\ Status(UsedIndex(<<o, n>>)) # Absent
               THEN [index |-> UsedIndex(<<o, n>>), live |-> TRUE,
                     instance |-> Status(UsedIndex(<<o, n>>)) \in Keys]
               ELSE None
        /\ FullyComposed'[<<o, n>>] =
             IF HasOwner(o)' /\ ~IsClosed(o)' /\ Status(UsedIndex(<<o, n>>))' # Absent
               THEN [index |-> UsedIndex(<<o, n>>)', live |-> TRUE,
                     instance |-> Status(UsedIndex(<<o, n>>))' \in Keys]
               ELSE None
    BY <1>1 DEF ComposedIs
  <2>2. CASE HasOwner(o) /\ ~IsClosed(o) /\ Status(UsedIndex(<<o, n>>)) # Absent
    <3>1. FullyComposed'[<<o, n>>] =
            [index |-> UsedIndex(<<o, n>>)', live |-> TRUE,
             instance |-> Status(UsedIndex(<<o, n>>))' \in Keys]
      BY <1>4, <2>1, <2>2
    <3>2. FullyComposed[<<o, n>>] =
            [index |-> UsedIndex(<<o, n>>), live |-> TRUE,
             instance |-> Status(UsedIndex(<<o, n>>)) \in Keys]
      BY <2>1, <2>2
    <3>3. /\ UsedIndex(<<o, n>>)' = UsedIndex(<<o, n>>)
          /\ Status(UsedIndex(<<o, n>>))' = Status(UsedIndex(<<o, n>>))
      BY <1>4, <2>2
    <3> QED BY <3>1, <3>2, <3>3
  <2>3. CASE ~(HasOwner(o) /\ ~IsClosed(o) /\ Status(UsedIndex(<<o, n>>)) # Absent)
    BY <1>4, <2>1, <2>3
  <2> QED BY <2>2, <2>3
<1> QED BY <1>2, <1>3, <1>4

(* At rest nothing is yet to be rebuilt.                                   *)
LEMMA AllIsKept ==
  ASSUME IInv, RInv, phase = "idle", NEW t \in StagePaths
  PROVE  primMap[t] = FullyComposed[t]
<1>1. paths = {} /\ changes = NoChanges
  BY DEF RInv, ChangesAreCurrent
<1>2. ~Touched(t) /\ ~IsDead(t)
  BY <1>1 DEF Touched, IsDead, Under, NewOrChanged, NoChanges, IsInPrototype
<1> QED BY <1>2 DEF RInv, StageIsKept

(* A change of the scene: what is not at or below its paths stays.         *)
LEMMA StartKeepsStage ==
  ASSUME IInv, IInv', RInv, phase = "idle", NEW roots \in SUBSET Prims,
         StartRecompose(roots), NEW dropped \in SUBSET Prims, DropIndexes(dropped),
         \A p \in dropped : Under(roots, p),
         \A p \in Prims : Status(p)' # Status(p) => Under(roots, p)
  PROVE  StageIsKept' /\ StageIsATree'
<1>1. paths' = roots /\ cache' = cache /\ changes' = NoChanges /\ Before /\ Before'
  BY DEF StartRecompose, IInv, Before
<1>2. \A t : UsedIndex(t)' = UsedIndex(t)
  BY <1>1 DEF UsedIndex
<1>3. \A s \in StagePaths : primMap'[s] =
        IF primMap[s] # None /\ primMap[s].index \in dropped
          THEN [primMap[s] EXCEPT !.live = FALSE] ELSE primMap[s]
  BY DEF DropIndexes
<1>4. /\ ComposedIs
      /\ \A u \in StagePaths : primMap[u] = FullyComposed[u]
      /\ \A u \in StagePaths : FullyComposed[u] # None => UsedIndex(u) \in Prims
      /\ \A o \in Owners : FullyComposed[<<o>>] # None <=> HasOwner(o)
      /\ \A o \in Owners, n \in Names : FullyComposed[<<o, n>>] # None =>
           HasOwner(o) /\ ~IsClosed(o)
  BY <1>1, AllIsKept, ComposedWhere, ComposedNow
<1>5. /\ \A r \in Roots : /\ Under(roots, <<>>) => Under(roots, <<r>>)
                          /\ \A n \in Names : Under(roots, <<r>>) => Under(roots, <<r, n>>)
      /\ \A r \in Roots : <<r>> \in Prims /\ \A n \in Names : <<r, n>> \in Prims
  <2>1. ASSUME NEW r \in Roots, NEW t \in roots, IsPrefix(t, <<>>) PROVE IsPrefix(t, <<r>>)
    BY <2>1, PathsAtOrAbove, PathFacts
  <2>2. ASSUME NEW r \in Roots, NEW n \in Names, NEW t \in roots, IsPrefix(t, <<r>>)
        PROVE  IsPrefix(t, <<r, n>>)
    <3>1. t = <<>> \/ t = <<r>>
      BY <2>2, PathsAtOrAbove
    <3>2. IsPrefix(<<>>, <<r, n>>) /\ IsPrefix(<<r>>, <<r, n>>)
      BY PathFacts
    <3> QED BY <3>1, <3>2
  <2> QED BY <2>1, <2>2, ChildIsAPrim DEF Under, Prims
<1>6. ASSUME NEW o \in Owners, o \notin Prototypes, ~Under(roots, <<o>>)
      PROVE  /\ HasOwner(o)' <=> HasOwner(o)
             /\ IsClosed(o)' <=> IsClosed(o)
  <2>1. o \in Roots /\ Status(<<o>>)' = Status(<<o>>)
    BY <1>5, <1>6 DEF Owners
  <2> QED BY <1>6, <2>1 DEF HasOwner, IsClosed
<1>7. ASSUME NEW o \in Owners, o \in Prototypes
      PROVE  /\ HasOwner(o)' <=> HasOwner(o)
             /\ IsClosed(o)' <=> IsClosed(o)
  BY <1>1, <1>7 DEF HasOwner, IsClosed
<1>8. ASSUME NEW t \in StagePaths, ~Touched(t)', HasOwner(t[1]), t # <<>>
      PROVE  ~Under(roots, UsedIndex(t))
  <2>1. IsInPrototype(t)' <=> IsInPrototype(t)
    BY DEF IsInPrototype
  <2>2. CASE IsInPrototype(t)
    <3>1. cache'.key[t[1]] # None
      BY <1>1, <1>8, <2>2 DEF IsInPrototype, HasOwner
    <3> QED BY <1>1, <1>2, <1>8, <2>1, <2>2, <3>1 DEF Touched, Under
  <2>3. CASE ~IsInPrototype(t)
    BY <1>1, <1>8, <2>1, <2>3 DEF Touched, Under, UsedIndex
  <2> QED BY <2>2, <2>3
<1>9. ASSUME NEW t \in StagePaths, ~Touched(t)'
      PROVE  primMap'[t] = primMap[t]
  <2>1. SUFFICES ASSUME primMap[t] # None, primMap[t].index \in dropped PROVE FALSE
    BY <1>3
  <2>2. FullyComposed[t].index \in dropped /\ FullyComposed[t] # None
    BY <1>4, <2>1
  <2>3. FullyComposed[t].index = UsedIndex(t)
    <3>1. CASE t = <<>>
      BY <1>1, <1>4, <3>1, UsedIndexes DEF ComposedIs
    <3>2. ASSUME NEW o \in Owners, t = <<o>> PROVE FullyComposed[t].index = UsedIndex(t)
      <4>1. FullyComposed[t] =
              [index |-> UsedIndex(<<o>>), live |-> TRUE, instance |-> IsClosed(o)]
        BY <1>4, <2>2, <3>2 DEF ComposedIs
      <4> QED BY <3>2, <4>1
    <3>3. ASSUME NEW o \in Owners, NEW n \in Names, t = <<o, n>>
          PROVE  FullyComposed[t].index = UsedIndex(t)
      <4>1. FullyComposed[t] =
              [index |-> UsedIndex(<<o, n>>), live |-> TRUE,
               instance |-> Status(UsedIndex(<<o, n>>)) \in Keys]
        BY <1>4, <2>2, <3>3 DEF ComposedIs
      <4> QED BY <3>3, <4>1
    <3> QED BY <3>1, <3>2, <3>3, StageCases
  <2>4. Under(roots, UsedIndex(t))
    BY <2>2, <2>3
  <2>5. t = <<>> \/ HasOwner(t[1])
    BY <1>4, <2>2, StageCases, OwnerFacts
  <2>6. CASE t = <<>>
    BY <1>1, <1>9, <2>4, <2>6, OwnerFacts, UsedIndexes DEF Touched, Under, IsInPrototype
  <2> QED BY <1>8, <1>9, <2>4, <2>5, <2>6
<1>10. ASSUME NEW t \in StagePaths, ~Touched(t)'
       PROVE  FullyComposed'[t] = FullyComposed[t]
  <2>1. CASE t = <<>>
    BY <1>1, <2>1, SamePrims
  <2>2. ASSUME NEW o \in Owners, t = <<o>> PROVE FullyComposed'[t] = FullyComposed[t]
    <3>1. CASE o \in Prototypes
      BY <1>1, <1>2, <1>7, <2>2, <3>1, SamePrims
    <3>2. CASE o \notin Prototypes
      <4>1. ~Under(roots, <<o>>)
        BY <1>1, <1>10, <2>2, <3>2, OwnerFacts DEF Touched, Under, IsInPrototype
      <4> QED BY <1>1, <1>2, <1>6, <2>2, <3>2, <4>1, SamePrims
    <3> QED BY <3>1, <3>2
  <2>3. ASSUME NEW o \in Owners, NEW n \in Names, t = <<o, n>>
        PROVE  FullyComposed'[t] = FullyComposed[t]
    <3>1. CASE o \in Prototypes
      <4>1. ASSUME HasOwner(o)
            PROVE  Status(UsedIndex(<<o, n>>))' = Status(UsedIndex(<<o, n>>))
        <5>1. /\ UsedIndex(<<o, n>>) = cache.source[o] \o <<n>>
              /\ cache.source[o] \in Prims /\ cache.source[o] # <<>>
          BY <1>1, <3>1, <4>1, UsedIndexes, SourceOfPrototype, AtRest DEF HasOwner
        <5>2. t # <<>> /\ t[1] = o
          BY <2>3, OwnerFacts, PathFacts
        <5>3. ~Under(roots, UsedIndex(<<o, n>>))
          BY <1>8, <1>10, <2>3, <4>1, <5>2
        <5>4. ASSUME NEW r \in Roots, cache.source[o] = <<r>>
              PROVE  Status(UsedIndex(<<o, n>>))' = Status(UsedIndex(<<o, n>>))
          <6>1. UsedIndex(<<o, n>>) = <<r, n>>
            BY <5>1, <5>4, Joined
          <6> QED BY <1>2, <1>5, <5>3, <6>1
        <5>5. ASSUME NEW r \in Roots, NEW m \in Names, cache.source[o] = <<r, m>>
              PROVE  Status(UsedIndex(<<o, n>>))' = Status(UsedIndex(<<o, n>>))
          BY <1>2, <5>1, <5>5, StatusDeeper DEF Status
        <5> QED BY <5>1, <5>4, <5>5, PrimCases
      <4> QED BY <1>1, <1>2, <1>7, <2>3, <3>1, <4>1, SamePrims
    <3>2. CASE o \notin Prototypes
      <4>1. ~Under(roots, <<o, n>>)
        BY <1>1, <1>10, <2>3, <3>2, OwnerFacts DEF Touched, Under, IsInPrototype
      <4>2. o \in Roots /\ UsedIndex(<<o, n>>) = <<o, n>>
        BY <1>1, <3>2, UsedIndexes
      <4>3. ~Under(roots, <<o>>) /\ Status(<<o, n>>)' = Status(<<o, n>>)
        BY <1>5, <4>1, <4>2
      <4> QED BY <1>1, <1>2, <1>6, <2>3, <3>2, <4>2, <4>3, SamePrims
    <3> QED BY <3>1, <3>2
  <2> QED BY <2>1, <2>2, <2>3, StageCases
<1>11. StageIsKept'
  BY <1>4, <1>9, <1>10 DEF StageIsKept
<1>12. StageIsATree'
  <2>1. \A s \in StagePaths : primMap'[s] = None <=> primMap[s] = None
    <3>1. \A s \in StagePaths : primMap[s] # None =>
            [primMap[s] EXCEPT !.live = FALSE] \in Prim
      BY DEF IInv, TypeOK, Prim
    <3> QED BY <1>3, <3>1, RecomposeAssumption
  <2> QED BY <2>1, StageCases DEF RInv, StageIsATree, Owners
<1> QED BY <1>11, <1>12

(* IsPrefix is transitive.                                                 *)
LEMMA PrefixOfPrefix ==
  ASSUME NEW s \in Prims, NEW t \in Prims, NEW p \in Prims, IsPrefix(s, t), IsPrefix(t, p)
  PROVE  IsPrefix(s, p)
<1>1. CASE p = <<>>
  BY <1>1, PathsAtOrAbove
<1>2. ASSUME NEW r \in Roots, p = <<r>> PROVE IsPrefix(s, p)
  <2>1. (t = <<>> \/ t = <<r>>) /\ IsPrefix(<<>>, <<r>>)
    BY <1>2, PathsAtOrAbove, PathFacts
  <2> QED BY <1>2, <2>1, PathsAtOrAbove
<1>3. ASSUME NEW r \in Roots, NEW n \in Names, p = <<r, n>> PROVE IsPrefix(s, p)
  <2>1. t = <<>> \/ t = <<r>> \/ t = <<r, n>>
    BY <1>3, PathsAtOrAbove
  <2>2. IsPrefix(<<>>, <<r, n>>) /\ IsPrefix(<<r>>, <<r, n>>)
    BY PathFacts
  <2>3. s = <<>> \/ s = <<r>> \/ s = t
    BY <2>1, PathsAtOrAbove
  <2> QED BY <1>3, <2>2, <2>3
<1> QED BY <1>1, <1>2, <1>3, PrimCases

(* What is dropped, or appears, is composed again.                         *)
LEMMA StartKeepsR ==
  ASSUME IInv, IInv', RInv, phase = "idle", NEW roots \in SUBSET Prims,
         StartRecompose(roots), NEW dropped \in SUBSET Prims, DropIndexes(dropped),
         \A p \in dropped : Under(roots, p),
         \A p, q \in roots : IsPrefix(p, q) => p = q,
         \A p \in Prims : Status(p)' # Status(p) => Under(roots, p)
  PROVE  RInv'
<1>1. /\ paths' = roots /\ todo' = {p \in roots : ~Elided(p)} /\ phase' = "composing"
      /\ changes' = NoChanges /\ cache' = cache /\ pendingAdded' = pendingAdded
      /\ indexes' = (indexes \ dropped) \cup Ancestors(todo')
  BY DEF StartRecompose, DropIndexes
<1>2. /\ Before /\ Coming = Instances /\ todo = {}
      /\ \A k \in Keys : pendingAdded[k].paths = {} /\ pendingRemoved[k] = {}
  BY AtRest
<1>3. \A q \in Prims : Status(q)' = Status(q) /\ Status(q) \in Keys /\ Opens(q)' => Opens(q)
  BY <1>1, <1>2 DEF Opens
<1>4. StageIsKept' /\ StageIsATree'
  BY StartKeepsStage
<1>5. ~Elided(<<>>) /\ \A r \in Roots : ~Elided(<<r>>)
  BY RootsAreNotElided
<1>6. \A r \in Roots : <<r>> \in Prims /\ \A n \in Names : <<r, n>> \in Prims
  BY ChildIsAPrim DEF Prims
<1>7. \A p \in roots : p \in Prims
  OBVIOUS
<1>8. ChangesAreCurrent'
  <2>1. ASSUME <<>> \in roots, NEW p \in roots PROVE p = <<>>
    <3>1. IsPrefix(<<>>, <<>>)
      BY Above
    <3>2. IsPrefix(<<>>, p)
      <4>1. ASSUME NEW r \in Roots, p = <<r>> PROVE IsPrefix(<<>>, p)
        BY <4>1, PathFacts
      <4>2. ASSUME NEW r \in Roots, NEW n \in Names, p = <<r, n>> PROVE IsPrefix(<<>>, p)
        BY <4>2, PathFacts
      <4> QED BY <3>1, <4>1, <4>2, PrimCases
    <3> QED BY <2>1, <3>2
  <2>2. <<>> \in roots => roots = {<<>>}
    BY <2>1
  <2> QED BY <1>1, <2>2 DEF ChangesAreCurrent, NoChanges
<1>9. /\ <<>> \in indexes
      /\ \A r \in Roots :
           /\ Status(<<r>>) # Absent => <<r>> \in indexes
           /\ \A n \in Names : Status(<<r, n>>) # Absent =>
                <<r, n>> \in indexes \/ (Status(<<r>>) \in Keys /\ ~Opens(<<r>>))
  BY <1>2 DEF RInv, IndexesAreFound
<1>10. \A r \in Roots : Status(<<r>>) \in Keys => <<r>> \in Instances
  BY <1>2 DEF IInv, InstancesAreFound
<1>11. <<>> \in indexes' \cup todo'
  <2>1. CASE <<>> \in roots
    BY <1>1, <1>5, <2>1
  <2>2. CASE <<>> \notin roots
    <3>1. ~Under(roots, <<>>)
      BY <2>2, PathsAtOrAbove DEF Under
    <3> QED BY <1>1, <1>9, <3>1
  <2> QED BY <2>1, <2>2
<1>12. ASSUME <<>> \notin todo', NEW r \in Roots, <<r>> \notin todo'
       PROVE  /\ Status(<<r>>)' # Absent => <<r>> \in indexes'
              /\ \A n \in Names : Status(<<r, n>>)' # Absent =>
                   \/ <<r, n>> \in indexes' \cup todo'
                   \/ Status(<<r>>)' \in Keys /\ ~Opens(<<r>>)'
  <2>1. <<>> \notin roots /\ <<r>> \notin roots
    BY <1>1, <1>5, <1>12
  <2>2. ~Under(roots, <<r>>)
    BY <2>1, PathsAtOrAbove DEF Under
  <2>3. Status(<<r>>)' = Status(<<r>>) /\ <<r>> \notin dropped
    BY <1>6, <2>2
  <2>4. Status(<<r>>) \in Keys /\ ~Opens(<<r>>) => ~Opens(<<r>>)'
    BY <1>3, <1>6, <2>3
  <2>5. ASSUME NEW n \in Names, Status(<<r, n>>)' # Absent, <<r, n>> \notin indexes',
               <<r, n>> \notin todo'
        PROVE  Status(<<r>>)' \in Keys /\ ~Opens(<<r>>)'
    <3>1. CASE <<r, n>> \in roots
      <4>1. <<r>> \in Instances /\ PrimsInPrototypesUsing(<<r, n>>) = {}
        BY <1>1, <2>5, <3>1, RootsAreNotElided
      <4>2. ~Opens(<<r>>)
        BY <4>1, UsesAreKnown
      <4>3. Status(<<r>>) \in Keys
        BY <4>1, AtRest
      <4> QED BY <2>3, <2>4, <4>2, <4>3
    <3>2. CASE <<r, n>> \notin roots
      <4>1. ~Under(roots, <<r, n>>)
        BY <2>1, <3>2, PathsAtOrAbove DEF Under
      <4>2. Status(<<r, n>>)' = Status(<<r, n>>) /\ <<r, n>> \notin dropped
        BY <1>6, <4>1
      <4>3. Status(<<r>>) \in Keys /\ ~Opens(<<r>>)
        BY <1>1, <1>9, <2>5, <4>2
      <4> QED BY <2>3, <2>4, <4>3
    <3> QED BY <3>1, <3>2
  <2> QED BY <1>1, <1>9, <2>3, <2>5
<1>13. IndexesAreFound'
  BY <1>11, <1>12 DEF IndexesAreFound
<1> QED BY <1>4, <1>8, <1>13 DEF RInv

(* RInv is kept by a change of the scene.                                  *)
LEMMA EditKeepsR ==
  ASSUME IInv, RInv, Edit
  PROVE  RInv'
<1>1. phase = "idle" /\ TypeOK /\ IInv'
  BY EditKeeps DEF Edit, IInv
<1>2. ASSUME NEW s \in Batches, NEW touched \in {{}} \cup {{p} : p \in Prims},
             ChangeSignificantly(s, touched)
      PROVE  RInv'
  <2> DEFINE changed == {p \in Prims : StatusIn(s, p) # Status(p)} \cup touched
             dropped == {p \in Prims : Under(changed, p)}
  <2>1. changed \in SUBSET Prims
    OBVIOUS
  <2>2. scene' = s /\ StartRecompose(Tops(changed)) /\ DropIndexes(dropped)
    BY <1>2 DEF ChangeSignificantly
  <2>3. \A p \in Prims : StatusIn(s, p) # Status(p) => p \in changed
    OBVIOUS
  <2>. HIDE DEF changed
  <2>4. Tops(changed) \in SUBSET Prims
    BY <2>1, TopFacts
  <2>5. \A p, q \in Tops(changed) : IsPrefix(p, q) => p = q
    BY <2>1, TopFacts
  <2>6. \A p \in changed : Under(Tops(changed), p)
    BY <2>1, TopFacts DEF Under
  <2>7. ASSUME NEW p \in dropped PROVE Under(Tops(changed), p)
    <3>1. PICK t \in changed : IsPrefix(t, p)
      BY <2>7 DEF Under
    <3>2. PICK u \in Tops(changed) : IsPrefix(u, t)
      BY <2>6 DEF Under
    <3>3. IsPrefix(u, p)
      BY <2>1, <2>4, <3>1, <3>2, PrefixOfPrefix
    <3> QED BY <3>3 DEF Under
  <2>8. \A p \in Prims : Status(p)' # Status(p) => Under(Tops(changed), p)
    BY <2>2, <2>3, <2>6 DEF Status
  <2>9. dropped \in SUBSET Prims
    OBVIOUS
  <2>. HIDE DEF dropped
  <2> QED BY <1>1, <2>2, <2>4, <2>5, <2>7, <2>8, <2>9, StartKeepsR
<1>3. ASSUME NEW p \in Prims \ {<<>>}, ChangePrim(p)
      PROVE  RInv'
  <2>1. scene' = scene /\ StartRecompose({p}) /\ DropIndexes({p}) /\ {p} \in SUBSET Prims
    BY <1>3 DEF ChangePrim
  <2>2. \A q : Status(q)' = Status(q)
    BY <2>1 DEF Status
  <2>3. \A q, t \in {p} : IsPrefix(q, t) => q = t
    OBVIOUS
  <2>4. IsPrefix(p, p)
    <3>1. ASSUME NEW r \in Roots, p = <<r>> PROVE IsPrefix(p, p)
      BY <3>1, PathFacts
    <3>2. ASSUME NEW r \in Roots, NEW n \in Names, p = <<r, n>> PROVE IsPrefix(p, p)
      BY <3>2, PathFacts
    <3> QED BY <3>1, <3>2, PrimCases
  <2>5. \A q \in {p} : Under({p}, q)
    BY <2>4 DEF Under
  <2> QED BY <1>1, <2>1, <2>2, <2>3, <2>5, StartKeepsR
<1> QED BY <1>2, <1>3 DEF Edit

-----------------------------------------------------------------------------
(***************************************************************************)
(* So does a round of changes of the cache.                                *)
(***************************************************************************)
LEMMA ChangesAre ==
  ASSUME NEW afterRemoval \in NewSources, NEW naming \in Namings,
         ProcessChangesWith(afterRemoval, naming), NEW P \in Prototypes
  PROVE  /\ changes'.new[P] = IF \E k \in NewKeys : naming[k] = P
                                THEN cache'.source[P] ELSE changes.new[P]
         /\ changes'.changed[P] =
              IF cache.key[P] # None /\ cache'.source[P] \notin {None, cache.source[P]}
                THEN cache'.source[P] ELSE changes.changed[P]
         /\ changes'.dead = changes.dead \cup DeadAfter(naming)
<1> DEFINE source == SourceAfter(afterRemoval, naming)
           moved == {Q \in Prototypes : cache.key[Q] # None
                                        /\ source[Q] \notin {None, cache.source[Q]}}
<1>1. /\ changes'.new = [Q \in Prototypes |->
                          IF \E k \in NewKeys : naming[k] = Q
                            THEN source[Q] ELSE changes.new[Q]]
      /\ changes'.changed = [Q \in Prototypes |->
                          IF Q \in moved THEN source[Q] ELSE changes.changed[Q]]
      /\ changes'.dead = changes.dead \cup DeadAfter(naming)
  BY DEF ProcessChangesWith, KeyAfter, SourceAfter, InstancesAfter, DeadAfter, AddedTo
<1>2. cache'.source = source
  BY MapsAfter
<1>3. P \in moved <=> cache.key[P] # None /\ source[P] \notin {None, cache.source[P]}
  OBVIOUS
<1>. HIDE DEF source, moved
<1> QED BY <1>1, <1>2, <1>3

(* What a prototype is afterwards, and what the stage is told of it.       *)
LEMMA PrototypeAfter ==
  ASSUME Before, NEW afterRemoval \in NewSources, NEW naming \in Namings,
         ProcessChangesWith(afterRemoval, naming), NEW P \in Prototypes
  PROVE  /\ cache'.key[P] = IF P \in DeadAfter(naming) THEN None ELSE KeyAfter(naming)[P]
         /\ (\E k \in NewKeys : naming[k] = P) <=> KeyAfter(naming)[P] \in NewKeys
         /\ KeyAfter(naming)[P] \in NewKeys =>
              /\ cache.key[P] = None /\ P \notin changes.dead
              /\ cache'.source[P] # None
         /\ KeyAfter(naming)[P] \notin NewKeys => KeyAfter(naming)[P] = cache.key[P]
         /\ cache'.key[P] # None => cache'.source[P] # None
         /\ cache.key[P] # None /\ cache.source[P] \notin GoneFrom(P) =>
              cache'.source[P] = cache.source[P]
<1>1. /\ cache'.key = [Q \in Prototypes |->
                         IF Q \in DeadAfter(naming) THEN None ELSE KeyAfter(naming)[Q]]
      /\ cache'.source = SourceAfter(afterRemoval, naming)
      /\ cache'.instances = InstancesAfter(naming)
  BY MapsAfter
<1>2. /\ KeyAfter(naming)[P] # cache.key[P] =>
           cache.key[P] = None /\ KeyAfter(naming)[P] \in NewKeys
      /\ KeyAfter(naming)[P] \in NewKeys => cache.key[P] = None
  BY KeysAfter
<1>3. /\ KeyAfter(naming)[P] \in NewKeys =>
           cache'.source[P] = pendingAdded[KeyAfter(naming)[P]].first
      /\ KeyAfter(naming)[P] \notin NewKeys /\ cache.source[P] # None
           /\ cache.source[P] \notin GoneFrom(P) => cache'.source[P] = cache.source[P]
  BY <1>1, SourcesAfter
<1>4. \A k \in NewKeys : pendingAdded[k].first # None /\ k # None
  BY RecomposeAssumption
  DEF NewKeys, AddedKeys, Before, PendingIsCurrent, TypeOK, CacheTypeOK
<1>5. KeyAfter(naming)[P] = IF \E k \in NewKeys : naming[k] = P
                              THEN CHOOSE k \in NewKeys : naming[k] = P ELSE cache.key[P]
  BY DEF KeyAfter
<1>6. (\E k \in NewKeys : naming[k] = P) => KeyAfter(naming)[P] \in NewKeys
  BY <1>5
<1>7. KeyAfter(naming)[P] \in NewKeys => \E k \in NewKeys : naming[k] = P
  BY <1>2, <1>4, <1>5
<1>8. (\E k \in NewKeys : naming[k] = P) => P \notin changes.dead
  BY DEF Namings, FreshPrototypes
<1>9. cache.key[P] # None => cache.source[P] # None
  BY PrototypeFacts
<1>10. cache'.key[P] # None => cache'.source[P] # None
  <2>1. CacheConsistent' /\ CacheTypeOK'
    BY Processed
  <2>2. cache'.key[P] # None => cache'.source[P] \in cache'.instances[P]
    BY <2>1 DEF CacheConsistent
  <2>3. cache'.instances[P] \subseteq Prims
    BY <2>1 DEF CacheTypeOK
  <2> QED BY <2>2, <2>3, RecomposeAssumption
<1> QED BY <1>1, <1>2, <1>3, <1>4, <1>6, <1>7, <1>8, <1>9, <1>10

(* RInv is kept when the cache takes in what is pending.                   *)
LEMMA InstancesRegisteredKeepsR ==
  ASSUME IInv, RInv, InstancesRegistered
  PROVE  RInv'
<1>0. Before /\ todo = {} /\ IInv' /\ Before'
  BY InstancesRegisteredKeeps DEF IInv, Before, InstancesRegistered
<1>1. PICK afterRemoval \in NewSources, naming \in Namings :
        ProcessChangesWith(afterRemoval, naming)
  BY DEF InstancesRegistered, ProcessChanges
<1>2. /\ todo' = ChangedSources /\ scene' = scene /\ paths' = paths /\ primMap' = primMap
      /\ phase' # "idle" /\ indexes \subseteq indexes'
      /\ pendingAdded' = NothingAdded /\ pendingRemoved' = NothingRemoved
  BY <1>1, MapsAfter DEF InstancesRegistered
<1>3. \A q : Status(q)' = Status(q)
  BY <1>2 DEF Status
<1>4. ASSUME NEW P \in Prototypes
      PROVE  /\ changes'.new[P] = IF KeyAfter(naming)[P] \in NewKeys
                                    THEN cache'.source[P] ELSE changes.new[P]
             /\ changes'.changed[P] =
                  IF cache.key[P] # None /\ cache'.source[P] \notin {None, cache.source[P]}
                    THEN cache'.source[P] ELSE changes.changed[P]
             /\ changes'.dead = changes.dead \cup DeadAfter(naming)
  BY <1>0, <1>1, ChangesAre, PrototypeAfter
<1>5. ASSUME NEW P \in Prototypes
      PROVE  /\ cache'.key[P] = IF P \in DeadAfter(naming) THEN None ELSE KeyAfter(naming)[P]
             /\ KeyAfter(naming)[P] \in NewKeys =>
                  /\ cache.key[P] = None /\ P \notin changes.dead
                  /\ cache'.source[P] # None
             /\ KeyAfter(naming)[P] \notin NewKeys => KeyAfter(naming)[P] = cache.key[P]
             /\ cache'.key[P] # None => cache'.source[P] # None
             /\ cache.key[P] # None /\ cache.source[P] \notin GoneFrom(P) =>
                  cache'.source[P] = cache.source[P]
             /\ cache.key[P] = None => cache.source[P] = None
  BY <1>0, <1>1, PrototypeAfter DEF Before, CacheConsistent
<1>6. ChangesAreCurrent /\ StageIsKept /\ StageIsATree /\ IndexesAreFound
  BY DEF RInv
<1>7. ASSUME NEW P \in Prototypes
      PROVE  /\ changes'.new[P] \in {None, cache'.source[P]}
             /\ changes'.changed[P] \in {None, cache'.source[P]}
             /\ P \in changes'.dead => cache'.key[P] = None
  <2>1. /\ changes.new[P] \in {None, cache.source[P]}
        /\ changes.changed[P] \in {None, cache.source[P]}
        /\ P \in changes.dead => cache.key[P] = None
    BY <1>6 DEF ChangesAreCurrent
  <2>2. CASE changes = NoChanges
    <3>1. changes.new[P] = None /\ changes.changed[P] = None /\ changes.dead = {}
      BY <2>2 DEF NoChanges
    <3> QED BY <1>4, <1>5, <3>1
  <2>3. CASE \A k \in Keys : pendingRemoved[k] = {}
    <3>1. GoneFrom(P) = {}
      <4>1. cache.key[P] # None => cache.key[P] \in Keys
        BY <1>0, PrototypeFacts
      <4> QED BY <2>3, <4>1 DEF GoneFrom, Gone
    <3>2. cache.key[P] # None => cache'.source[P] = cache.source[P]
      BY <1>5, <3>1
    <3> QED BY <1>4, <1>5, <2>1, <3>2
  <2> QED BY <1>6, <2>2, <2>3 DEF ChangesAreCurrent
<1>8. ChangesAreCurrent'
  BY <1>2, <1>6, <1>7 DEF ChangesAreCurrent, NothingRemoved
<1>9. ASSUME NEW P \in Prototypes, P \notin NewOrChanged', P \notin changes'.dead
      PROVE  /\ P \notin NewOrChanged /\ P \notin changes.dead
             /\ cache'.key[P] = cache.key[P]
             /\ cache.key[P] # None => cache'.source[P] = cache.source[P]
  <2>1. changes'.new[P] = None /\ changes'.changed[P] = None
    BY <1>9 DEF NewOrChanged
  <2>2. KeyAfter(naming)[P] \notin NewKeys /\ changes.new[P] = None
    BY <1>4, <1>5, <2>1
  <2>3. P \notin DeadAfter(naming) /\ P \notin changes.dead
    BY <1>4, <1>9
  <2>4. cache'.key[P] = cache.key[P]
    BY <1>5, <2>2, <2>3
  <2>5. /\ cache.key[P] # None => cache'.source[P] = cache.source[P]
        /\ changes.changed[P] = None
    BY <1>4, <1>5, <2>1, <2>4
  <2> QED BY <2>2, <2>3, <2>4, <2>5 DEF NewOrChanged
<1>10. ASSUME NEW o \in Owners, o \notin Prototypes
       PROVE  /\ HasOwner(o)' <=> HasOwner(o)
              /\ IsClosed(o)' <=> IsClosed(o)
  BY <1>3, <1>10 DEF HasOwner, IsClosed
<1>11. \A t : ~IsInPrototype(t) =>
         /\ ~IsInPrototype(t)' /\ UsedIndex(t)' = UsedIndex(t)
         /\ Status(UsedIndex(t))' = Status(UsedIndex(t))
         /\ Touched(t)' <=> Touched(t)
  BY <1>2, <1>3 DEF IsInPrototype, UsedIndex, Touched
<1>12. ASSUME NEW t \in StagePaths, t # <<>>, NEW P \in Prototypes, t[1] = P,
              ~Touched(t)', ~IsDead(t)'
       PROVE  /\ ~Touched(t) /\ ~IsDead(t)
              /\ HasOwner(P)' <=> HasOwner(P)
              /\ IsClosed(P)' <=> IsClosed(P)
              /\ HasOwner(P) => /\ UsedIndex(t)' = UsedIndex(t)
                                /\ Status(UsedIndex(t))' = Status(UsedIndex(t))
  <2>1. IsInPrototype(t) /\ IsInPrototype(t)'
    BY <1>12 DEF IsInPrototype
  <2>2. P \notin NewOrChanged' /\ P \notin changes'.dead
    BY <1>12, <2>1 DEF Touched, IsDead
  <2>3. /\ P \notin NewOrChanged /\ P \notin changes.dead
        /\ cache'.key[P] = cache.key[P]
        /\ cache.key[P] # None => cache'.source[P] = cache.source[P]
    BY <1>9, <2>2
  <2>4. cache.key[P] # None => UsedIndex(t)' = UsedIndex(t)
    BY <1>12, <2>1, <2>3 DEF UsedIndex
  <2>5. ~Touched(t)
    BY <1>2, <1>12, <2>1, <2>3, <2>4 DEF Touched
  <2>6. ~IsDead(t)
    BY <1>12, <2>3 DEF IsDead
  <2>7. cache.key[P] # None => Status(UsedIndex(t))' = Status(UsedIndex(t))
    BY <1>2, <2>4 DEF Status
  <2> QED BY <2>3, <2>4, <2>5, <2>6, <2>7 DEF HasOwner, IsClosed
<1>13. StageIsKept'
  <2>1. ASSUME NEW t \in StagePaths, ~Touched(t)', ~IsDead(t)'
        PROVE  primMap[t] = FullyComposed'[t]
    <3>1. CASE t = <<>>
      <4>1. ~Touched(t) /\ ~IsDead(t)
        BY <1>11, <2>1, <3>1, OwnerFacts
      <4> QED BY <1>0, <1>6, <3>1, <4>1, SamePrims DEF StageIsKept
    <3>2. ASSUME NEW o \in Owners, t = <<o>> PROVE primMap[t] = FullyComposed'[t]
      <4>1. t # <<>> /\ t[1] = o /\ (IsInPrototype(t) <=> o \in Prototypes)
        BY <3>2, OwnerFacts, PathFacts
      <4>2. CASE o \in Prototypes
        BY <1>0, <1>6, <1>12, <2>1, <3>2, <4>1, <4>2, SamePrims DEF StageIsKept
      <4>3. CASE o \notin Prototypes
        <5>1. ~IsDead(t)
          BY <3>2, <4>3, OwnerFacts DEF IInv, TypeOK, CacheTypeOK
        <5> QED BY <1>0, <1>6, <1>10, <1>11, <2>1, <3>2, <4>1, <4>3, <5>1, SamePrims
                DEF StageIsKept
      <4> QED BY <4>2, <4>3
    <3>3. ASSUME NEW o \in Owners, NEW n \in Names, t = <<o, n>>
          PROVE  primMap[t] = FullyComposed'[t]
      <4>1. t # <<>> /\ t[1] = o /\ (IsInPrototype(t) <=> o \in Prototypes)
        BY <3>3, OwnerFacts, PathFacts
      <4>2. CASE o \in Prototypes
        BY <1>0, <1>6, <1>12, <2>1, <3>3, <4>1, <4>2, SamePrims DEF StageIsKept
      <4>3. CASE o \notin Prototypes
        <5>1. ~IsDead(t)
          BY <3>3, <4>3, OwnerFacts DEF IInv, TypeOK, CacheTypeOK
        <5> QED BY <1>0, <1>6, <1>10, <1>11, <2>1, <3>3, <4>1, <4>3, <5>1, SamePrims
                DEF StageIsKept
      <4> QED BY <4>2, <4>3
    <3> QED BY <3>1, <3>2, <3>3, StageCases
  <2> QED BY <1>2, <2>1 DEF StageIsKept
<1>14. StageIsATree'
  BY <1>2, <1>6 DEF StageIsATree
<1>15. IndexesAreFound'
  <2>1. /\ <<>> \in indexes
        /\ \A r \in Roots :
             /\ Status(<<r>>) # Absent => <<r>> \in indexes
             /\ \A n \in Names : Status(<<r, n>>) # Absent =>
                  <<r, n>> \in indexes \/ (Status(<<r>>) \in Keys /\ ~Opens(<<r>>))
    BY <1>0, <1>6 DEF IndexesAreFound
  <2>2. ASSUME NEW r \in Roots, <<r>> \notin ChangedSources, Status(<<r>>) \in Keys,
               Opens(<<r>>)'
        PROVE  Opens(<<r>>)
    <3>1. <<r>> \in Prims
      BY DEF Prims
    <3>2. /\ cache'.proto[Status(<<r>>)] # None
          /\ cache'.source[cache'.proto[Status(<<r>>)]] = <<r>>
      BY <1>2, <1>3, <2>2 DEF Opens, NothingAdded
    <3> QED BY <1>0, <1>1, <2>2, <3>1, <3>2, SourcesProcessed
  <2> QED BY <1>2, <1>3, <2>1, <2>2 DEF IndexesAreFound
<1> QED BY <1>8, <1>13, <1>14, <1>15 DEF RInv

-----------------------------------------------------------------------------
(***************************************************************************)
(* The theorem.                                                            *)
(***************************************************************************)
(* The stage is rebuilt exactly where it has to be: between two changes    *)
(* its prims are those of a stage composed from scratch.                   *)
THEOREM StageIsRecomposed == Spec => []RecomposedFully
<1>1. Init => IInv /\ RInv
  BY InitIInv, InitRInv
<1>2. IInv /\ RInv /\ [Next]_vars => RInv'
  <2>1. ASSUME IInv, RInv, Edit PROVE RInv'
    BY <2>1, EditKeepsR
  <2>2. ASSUME IInv, RInv, NEW p \in Prims, ComputeIndex(p) PROVE RInv'
    BY <2>2, ComputeIndexKeepsR
  <2>3. ASSUME IInv, RInv, InstancesRegistered PROVE RInv'
    BY <2>3, InstancesRegisteredKeepsR
  <2>4. ASSUME IInv, RInv, RecomposePrims PROVE RInv'
    BY <2>4, RecomposePrimsKeepsR
  <2>5. ASSUME IInv, RInv, UNCHANGED vars PROVE RInv'
    BY <2>5, SameKeepsR
  <2> QED BY <2>1, <2>2, <2>3, <2>4, <2>5 DEF Next, Compose
<1>3. IInv /\ RInv => RecomposedFully
  <2>1. ASSUME IInv, RInv, phase = "idle" PROVE primMap = FullyComposed
    <3>1. \A t \in StagePaths : primMap[t] = FullyComposed[t]
      BY <2>1, AllIsKept
    <3>2. primMap \in [StagePaths -> Prim \cup {None}]
      BY <2>1 DEF IInv, TypeOK
    <3>3. FullyComposed = [t \in StagePaths |-> FullyComposed[t]]
      BY DEF FullyComposed
    <3> QED BY <3>1, <3>2, <3>3
  <2> QED BY <2>1 DEF RecomposedFully
<1> QED BY <1>1, <1>2, <1>3, RecomposeInvariant, PTL DEF Spec
=============================================================================
