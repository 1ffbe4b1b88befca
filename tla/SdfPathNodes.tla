----------------------------- MODULE SdfPathNodes -----------------------------
(***************************************************************************)
(* The interned nodes of the prim part of a path.  A table, sharded under  *)
(* spin mutexes, maps a parent's address and a name to the node.  Nodes    *)
(* are counted: by the handles in paths and by their children.  A thread   *)
(* that drops a count to zero destroys the node later, without the lock,   *)
(* and until then others may find the node in the table.                   *)
(*                                                                         *)
(* What a shard's lock protects is one step, and so is each access to a    *)
(* count.  A handle is used by one thread at a time, so handles stand for  *)
(* the threads that use them.  Nodes are addresses, which the pool gives   *)
(* out again.  Nodes of the property part are not counted and never die.   *)
(***************************************************************************)
EXTENDS Naturals, FiniteSets, Sequences

CONSTANTS
  Handles,     \* the path handles
  Names,
  Nodes,       \* the addresses the pool has
  Root,        \* the absolute root node, which never dies
  None,
  MaxDepth     \* how many elements a path has, a bound

Paths == UNION {[1..d -> Names] : d \in 1..MaxDepth}

(* Of the constants; the modules that give them values assume it.          *)
PathNodeAssumption ==
  /\ Root \notin Nodes /\ None \notin Nodes \cup {Root}
  /\ None \notin Names \cup Paths
  /\ IsFiniteSet(Handles) /\ IsFiniteSet(Nodes)
  /\ MaxDepth \in Nat \ {0}

VARIABLES
  table,       \* <<parent, name>> -> node
  parent, name,\* the key of an allocated node
  refCount,    \* _refCount without the token bit
  hasToken,    \* HasTokenBit of _refCount
  tokens,      \* _pathTokenTable: node -> the path it was made for
  node,        \* each handle's node
  pc,
  dying        \* the nodes each handle's thread is destroying, last first

nodeVars == <<table, parent, name, refCount, hasToken, tokens>>
vars == <<table, parent, name, refCount, hasToken, tokens, node, pc, dying>>

Keys   == (Nodes \cup {Root}) \X Names
Labels == {"idle", "remove", "token", "parent", "free"}

Allocated(n) == name[n] # None

(* The path of a node: the names from the root down to it.  Line[d] has    *)
(* the last d of them.                                                     *)
Line[d \in 0..MaxDepth] ==
  [n \in Nodes \cup {Root, None} |->
     IF d = 0 \/ n \notin Nodes THEN << >>
     ELSE Append(Line[d - 1][parent[n]], name[n])]

PathOf(n) == Line[MaxDepth][n]

TypeOK ==
  /\ table \in [Keys -> Nodes \cup {None}]
  /\ parent \in [Nodes -> Nodes \cup {Root, None}]
  /\ name \in [Nodes -> Names \cup {None}]
  /\ refCount \in [Nodes -> Nat]
  /\ hasToken \in [Nodes -> BOOLEAN]
  /\ DOMAIN tokens = Nodes
  /\ node \in [Handles -> Nodes \cup {None}]
  /\ pc \in [Handles -> Labels]
  /\ dying \in [Handles -> Seq(Nodes)]

Init ==
  /\ table = [k \in Keys |-> None]
  /\ parent = [n \in Nodes |-> None]
  /\ name = [n \in Nodes |-> None]
  /\ refCount = [n \in Nodes |-> 0]
  /\ hasToken = [n \in Nodes |-> FALSE]
  /\ tokens = [n \in Nodes |-> << >>]
  /\ node = [h \in Handles |-> None]
  /\ pc = [h \in Handles |-> "idle"]
  /\ dying = [h \in Handles |-> << >>]

Empty(h) == pc[h] = "idle" /\ node[h] = None
Held(h)  == pc[h] = "idle" /\ node[h] # None

(* The nodes a client may use as a parent: it has a handle of them. *)
Parents == {Root} \cup {node[h] : h \in {u \in Handles : Held(u)}}

(***************************************************************************)
(* _FindOrCreate(table, parent, name), all under the lock of the shard.    *)
(***************************************************************************)
(* New<T>(parent, name): allocate and construct, which counts the parent.  *)
(* counted is what refCount was, or the dying node counted once more.      *)
New(h, p, x, counted) ==
  \E n \in Nodes :
    /\ ~Allocated(n)
    /\ parent' = [parent EXCEPT ![n] = p]
    /\ name' = [name EXCEPT ![n] = x]
    /\ refCount' = [m \in Nodes |->
         IF m = n THEN 1 ELSE IF m = p THEN counted[m] + 1 ELSE counted[m]]
    /\ hasToken' = [hasToken EXCEPT ![n] = FALSE]
    /\ table' = [table EXCEPT ![<<p, x>>] = n]
    /\ node' = [node EXCEPT ![h] = n]
    /\ UNCHANGED <<tokens, pc, dying>>

FindLive(h, p, x) ==
  LET n == table[<<p, x>>] IN
  /\ Empty(h) /\ n # None /\ refCount[n] # 0
  /\ refCount' = [refCount EXCEPT ![n] = @ + 1]
  /\ node' = [node EXCEPT ![h] = n]
  /\ UNCHANGED <<table, parent, name, hasToken, tokens, pc, dying>>

(* The node found had begun dying: it is counted all the same, and         *)
(* replaced in the table.                                                  *)
ReplaceDying(h, p, x) ==
  LET n == table[<<p, x>>] IN
  /\ Empty(h) /\ n # None /\ refCount[n] = 0
  /\ New(h, p, x, [refCount EXCEPT ![n] = @ + 1])

Create(h, p, x) ==
  /\ Empty(h) /\ table[<<p, x>>] = None
  /\ New(h, p, x, refCount)

FindOrCreate(h, p, x) ==
  /\ Len(PathOf(p)) < MaxDepth
  /\ FindLive(h, p, x) \/ ReplaceDying(h, p, x) \/ Create(h, p, x)

(* Copying a handle, and taking the parent of one, count without a lock:   *)
(* the node has a count that cannot go away meanwhile.                     *)
AddRef(h, n) ==
  /\ Empty(h)
  /\ node' = [node EXCEPT ![h] = n]
  /\ refCount' = [refCount EXCEPT ![n] = @ + 1]
  /\ UNCHANGED <<table, parent, name, hasToken, tokens, pc, dying>>

CopyHandle(h, u) == Held(u) /\ AddRef(h, node[u])

GetParent(h, u) ==
  /\ Held(u) /\ parent[node[u]] # Root
  /\ AddRef(h, parent[node[u]])

(***************************************************************************)
(* GetPathToken: the bit is set first, then the path is cached.  The       *)
(* handle is held, so this is one step of the thread that holds it.        *)
(***************************************************************************)
GetPathToken(h) ==
  LET n == node[h] IN
  /\ Held(h)
  /\ hasToken' = [hasToken EXCEPT ![n] = TRUE]
  /\ tokens' = [tokens EXCEPT ![n] = IF @ = << >> THEN PathOf(n) ELSE @]
  /\ UNCHANGED <<table, parent, name, refCount, node, pc, dying>>

(***************************************************************************)
(* intrusive_ptr_release, and what _Destroy does: the destructor of the    *)
(* derived node looks for itself in the table, that of Sdf_PathNode drops  *)
(* the token, _parent is released, which may destroy the parent in turn,   *)
(* and at last the memory goes back to the pool.                           *)
(***************************************************************************)
Release(h) ==
  LET n == node[h] IN
  /\ Held(h)
  /\ refCount' = [refCount EXCEPT ![n] = @ - 1]
  /\ node' = [node EXCEPT ![h] = None]
  /\ IF refCount[n] = 1
     THEN /\ dying' = [dying EXCEPT ![h] = <<n>>]
          /\ pc' = [pc EXCEPT ![h] = "remove"]
     ELSE UNCHANGED <<dying, pc>>
  /\ UNCHANGED <<table, parent, name, hasToken, tokens>>

(* Mutant: whatever node the key has is erased.                            *)
RemoveWhatever(h) ==
  LET n == Head(dying[h]) IN
  /\ pc[h] = "remove"
  /\ table' = [table EXCEPT ![<<parent[n], name[n]>>] = None]
  /\ pc' = [pc EXCEPT ![h] = "token"]
  /\ UNCHANGED <<parent, name, refCount, hasToken, tokens, node, dying>>

(* _Remove, under the lock: only this very node is erased. *)
Remove(h) ==
  LET n == Head(dying[h])
      k == <<parent[n], name[n]>> IN
  /\ pc[h] = "remove"
  /\ table' = IF table[k] = n THEN [table EXCEPT ![k] = None] ELSE table
  /\ pc' = [pc EXCEPT ![h] = "token"]
  /\ UNCHANGED <<parent, name, refCount, hasToken, tokens, node, dying>>

RemovePathToken(h) ==
  LET n == Head(dying[h]) IN
  /\ pc[h] = "token"
  /\ tokens' = IF hasToken[n] THEN [tokens EXCEPT ![n] = << >>] ELSE tokens
  /\ pc' = [pc EXCEPT ![h] = "parent"]
  /\ UNCHANGED <<table, parent, name, refCount, hasToken, node, dying>>

ReleaseParent(h) ==
  LET p == parent[Head(dying[h])] IN
  /\ pc[h] = "parent"
  /\ IF p = Root
     THEN /\ pc' = [pc EXCEPT ![h] = "free"]
          /\ UNCHANGED <<refCount, dying>>
     ELSE /\ refCount' = [refCount EXCEPT ![p] = @ - 1]
          /\ IF refCount[p] = 1
             THEN /\ dying' = [dying EXCEPT ![h] = <<p>> \o @]
                  /\ pc' = [pc EXCEPT ![h] = "remove"]
             ELSE /\ pc' = [pc EXCEPT ![h] = "free"]
                  /\ UNCHANGED dying
  /\ UNCHANGED <<table, parent, name, hasToken, tokens, node>>

Free(h) ==     \* operator delete
  LET n == Head(dying[h]) IN
  /\ pc[h] = "free"
  /\ name' = [name EXCEPT ![n] = None]
  /\ parent' = [parent EXCEPT ![n] = None]
  /\ refCount' = [refCount EXCEPT ![n] = 0]     \* whatever the memory holds
  /\ hasToken' = [hasToken EXCEPT ![n] = FALSE]
  /\ dying' = [dying EXCEPT ![h] = Tail(@)]
  /\ pc' = [pc EXCEPT ![h] = IF Len(dying[h]) = 1 THEN "idle" ELSE "free"]
  /\ UNCHANGED <<table, tokens, node>>

Destroy(h) ==
  \/ Remove(h) \/ RemovePathToken(h) \/ ReleaseParent(h) \/ Free(h)

Step(h) ==
  \/ \E p \in Parents, x \in Names : FindOrCreate(h, p, x)
  \/ \E u \in Handles : CopyHandle(h, u) \/ GetParent(h, u)
  \/ GetPathToken(h)
  \/ Release(h)
  \/ Destroy(h)

Next == \E h \in Handles : Step(h)

Spec == Init /\ [][Next]_vars

-----------------------------------------------------------------------------
(***************************************************************************)
(* Nothing dangles: the table's entries are nodes of that key, their       *)
(* parents are allocated, and so is every node that is to be destroyed,    *)
(* which one thread does once.                                             *)
(***************************************************************************)
NothingDangles ==
  /\ \A k \in Keys : table[k] # None =>
       /\ parent[table[k]] = k[1] /\ name[table[k]] = k[2]
       /\ k[1] = Root \/ Allocated(k[1])
  /\ \A h, u \in Handles :
       \A i \in DOMAIN dying[h], j \in DOMAIN dying[u] :
         /\ Allocated(dying[h][i])
         /\ dying[h][i] = dying[u][j] => h = u /\ i = j

(***************************************************************************)
(* A node that has a count is in the table, has exactly the count of its   *)
(* handles and of the children that have not released it, and a node       *)
(* without one is being destroyed: nothing leaks.                          *)
(***************************************************************************)
IsDying(n) == \E h \in Handles : \E i \in DOMAIN dying[h] : dying[h][i] = n

HasReleasedParent(n) ==
  \E h \in Handles : \E i \in DOMAIN dying[h] :
    dying[h][i] = n /\ (i > 1 \/ pc[h] = "free")

CountIsExact ==
  \A n \in Nodes : Allocated(n) /\ ~IsDying(n) =>
    /\ table[<<parent[n], name[n]>>] = n
    /\ refCount[n] > 0
    /\ refCount[n] = Cardinality({h \in Handles : node[h] = n})
         + Cardinality({m \in Nodes : parent[m] = n /\ ~HasReleasedParent(m)})

(***************************************************************************)
(* The inductive invariant of NothingDangles and CountIsExact: what has a  *)
(* handle, or a child that has not released it, lives; what is dying is in *)
(* the table only until its thread has looked, and then it has no count.   *)
(***************************************************************************)
Live(n) == Allocated(n) /\ ~IsDying(n)

Removed(n) ==
  \E h \in Handles : \E i \in DOMAIN dying[h] :
    dying[h][i] = n /\ (i > 1 \/ pc[h] # "remove")

ThreadsAreShaped ==
  \A h \in Handles :
    /\ pc[h] = "idle" <=> dying[h] = << >>
    /\ pc[h] # "idle" => node[h] = None

ParentsAreKnown == \A n \in Nodes : Allocated(n) <=> parent[n] # None

LiveIsUsed ==
  /\ \A h \in Handles : node[h] # None => Live(node[h])
  /\ \A m \in Nodes :
       Allocated(m) /\ ~HasReleasedParent(m) /\ parent[m] # Root
         => Live(parent[m])

DyingIsOut ==
  \A n \in Nodes : Allocated(n) /\ table[<<parent[n], name[n]>>] = n =>
    ~Removed(n) /\ (IsDying(n) => refCount[n] = 0)

IInv ==
  /\ TypeOK /\ ThreadsAreShaped /\ ParentsAreKnown
  /\ NothingDangles /\ CountIsExact /\ LiveIsUsed /\ DyingIsOut

(***************************************************************************)
(* The table of path tokens is keyed by addresses: an entry is that of the *)
(* node that has the address now, so no path is given another's token.     *)
(***************************************************************************)
TokensAreFresh ==
  \A n \in Nodes : tokens[n] # << >> => Allocated(n) /\ tokens[n] = PathOf(n)

(***************************************************************************)
(* What TokensAreFresh rests on: the nodes of a path stand until the child *)
(* releases them, and a node drops its token before it releases anything.  *)
(***************************************************************************)
HasDroppedToken(n) ==
  \E h \in Handles : \E i \in DOMAIN dying[h] :
    dying[h][i] = n /\ (i > 1 \/ pc[h] \in {"parent", "free"})

PathsAreKept ==
  /\ \A n \in Nodes : Allocated(n) /\ ~HasReleasedParent(n) =>
       Len(PathOf(parent[n])) < MaxDepth
  /\ \A n \in Nodes : tokens[n] # << >> =>
       /\ Allocated(n) /\ hasToken[n] /\ ~HasDroppedToken(n)
       /\ tokens[n] = PathOf(n)

(***************************************************************************)
(* The tables are those of the nodes in use.                               *)
(***************************************************************************)
NodesAreExact == TypeOK /\ NothingDangles /\ CountIsExact /\ TokensAreFresh

(***************************************************************************)
(* Equal paths are equal pointers: while handles of a path are in use they *)
(* have the same node, although a node of that path may be dying beside it *)
(* and its address may have belonged to another path.                      *)
(***************************************************************************)
Sharing == INSTANCE SharedObjects WITH
  Users <- Handles, Objects <- Nodes, Keys <- Paths,
  ref <- node,
  key <- [n \in Nodes |->
            IF \E h \in Handles : node[h] = n THEN PathOf(n) ELSE None]

ImplementsSharing == Sharing!Spec
=============================================================================
