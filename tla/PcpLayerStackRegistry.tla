------------------------- MODULE PcpLayerStackRegistry -------------------------
(***************************************************************************)
(* Pcp_LayerStackRegistry: the layer stacks of a cache, held weakly and    *)
(* found by identifier, and which of them use which layer.  A layer stack  *)
(* is computed without the lock, so threads may compute the same one, and  *)
(* one that is being destroyed removes itself later, under the lock.       *)
(*                                                                         *)
(* A section of the readers-writer lock is one step where it makes no call *)
(* that could need the lock again.  Muted layers are recorded like the     *)
(* layers of a stack and left out.                                         *)
(***************************************************************************)
EXTENDS Naturals, FiniteSets

CONSTANTS
  Threads,
  Stacks,      \* the addresses of layer stacks
  Ids,         \* PcpLayerStackIdentifier
  Layers,
  None

ASSUME LayerStackAssumption ==
  None \notin Threads \cup Stacks \cup Ids /\ IsFiniteSet(Threads)

VARIABLES
  identifierToLayerStack,
  layerStackToLayers,
  layerToLayerStacks,
  writer,      \* the thread that has the lock to write
  id,          \* _identifier of an allocated layer stack
  refCount,
  layers,      \* _layers
  linked,      \* _registry is set
  pc,
  want,        \* the identifier a call of FindOrCreate is for
  created,     \* createdLayerStack
  held         \* the layer stack each thread keeps, or is about to return

mapVars == <<identifierToLayerStack, layerStackToLayers, layerToLayerStacks>>
stackVars == <<id, refCount, layers, linked>>
vars == <<mapVars, writer, stackVars, pc, want, created, held>>

Labels == {"idle", "find", "compute", "install", "dropCreated", "blow",
           "unregister", "free", "unlock"}

TypeOK ==
  /\ identifierToLayerStack \in [Ids -> Stacks \cup {None}]
  /\ layerStackToLayers \in [Stacks -> SUBSET Layers]
  /\ layerToLayerStacks \in [Layers -> SUBSET Stacks]
  /\ writer \in Threads \cup {None}
  /\ id \in [Stacks -> Ids \cup {None}]
  /\ refCount \in [Stacks -> Nat]
  /\ layers \in [Stacks -> SUBSET Layers]
  /\ linked \in [Stacks -> BOOLEAN]
  /\ pc \in [Threads -> Labels]
  /\ want \in [Threads -> Ids \cup {None}]
  /\ created \in [Threads -> Stacks \cup {None}]
  /\ held \in [Threads -> Stacks \cup {None}]

Init ==
  /\ identifierToLayerStack = [i \in Ids |-> None]
  /\ layerStackToLayers = [s \in Stacks |-> {}]
  /\ layerToLayerStacks = [l \in Layers |-> {}]
  /\ writer = None
  /\ id = [s \in Stacks |-> None]
  /\ refCount = [s \in Stacks |-> 0]
  /\ layers = [s \in Stacks |-> {}]
  /\ linked = [s \in Stacks |-> FALSE]
  /\ pc = [t \in Threads |-> "idle"]
  /\ want = [t \in Threads |-> None]
  /\ created = [t \in Threads |-> None]
  /\ held = [t \in Threads |-> None]

Goto(t, label) == pc' = [pc EXCEPT ![t] = label]

(* _SetLayers(s): the two maps, for the layers ls the stack has now.       *)
SetLayers(s, ls) ==
  /\ layerStackToLayers' = [layerStackToLayers EXCEPT ![s] = ls]
  /\ layerToLayerStacks' = [l \in Layers |->
       IF l \in ls THEN layerToLayerStacks[l] \cup {s}
       ELSE IF l \in layerStackToLayers[s] THEN layerToLayerStacks[l] \ {s}
       ELSE layerToLayerStacks[l]]

(* TfCreateRefPtrFromProtectedWeakPtr(_Find(i)) gives a reference, unless  *)
(* there is no entry or the count of the entry's stack is zero.            *)
Alive(i) ==
  /\ identifierToLayerStack[i] # None
  /\ refCount[identifierToLayerStack[i]] > 0

TakeReference(t, i) ==
  LET s == identifierToLayerStack[i] IN
  /\ held' = [held EXCEPT ![t] = s]
  /\ refCount' = [refCount EXCEPT ![s] = @ + 1]

(***************************************************************************)
(* FindOrCreate(identifier)                                                *)
(***************************************************************************)
Call(t) ==
  /\ pc[t] = "idle" /\ held[t] = None
  /\ \E i \in Ids : want' = [want EXCEPT ![t] = i]
  /\ Goto(t, "find")
  /\ UNCHANGED <<mapVars, writer, stackVars, created, held>>

(* With the lock to read. *)
Find(t) ==
  /\ pc[t] = "find" /\ writer = None
  /\ IF Alive(want[t])
     THEN /\ TakeReference(t, want[t])
          /\ want' = [want EXCEPT ![t] = None]
          /\ Goto(t, "idle")
     ELSE Goto(t, "compute") /\ UNCHANGED <<held, refCount, want>>
  /\ UNCHANGED <<mapVars, writer, id, layers, linked, created>>

(* new PcpLayerStack(identifier, *this), without the lock. *)
Compute(t) ==
  /\ pc[t] = "compute"
  /\ \E s \in Stacks, ls \in SUBSET Layers :
       /\ id[s] = None
       /\ id' = [id EXCEPT ![s] = want[t]]
       /\ refCount' = [refCount EXCEPT ![s] = 1]
       /\ layers' = [layers EXCEPT ![s] = ls]
       /\ created' = [created EXCEPT ![t] = s]
  /\ Goto(t, "install")
  /\ UNCHANGED <<mapVars, writer, linked, want, held>>

(* With the lock to write: another thread's stack is there ...             *)
InstallLoses(t) ==
  /\ pc[t] = "install" /\ writer = None /\ Alive(want[t])
  /\ TakeReference(t, want[t])
  /\ writer' = t
  /\ Goto(t, "dropCreated")
  /\ UNCHANGED <<mapVars, id, layers, linked, want, created>>

(* ... or there is none, or one that is being deleted.                     *)
Install(t) ==
  LET s == created[t] IN
  /\ pc[t] = "install" /\ writer = None /\ ~Alive(want[t])
  /\ identifierToLayerStack' = [identifierToLayerStack EXCEPT ![want[t]] = s]
  /\ linked' = [linked EXCEPT ![s] = TRUE]
  /\ SetLayers(s, layers[s])
  /\ held' = [held EXCEPT ![t] = s]
  /\ created' = [created EXCEPT ![t] = None]
  /\ want' = [want EXCEPT ![t] = None]
  /\ Goto(t, "idle")
  /\ UNCHANGED <<writer, id, refCount, layers>>

(* The stack that lost is destroyed where its scope ends, and the lock is  *)
(* still held there.                                                       *)
DropCreated(t) ==
  /\ pc[t] = "dropCreated"
  /\ refCount' = [refCount EXCEPT ![created[t]] = @ - 1]
  /\ Goto(t, "blow")
  /\ UNCHANGED <<mapVars, writer, id, layers, linked, want, created, held>>

(***************************************************************************)
(* The last reference goes: ~PcpLayerStack.  While a thread destroys a     *)
(* stack, created holds it.                                                *)
(***************************************************************************)
Release(t) ==
  LET s == held[t] IN
  /\ pc[t] = "idle" /\ s # None
  /\ refCount' = [refCount EXCEPT ![s] = @ - 1]
  /\ held' = [held EXCEPT ![t] = None]
  /\ IF refCount[s] = 1
     THEN created' = [created EXCEPT ![t] = s] /\ Goto(t, "blow")
     ELSE UNCHANGED <<created, pc>>
  /\ UNCHANGED <<mapVars, writer, id, layers, linked, want>>

BlowLayers(t) ==
  LET s == created[t] IN
  /\ pc[t] = "blow"
  /\ layers' = [layers EXCEPT ![s] = {}]
  /\ Goto(t, IF linked[s] THEN "unregister" ELSE "free")
  /\ UNCHANGED <<mapVars, writer, id, refCount, linked, want, created, held>>

(* Mutant: whatever the identifier finds is removed.                       *)
RemoveWhatever(t) ==
  LET s == created[t] IN
  /\ pc[t] = "unregister" /\ writer = None
  /\ SetLayers(s, layers[s])
  /\ identifierToLayerStack' = [identifierToLayerStack EXCEPT ![id[s]] = None]
  /\ Goto(t, "free")
  /\ UNCHANGED <<writer, stackVars, want, created, held>>

SetLayersAndRemove(t) ==      \* with the lock to write
  LET s == created[t] IN
  /\ pc[t] = "unregister" /\ writer = None
  /\ SetLayers(s, layers[s])
  /\ identifierToLayerStack' =
       IF identifierToLayerStack[id[s]] = s
       THEN [identifierToLayerStack EXCEPT ![id[s]] = None]
       ELSE identifierToLayerStack
  /\ Goto(t, "free")
  /\ UNCHANGED <<writer, stackVars, want, created, held>>

Free(t) ==
  LET s == created[t] IN
  /\ pc[t] = "free"
  /\ id' = [id EXCEPT ![s] = None]
  /\ linked' = [linked EXCEPT ![s] = FALSE]
  /\ created' = [created EXCEPT ![t] = None]
  /\ Goto(t, IF writer = t THEN "unlock" ELSE "idle")
  /\ UNCHANGED <<mapVars, writer, refCount, layers, want, held>>

Unlock(t) ==
  /\ pc[t] = "unlock"
  /\ writer' = None
  /\ want' = [want EXCEPT ![t] = None]
  /\ Goto(t, "idle")
  /\ UNCHANGED <<mapVars, stackVars, created, held>>

(***************************************************************************)
(* PcpLayerStack::Apply blows the layers, computes them anew and sets them *)
(* in the registry without its lock: changes are processed while nobody    *)
(* composes.                                                               *)
(***************************************************************************)
Apply(s) ==
  /\ \A t \in Threads : pc[t] = "idle"
  /\ id[s] # None /\ linked[s]
  /\ \E ls \in SUBSET Layers :
       /\ layers' = [layers EXCEPT ![s] = ls]
       /\ SetLayers(s, ls)
  /\ UNCHANGED <<identifierToLayerStack, writer, id, refCount, linked, pc,
                 want, created, held>>

Returns(t) ==     \* the steps of a call that was made
  \/ Find(t) \/ Compute(t) \/ InstallLoses(t) \/ Install(t)
  \/ DropCreated(t) \/ BlowLayers(t) \/ SetLayersAndRemove(t) \/ Free(t)
  \/ Unlock(t)

Next ==
  \/ \E t \in Threads : Call(t) \/ Returns(t) \/ Release(t)
  \/ \E s \in Stacks : Apply(s)

Spec == Init /\ [][Next]_vars

-----------------------------------------------------------------------------
(***************************************************************************)
(* FindAllUsingLayer is exact: the two maps are each other's inverse, and  *)
(* record the layers of every registered stack, until the stack begins to  *)
(* be destroyed.                                                           *)
(***************************************************************************)
UsesAreExact ==
  \A s \in Stacks :
    /\ \A l \in Layers : s \in layerToLayerStacks[l] <=> l \in layerStackToLayers[s]
    /\ linked[s] /\ refCount[s] > 0 => layerStackToLayers[s] = layers[s]

(***************************************************************************)
(* No map names a stack that is gone ("Unexpected dead layer stack"), and  *)
(* a registered stack that is in use is the one its identifier finds.      *)
(***************************************************************************)
EntriesAreStacks ==
  /\ \A i \in Ids : identifierToLayerStack[i] # None
                      => id[identifierToLayerStack[i]] = i
  /\ \A s \in Stacks :
       /\ layerStackToLayers[s] # {} => id[s] # None
       /\ linked[s] /\ refCount[s] > 0 => identifierToLayerStack[id[s]] = s

(***************************************************************************)
(* A stack that lost the race has no link to the registry, so destroying   *)
(* it inside the section does not need the lock that the thread has.       *)
(***************************************************************************)
NoSelfDeadlock ==
  \A t \in Threads : writer = t => pc[t] # "unregister"

(***************************************************************************)
(* What makes the three hold, and is inductive.  At every label it is      *)
(* known what a thread has at hand; whoever has created or destroys a      *)
(* stack is alone with it; a stack in the registry is counted exactly; and *)
(* what is not linked, or about to be freed, no map names.                 *)
(***************************************************************************)
CallShape ==
  \A t \in Threads :
    LET s == created[t] IN
    /\ s # None <=> pc[t] \notin {"idle", "find", "compute", "unlock"}
    /\ pc[t] # "idle" /\ writer # t => held[t] = None
    /\ writer = t <=> held[t] # None /\ pc[t] # "idle"
    /\ writer = t => pc[t] \in {"dropCreated", "blow", "free", "unlock"}
    /\ pc[t] \in {"dropCreated", "unlock"} => writer = t
    /\ pc[t] \in {"find", "compute", "install"} => want[t] \in Ids
    /\ pc[t] \in {"install", "dropCreated"} => ~linked[s] /\ refCount[s] = 1
    /\ pc[t] = "install" => id[s] = want[t]
    /\ pc[t] \in {"blow", "unregister", "free"} => refCount[s] = 0
    /\ pc[t] = "blow" /\ writer = t => ~linked[s]
    /\ pc[t] = "unregister" => linked[s] /\ layers[s] = {}
    /\ pc[t] = "free" => /\ layerStackToLayers[s] = {}
                         /\ identifierToLayerStack[id[s]] # s

CreatedAlone ==
  \A t \in Threads : created[t] # None =>
    /\ id[created[t]] # None
    /\ \A u \in Threads : held[u] # created[t] /\ (u # t => created[u] # created[t])

Holders(s) == {t \in Threads : held[t] = s}

Counted ==
  \A s \in Stacks :
    /\ linked[s] => id[s] # None /\ refCount[s] = Cardinality(Holders(s))
    /\ ~linked[s] => /\ Holders(s) = {} /\ layerStackToLayers[s] = {}
                     /\ \A i \in Ids : identifierToLayerStack[i] # s

IInv ==
  /\ TypeOK /\ UsesAreExact /\ EntriesAreStacks /\ NoSelfDeadlock
  /\ CallShape /\ CreatedAlone /\ Counted

(***************************************************************************)
(* The layer stacks of an identifier are shared: at most one is in use,    *)
(* and it is the same for every thread that asks.                          *)
(***************************************************************************)
SharedId ==
  [s \in Stacks |-> IF \E t \in Threads : held[t] = s THEN id[s] ELSE None]

Sharing == INSTANCE SharedObjects WITH
  Users <- Threads, Objects <- Stacks, Keys <- Ids, ref <- held, key <- SharedId

ImplementsSharing == Sharing!Spec
=============================================================================
