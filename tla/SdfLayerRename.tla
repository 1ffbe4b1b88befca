---------------------------- MODULE SdfLayerRename ----------------------------
(***************************************************************************)
(* SdfLayer::SetIdentifier (pxr/usd/sdf/layer.cpp) against the registry of *)
(* layers (layerRegistry.cpp), whose keys are the identifier of a layer    *)
(* and the real path it resolves to.  SdfLayerRegistry models how layers   *)
(* come and go; here they exist throughout and change their keys.          *)
(*                                                                         *)
(* SetIdentifier looks for a layer of the new name under the lock of the   *)
(* registry, first as a reader and, having found none, as a writer.  The   *)
(* search gives the lock up as soon as it finds a layer, and also when it  *)
(* finds the very layer that is renamed.  A layer is renamed in two steps: *)
(* its own data, from which the keys are computed, then the tables.        *)
(***************************************************************************)
EXTENDS Naturals

CONSTANTS Threads,
          Layers,
          Identifiers,
          RealPath,    \* RealPath[i]: what identifier i resolves to
          Original,    \* Original[l]: the identifier l was opened with
          None

(* Of the constants; the modules that give them values assume it.          *)
RenameAssumption ==
    /\ None \notin Threads \cup Layers \cup Identifiers
    /\ DOMAIN RealPath = Identifiers
    /\ Original \in [Layers -> Identifiers]
    /\ \A k, l \in Layers : k # l => RealPath[Original[k]] # RealPath[Original[l]]

VARIABLES identifier,  \* identifier[l], of _assetInfo
          entry,       \* entry[l]: the identifier the tables have l under
          readers,     \* the threads with the registry's lock to read
          writer,      \* the thread with the lock to write
          pc,
          layer,       \* layer[t]: the layer t renames
          name         \* name[t]: the identifier t looks for

vars == <<identifier, entry, readers, writer, pc, layer, name>>

Labels == {"idle", "find", "upgrade", "wait", "refind", "swap", "update",
           "look"}

TypeOK == /\ identifier \in [Layers -> Identifiers]
          /\ entry \in [Layers -> Identifiers \cup {None}]
          /\ readers \subseteq Threads /\ writer \in Threads \cup {None}
          /\ pc \in [Threads -> Labels]
          /\ layer \in [Threads -> Layers \cup {None}]
          /\ name \in [Threads -> Identifiers \cup {None}]

Init == /\ identifier = Original /\ entry = Original
        /\ readers = {} /\ writer = None
        /\ pc = [t \in Threads |-> "idle"]
        /\ layer = [t \in Threads |-> None]
        /\ name = [t \in Threads |-> None]

Goto(t, l) == pc' = [pc EXCEPT ![t] = l]

(***************************************************************************)
(* The layers a search for identifier i may return.  A layer is in the     *)
(* bucket of its entry, where it is recognised by its own data.            *)
(***************************************************************************)
ByIdentifier(i) == {l \in Layers : entry[l] = i /\ identifier[l] = i}

ByRealPath(i) == {l \in Layers : /\ entry[l] # None
                                 /\ RealPath[entry[l]] = RealPath[i]
                                 /\ RealPath[identifier[l]] = RealPath[i]}

Find(i) == IF ByIdentifier(i) # {} THEN ByIdentifier(i) ELSE ByRealPath(i)

-----------------------------------------------------------------------------
(***************************************************************************)
(* SdfLayer::Find, which returns what it finds.                            *)
(***************************************************************************)
BeginFind(t, i) ==
    /\ pc[t] = "idle" /\ writer = None
    /\ readers' = readers \cup {t}
    /\ name' = [name EXCEPT ![t] = i]
    /\ Goto(t, "look")
    /\ UNCHANGED <<identifier, entry, writer, layer>>

EndFind(t) ==
    /\ pc[t] = "look"
    /\ readers' = readers \ {t}
    /\ name' = [name EXCEPT ![t] = None]
    /\ Goto(t, "idle")
    /\ UNCHANGED <<identifier, entry, writer, layer>>

-----------------------------------------------------------------------------
(***************************************************************************)
(* SetIdentifier.  The threading rule of sdf: nobody else edits the layer. *)
(***************************************************************************)
SetIdentifier(t, l, i) ==
    /\ pc[t] = "idle" /\ writer = None
    /\ \A u \in Threads : layer[u] # l
    /\ readers' = readers \cup {t}
    /\ layer' = [layer EXCEPT ![t] = l]
    /\ name' = [name EXCEPT ![t] = i]
    /\ Goto(t, "find")
    /\ UNCHANGED <<identifier, entry, writer>>

(***************************************************************************)
(* The search under whichever lock t has.  Finding a layer releases the    *)
(* lock: another layer is an error, the same one is renamed all the same.  *)
(***************************************************************************)
Found(t) ==
    /\ Find(name[t]) # {}
    /\ readers' = readers \ {t}
    /\ writer' = IF writer = t THEN None ELSE writer
    /\ IF layer[t] \in Find(name[t])
       THEN Goto(t, "swap") /\ UNCHANGED <<layer, name>>
       ELSE /\ Goto(t, "idle")
            /\ layer' = [layer EXCEPT ![t] = None]
            /\ name' = [name EXCEPT ![t] = None]
    /\ UNCHANGED <<identifier, entry>>

NotFound(t, l) ==
    /\ Find(name[t]) = {}
    /\ Goto(t, l)
    /\ UNCHANGED <<identifier, entry, readers, writer, layer, name>>

FindAsReader(t) == pc[t] = "find" /\ (Found(t) \/ NotFound(t, "upgrade"))

(***************************************************************************)
(* upgrade_to_writer: the only reader may become the writer; or the lock   *)
(* is released first and the search is repeated.                           *)
(***************************************************************************)
UpgradeToWriter(t) ==
    /\ pc[t] = "upgrade"
    /\ readers' = readers \ {t}
    /\ \/ readers = {t} /\ writer' = t /\ Goto(t, "swap")
       \/ UNCHANGED writer /\ Goto(t, "wait")
    /\ UNCHANGED <<identifier, entry, layer, name>>

(***************************************************************************)
(* Mutant: what was found with the lock to read is believed.               *)
(***************************************************************************)
LockAndSwap(t) ==
    /\ pc[t] = "wait" /\ readers = {} /\ writer = None
    /\ writer' = t /\ Goto(t, "swap")
    /\ UNCHANGED <<identifier, entry, readers, layer, name>>

LockToWrite(t) ==
    /\ pc[t] = "wait" /\ readers = {} /\ writer = None
    /\ writer' = t /\ Goto(t, "refind")
    /\ UNCHANGED <<identifier, entry, readers, layer, name>>

FindAsWriter(t) == pc[t] = "refind" /\ (Found(t) \/ NotFound(t, "swap"))

Return(t) ==
    /\ writer' = IF writer = t THEN None ELSE writer
    /\ layer' = [layer EXCEPT ![t] = None]
    /\ name' = [name EXCEPT ![t] = None]
    /\ Goto(t, "idle")

(***************************************************************************)
(* _InitializeFromIdentifier, first part: nothing to do when nothing       *)
(* changes, otherwise the layer's own data are replaced.                   *)
(***************************************************************************)
SwapAssetInfo(t) ==
    /\ pc[t] = "swap"
    /\ identifier' = [identifier EXCEPT ![layer[t]] = name[t]]
    /\ IF identifier[layer[t]] = name[t]
       THEN Return(t)
       ELSE Goto(t, "update") /\ UNCHANGED <<writer, layer, name>>
    /\ UNCHANGED <<entry, readers>>

(***************************************************************************)
(* Its second part, InsertOrUpdate: the tables are brought in line with    *)
(* the layer's data.  A layer whose real path another one has drops out.   *)
(***************************************************************************)
InsertOrUpdate(t) ==
    LET l == layer[t]
        taken == \E k \in Layers \ {l} :
                    entry[k] # None /\ RealPath[entry[k]] = RealPath[identifier[l]]
    IN /\ pc[t] = "update"
       /\ entry' = [entry EXCEPT ![l] = IF taken THEN None ELSE identifier[l]]
       /\ Return(t)
       /\ UNCHANGED <<identifier, readers>>

Next == \E t \in Threads :
          \/ \E i \in Identifiers : \/ BeginFind(t, i)
                                    \/ \E l \in Layers : SetIdentifier(t, l, i)
          \/ EndFind(t)
          \/ FindAsReader(t) \/ UpgradeToWriter(t) \/ LockToWrite(t)
          \/ FindAsWriter(t) \/ SwapAssetInfo(t) \/ InsertOrUpdate(t)

Spec == Init /\ [][Next]_vars

-----------------------------------------------------------------------------
(***************************************************************************)
(* Properties.                                                             *)
(***************************************************************************)

(***************************************************************************)
(* No layer ever drops out of the registry because another has taken its   *)
(* real path, and a layer that nobody renames is found by its identifier.  *)
(***************************************************************************)
LayersStayRegistered ==
    \A l \in Layers : /\ entry[l] # None
                      /\ (\A t \in Threads : layer[t] # l) =>
                             entry[l] = identifier[l]

(***************************************************************************)
(* A thread that updates the registry has its lock to write, and nobody    *)
(* else is reading or updating.                                            *)
(***************************************************************************)
UpdatesAreExclusive ==
    \A t \in Threads : pc[t] = "update" => writer = t /\ readers = {}

(***************************************************************************)
(* What the steps preserve together.  A reader, and nobody else, is at a   *)
(* search or an upgrade, and a writer has passed one.                      *)
(***************************************************************************)
LockIsHeld ==
    /\ \A t \in Threads :
         /\ pc[t] \in {"look", "find", "upgrade"} <=> t \in readers
         /\ pc[t] = "refind" => writer = t
         /\ writer = t => pc[t] \in {"refind", "swap", "update"}
    /\ writer # None => readers = {}

(* A thread renames a layer of its own.                                    *)
RenamesAreApart ==
    \A t \in Threads :
      /\ layer[t] = None <=> pc[t] \in {"idle", "look"}
      /\ name[t] = None <=> pc[t] = "idle"
      /\ \A u \in Threads : layer[t] # None /\ layer[t] = layer[u] => t = u

(* The tables have every layer under a real path of its own: with a lock,  *)
(* the new one is nobody else's, and without, it is the layer's already.   *)
RealPathsAreApart ==
    /\ \A k, l \in Layers : k # l => RealPath[entry[k]] # RealPath[entry[l]]
    /\ \A t \in Threads :
         /\ \/ pc[t] = "upgrade"
            \/ writer = t /\ pc[t] \in {"swap", "update"}
            => \A k \in Layers \ {layer[t]} : RealPath[entry[k]] # RealPath[name[t]]
         /\ writer # t /\ pc[t] \in {"swap", "update"}
            => RealPath[entry[layer[t]]] = RealPath[name[t]]

(* The tables agree with a layer's data, but between its two updates.      *)
TablesFollow ==
    /\ \A l \in Layers :
         \/ entry[l] = identifier[l]
         \/ \E t \in Threads : layer[t] = l /\ pc[t] = "update"
    /\ \A t \in Threads : pc[t] = "update" => identifier[layer[t]] = name[t]

IInv ==
    /\ TypeOK /\ \A l \in Layers : entry[l] # None
    /\ LockIsHeld /\ RenamesAreApart /\ RealPathsAreApart /\ TablesFollow
=============================================================================
