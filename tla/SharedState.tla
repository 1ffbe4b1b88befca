------------------------------ MODULE SharedState ------------------------------
(***************************************************************************)
(* One instance of each protocol over tables, counts and queues that       *)
(* threads share.  They share nothing with each other; `part' says which   *)
(* of them moves, and the others keep their initial states.                *)
(***************************************************************************)
EXTENDS SharedTables

CONSTANTS
  NamedLayers, Identifiers, RealPath, Original,   \* of SdfLayerRename
  Caches, Requests, Satisfies, Racing,         \* of UsdStageCache
  Workers, Main,                               \* threads of the next two
  EditedLayers, Stages, Editor, Uses, EditPhases, MaxChanges,   \* of SdfChangeManager
  Buffers, Objects, NumBits,                   \* of HgiVulkanGarbage
  MaxHolds, MaxPyRefs                          \* of TfPyOwnership

VARIABLES
  part,
  alive, made, block, changes, removes, rounds, serial, lastSerial, seen, alarms,
  count, listens, dead, owner, pyAlive, acquired, pyRefs, gil, python, holds,
  saw, goal, pyPc,
  inflightBits, inflightCounter, pool, phase, inflightId, resourceBuffer,
  frameDepth, hgPc, cmdBuf, newId, stamp, object, mayUse,
  identifier, entry, readers, rnWriter, rnPc, layer, rnName,
  stages, pending, mutex, scPc, cache, scWant, stage, scState, subscribed, other

changeVars == <<alive, made, block, changes, removes, rounds, serial, lastSerial,
                seen, alarms>>
pythonVars == <<count, listens, dead, owner, pyAlive, acquired, pyRefs, gil,
                python, holds, saw, goal, pyPc>>
vulkanVars == <<inflightBits, inflightCounter, pool, phase, inflightId,
                resourceBuffer, frameDepth, hgPc, cmdBuf, newId, stamp, object,
                mayUse>>
renameVars == <<identifier, entry, readers, rnWriter, rnPc, layer, rnName>>
cacheVars  == <<stages, pending, mutex, scPc, cache, scWant, stage, scState,
                subscribed, other>>

CM == INSTANCE SdfChangeManager WITH Threads <- Workers, Layers <- EditedLayers

PY == INSTANCE TfPyOwnership WITH pc <- pyPc, FlagRaces <- FALSE

HG == INSTANCE HgiVulkanGarbage WITH pc <- hgPc, Threads <- Workers

RN == INSTANCE SdfLayerRename WITH
  writer <- rnWriter, pc <- rnPc, name <- rnName, Threads <- Callers,
  Layers <- NamedLayers

SC == INSTANCE UsdStageCache WITH
  pc <- scPc, want <- scWant, state <- scState, Threads <- Callers

ASSUME SharedAssumptions ==
  /\ TK!TokenAssumption /\ PN!PathNodeAssumption /\ NR!NoticeAssumption
  /\ CM!ThreadingAssumption /\ CM!BoundsAssumption /\ PY!OwnershipAssumption
  /\ HG!GarbageAssumption /\ RN!RenameAssumption /\ SC!StageCacheAssumption

SharedInit ==
  /\ part \in {"stacks", "tokens", "nodes", "notices", "changes", "python",
               "vulkan", "rename", "caches"}
  /\ Init /\ TK!Init /\ PN!Init /\ NR!Init /\ CM!Init /\ PY!Init /\ HG!Init
  /\ RN!Init /\ SC!Init

StacksMove ==
  /\ part = "stacks" /\ Next
  /\ UNCHANGED <<part, tokenVars, nodeVars, noticeVars, changeVars, pythonVars,
                 vulkanVars, renameVars, cacheVars>>

TokensMove ==
  /\ part = "tokens" /\ TK!Next
  /\ UNCHANGED <<part, vars, nodeVars, noticeVars, changeVars, pythonVars,
                 vulkanVars, renameVars, cacheVars>>

NodesMove ==
  /\ part = "nodes" /\ PN!Next
  /\ UNCHANGED <<part, vars, tokenVars, noticeVars, changeVars, pythonVars,
                 vulkanVars, renameVars, cacheVars>>

NoticesMove ==
  /\ part = "notices" /\ NR!Next
  /\ UNCHANGED <<part, vars, tokenVars, nodeVars, changeVars, pythonVars,
                 vulkanVars, renameVars, cacheVars>>

ChangesMove ==
  /\ part = "changes" /\ CM!Next
  /\ UNCHANGED <<part, vars, tokenVars, nodeVars, noticeVars, pythonVars,
                 vulkanVars, renameVars, cacheVars>>

PythonMoves ==
  /\ part = "python" /\ PY!Next
  /\ UNCHANGED <<part, vars, tokenVars, nodeVars, noticeVars, changeVars,
                 vulkanVars, renameVars, cacheVars>>

VulkanMoves ==
  /\ part = "vulkan" /\ HG!Next
  /\ UNCHANGED <<part, vars, tokenVars, nodeVars, noticeVars, changeVars,
                 pythonVars, renameVars, cacheVars>>

RenameMoves ==
  /\ part = "rename" /\ RN!Next
  /\ UNCHANGED <<part, vars, tokenVars, nodeVars, noticeVars, changeVars,
                 pythonVars, vulkanVars, cacheVars>>

CachesMove ==
  /\ part = "caches" /\ SC!Next
  /\ UNCHANGED <<part, vars, tokenVars, nodeVars, noticeVars, changeVars,
                 pythonVars, vulkanVars, renameVars>>

SharedNext ==
  \/ StacksMove \/ TokensMove \/ NodesMove \/ NoticesMove \/ ChangesMove
  \/ PythonMoves \/ VulkanMoves \/ RenameMoves \/ CachesMove

SharedSpec ==
  /\ SharedInit
  /\ [][SharedNext]_<<part, vars, tokenVars, nodeVars, noticeVars, changeVars,
                      pythonVars, vulkanVars, renameVars, cacheVars>>

(* The properties, under names a configuration can give: each is about the *)
(* part that moves, and the part's module says what it means.              *)
ObjectsAreShared     == TK!ImplementsSharing /\ PN!ImplementsSharing
TablesAreExact       ==
  /\ part = "stacks"  => IInv
  /\ part = "tokens"  => TK!IInv /\ TK!RepsAreExact
  /\ part = "nodes"   => PN!IInv /\ PN!PathsAreKept /\ PN!NodesAreExact
  /\ part = "notices" => NR!IInv
  /\ part = "changes" => CM!IInv
  /\ part = "python"  => PY!IInv
  /\ part = "vulkan"  => HG!IInv
  /\ part = "rename"  => RN!IInv
  /\ part = "caches"  => SC!IInv
NothingFreedInUse    == part = "notices" => NR!NothingFreedInUse
DeliveredOnce        == part = "notices" => NR!DeliveredOnce
StagesKeepUp         == part = "changes" => CM!StagesKeepUp
KeptWhileShared      ==
  part = "python" => PY!NeverResurrected /\ PY!KeptWhileShared
NotDeletedInUse      == part = "vulkan" => HG!NotDeletedInUse
LayersStayRegistered == part = "rename" => RN!LayersStayRegistered
CreatedOnce          == part = "caches" => SC!CreatedOnce
WaitersAreServed     == part = "caches" => SC!WaitersAreServed
=============================================================================
