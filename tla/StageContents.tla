---------------------------- MODULE StageContents ----------------------------
(***************************************************************************)
(* One instance of each module about what a stage is made of: the pool of  *)
(* its path nodes, the prim indexes of its cache, its recomposition, its   *)
(* load rules, its population mask, and the list ops of its layers.  They  *)
(* share nothing; `part' says which of them moves, and the others keep     *)
(* their initial states.                                                   *)
(***************************************************************************)
EXTENDS StageData

CONSTANTS
  Roots, Names, OuterKeys, InnerKeys, Plain, Absent,
  ChildStatuses, MaxPrototypes, MaxBatch, None,   \* of UsdStageRecompose
  RulePaths, RuleBatches,                         \* of UsdStageLoadRules
  LayerStacks, Top, PrimPaths, Arcs               \* of PcpCache

VARIABLES
  part,
  scene, indexes, paths, todo, phase, primMap, cache, pendingAdded,
  pendingRemoved, changes,
  rules, asked,
  layers, cached, deps

poolVars == vars
stageVars == <<scene, indexes, paths, todo, phase, primMap, cache, pendingAdded,
               pendingRemoved, changes>>
ruleVars == <<rules, asked>>
indexVars == <<layers, cached, deps>>

RC == INSTANCE UsdStageRecompose

RU == INSTANCE UsdStageLoadRules WITH Paths <- RulePaths, Batches <- RuleBatches

PC == INSTANCE PcpCache WITH Root <- Top

ASSUME ContentsAssumptions ==
  /\ RC!RecomposeAssumption
  /\ RU!LoadRulesAssumption
  /\ PC!PcpCacheAssumption

ContentsInit ==
  /\ part \in {"pool", "stage", "rules", "mask", "lists", "index"}
  /\ Init /\ RC!Init /\ RU!Init /\ PM!Init /\ LO!Init /\ PC!Init
  /\ part # "stage" => scene = CHOOSE s \in RC!Scenes : TRUE
  /\ part # "rules" => rules = RU!LoadAll
  /\ part # "lists" => op = CHOOSE o \in LO!Opinions : TRUE

PoolMoves ==
  part = "pool" /\ Next /\ UNCHANGED <<part, stageVars, ruleVars, maskVars, listVars, indexVars>>

StageMoves ==
  part = "stage" /\ RC!Next /\ UNCHANGED <<part, poolVars, ruleVars, maskVars, listVars, indexVars>>

RulesMove ==
  part = "rules" /\ RU!Next /\ UNCHANGED <<part, poolVars, stageVars, maskVars, listVars, indexVars>>

MaskMoves ==
  part = "mask" /\ PM!Next /\ UNCHANGED <<part, poolVars, stageVars, ruleVars, listVars, indexVars>>

ListsMove ==
  part = "lists" /\ LO!Next /\ UNCHANGED <<part, poolVars, stageVars, ruleVars, maskVars, indexVars>>

IndexesMove ==
  part = "index" /\ PC!Next
    /\ UNCHANGED <<part, poolVars, stageVars, ruleVars, maskVars, listVars>>

ContentsNext ==
  PoolMoves \/ StageMoves \/ RulesMove \/ MaskMoves \/ ListsMove \/ IndexesMove

(* The threads that reserve spans are scheduled, and composition goes on.  *)
ContentsSpec ==
  /\ ContentsInit
  /\ [][ContentsNext]_<<part, poolVars, stageVars, ruleVars, maskVars, listVars, indexVars>>
  /\ \A t \in Threads : WF_vars(part = "pool" /\ Reserving(t))
  /\ WF_stageVars(part = "stage" /\ RC!Compose)

(* The properties, under names a configuration can give: each is about its *)
(* part, and its module says what it means.                                *)

(* After a change the stage comes to rest, as if composed anew.            *)
RecomposesFully == [](part = "stage") => RC!RecomposeEnds /\ []RC!RecomposedFully

(* What calls asked to be loaded is loaded, and nothing else but what is   *)
(* above it.                                                               *)
LoadedAsAsked == part = "rules" => RU!LoadedAsAsked

(* The mask includes the subtrees that are wanted and what is above them.  *)
MaskIsExact == part = "mask" => PM!MaskIsExact

(* A composed list op does what its opinions do in turn.                   *)
ComposedInTurn == part = "lists" => LO!ComposedInTurn

(* The prim indexes of the cache are those that the layers compose to, and *)
(* the dependencies stored are those the indexes have.                     *)
IndexesAreCurrent ==
  part = "index" => PC!IndexesAreCurrent /\ PC!DependenciesAreExact
=============================================================================
