--------------------------- MODULE Synchronization ---------------------------
(***************************************************************************)
(* One instance of each protocol whose calls must return: TfSpinRWMutex,   *)
(* HdRenderThread and SdfLayerRegistry.  They share nothing; `part' says   *)
(* which of them moves, and the others keep their initial states.          *)
(***************************************************************************)
EXTENDS TfSpinRWMutex

CONSTANTS
  HydraThreads, Main, Render,                             \* of HdRenderThread
  Openers, Layers, Idents, Paths, RealPath, SaveCanFail   \* of SdfLayerRegistry

VARIABLES
  part,
  requestedState, mutex, enableRender, stopRequested, pauseRender, pauseDirty,
  rendering, renderPc, hydraPc, pauseKnown,
  readers, writer, registry, ident, initSuccess, initComplete, layerPc, call,
  held, tmp, cand, dying

spinVars == vars
renderVars == <<requestedState, mutex, enableRender, stopRequested, pauseRender,
                pauseDirty, rendering, renderPc, hydraPc, pauseKnown>>
layerVars == <<readers, writer, registry, ident, initSuccess, initComplete,
               layerPc, call, held, tmp, cand, dying>>

RT == INSTANCE HdRenderThread WITH pc <- hydraPc

LR == INSTANCE SdfLayerRegistry WITH pc <- layerPc, Threads <- Openers

ASSUME SyncAssumptions == RT!RenderAssumptions /\ LR!RegistryAssumptions

SyncInit ==
  /\ part \in {"lock", "render", "layers"}
  /\ Init /\ RT!Init /\ LR!Init
  /\ part # "render" => enableRender     \* it starts as it is made or later

LockMoves ==
  part = "lock" /\ Next /\ UNCHANGED <<part, renderVars, layerVars>>

RenderMoves ==
  part = "render" /\ RT!Next /\ UNCHANGED <<part, spinVars, layerVars>>

LayersMove ==
  part = "layers" /\ LR!Next /\ UNCHANGED <<part, spinVars, renderVars>>

SyncNext == LockMoves \/ RenderMoves \/ LayersMove

SyncSpec ==
  /\ SyncInit
  /\ [][SyncNext]_<<part, spinVars, renderVars, layerVars>>
  /\ Fairness /\ RT!Fairness /\ LR!Fairness

(* The properties, under names a configuration can give.                   *)
EditsExcludeRendering == RT!IInv /\ RT!EditsExcludeRendering
StopsAreRequested     == RT!StopsAreRequested
StartedRenderRuns     == RT!StartedRenderRuns
StopsReturn           == RT!StopRenderReturns /\ RT!StopThreadReturns
LayerCallsReturn      == LR!CallsReturn
==============================================================================
