--------------------------- MODULE HdRenderThread ---------------------------
(***************************************************************************)
(* HdRenderThread (pxr/imaging/hd/renderThread.h, .cpp): hydra threads     *)
(* start, stop and pause a render that runs on a background thread.  The   *)
(* render thread holds _requestedStateMutex all through the callback, so   *)
(* hydra cancels it out of band with _enableRender and learns from the     *)
(* mutex that it is over.                                                  *)
(*                                                                         *)
(* The render callback is the render delegate's; it is modelled on the one *)
(* the header gives as an example (and hdEmbree's).  Hydra threads keep to *)
(* what the header asks of them: StartRender and the thread management by  *)
(* one thread, never at the same time as StopRender; StopRender by any.    *)
(***************************************************************************)
CONSTANTS
  HydraThreads,  \* threads that sync prims, stopping the render to edit the scene
  Main,          \* the one among them that starts renders and owns the object
  Render,        \* the render thread
  None

(* Of the constants; the modules that give them values assume it.          *)
RenderAssumptions ==
  /\ Main \in HydraThreads
  /\ Render \notin HydraThreads
  /\ None \notin HydraThreads \cup {Render}

VARIABLES
  requestedState,  \* _requestedState
  mutex,           \* who holds _requestedStateMutex, or None
  enableRender,    \* _enableRender
  stopRequested,   \* _stopRequested
  pauseRender,     \* _pauseRender
  pauseDirty,      \* _pauseDirty
  rendering,       \* _rendering
  renderPc,        \* where the render thread is; "none" while it is not joinable
  pc,              \* where each hydra thread is
  pauseKnown       \* the pause state when the callback last called IsPauseDirty

stateVars == <<requestedState, mutex, enableRender, stopRequested, rendering>>
pauseVars == <<pauseRender, pauseDirty, pauseKnown>>
vars == <<requestedState, mutex, enableRender, stopRequested, rendering,
          pauseRender, pauseDirty, renderPc, pc, pauseKnown>>

Callback    == {"pauseDirty", "pause", "pausedStop", "stop"}
RenderLabels == {"none", "lock", "waiting", "finish", "exited"} \cup Callback
HydraLabels  == {"idle", "edit", "stopClear", "stopLock", "startLock",
                 "termLock", "join", "pauseStore", "resumeStore"}

TypeOK ==
  /\ requestedState \in {"Initial", "Idle", "Rendering", "Terminated"}
  /\ mutex \in {Render, None}
  /\ enableRender \in BOOLEAN
  /\ stopRequested \in BOOLEAN
  /\ pauseRender \in BOOLEAN
  /\ pauseDirty \in BOOLEAN
  /\ pauseKnown \in BOOLEAN
  /\ rendering \in BOOLEAN
  /\ renderPc \in RenderLabels
  /\ pc \in [HydraThreads -> HydraLabels]

(* _enableRender is an atomic_flag the constructor leaves uninitialized.   *)
Init ==
  /\ requestedState = "Initial"
  /\ mutex = None
  /\ enableRender \in BOOLEAN
  /\ stopRequested = FALSE
  /\ pauseRender = FALSE
  /\ pauseDirty = FALSE
  /\ pauseKnown = FALSE
  /\ rendering = FALSE
  /\ renderPc = "none"
  /\ pc = [h \in HydraThreads |-> "idle"]

Goto(h, label) == pc' = [pc EXCEPT ![h] = label]

(* Nobody but Main is in a call or edits the scene.                        *)
MainAlone == \A h \in HydraThreads : pc[h] = "idle"

(* Mutant of Notify: nobody is notified.                                   *)
NotifyNobody == renderPc' = renderPc

(* notify_one: the render thread, if it waits, contends for the mutex.     *)
Notify == renderPc' = IF renderPc = "waiting" THEN "lock" ELSE renderPc

-----------------------------------------------------------------------------
(* Thread management, by Main alone.                                       *)
StartThread ==
  /\ MainAlone
  /\ renderPc = "none"
  /\ requestedState' = "Idle"
  /\ renderPc' = "lock"
  /\ UNCHANGED <<mutex, enableRender, stopRequested, rendering, pauseVars, pc>>

(* Mutant: the running callback is not cancelled.                          *)
StopThreadUncancelled ==
  /\ MainAlone
  /\ renderPc # "none"
  /\ Goto(Main, "termLock")
  /\ UNCHANGED <<stateVars, pauseVars, renderPc>>

StopThread ==
  /\ MainAlone
  /\ renderPc # "none"
  /\ enableRender' = FALSE
  /\ Goto(Main, "termLock")
  /\ UNCHANGED <<requestedState, mutex, stopRequested, rendering, pauseVars, renderPc>>

Terminate ==
  /\ pc[Main] = "termLock"
  /\ mutex = None
  /\ requestedState' = "Terminated"
  /\ rendering' = FALSE
  /\ Notify
  /\ Goto(Main, "join")
  /\ UNCHANGED <<mutex, enableRender, stopRequested, pauseVars>>

Join ==
  /\ pc[Main] = "join"
  /\ renderPc = "exited"
  /\ renderPc' = "none"
  /\ Goto(Main, "idle")
  /\ UNCHANGED <<stateVars, pauseVars>>

-----------------------------------------------------------------------------
(* StartRender, a no-op while IsRendering.                                 *)
StartRender ==
  /\ MainAlone
  /\ renderPc # "none"
  /\ ~rendering
  /\ Goto(Main, "startLock")
  /\ UNCHANGED <<stateVars, pauseVars, renderPc>>

RequestRender ==
  /\ pc[Main] = "startLock"
  /\ mutex = None
  /\ enableRender' = TRUE
  /\ requestedState' = "Rendering"
  /\ rendering' = TRUE
  /\ Notify
  /\ Goto(Main, "idle")
  /\ UNCHANGED <<mutex, stopRequested, pauseVars>>

(* StopRender, whose caller may then edit the scene.                       *)
StopRender(h) ==
  /\ pc[h] = "idle"
  /\ pc[Main] \notin {"startLock", "termLock", "join"}
  /\ Goto(h, IF rendering THEN "stopClear" ELSE "edit")
  /\ UNCHANGED <<stateVars, pauseVars, renderPc>>

ClearEnable(h) ==
  /\ pc[h] = "stopClear"
  /\ enableRender' = FALSE
  /\ Goto(h, "stopLock")
  /\ UNCHANGED <<requestedState, mutex, stopRequested, rendering, pauseVars, renderPc>>

(* Mutant: the mutex is not waited for.                                    *)
RequestIdleUnlocked(h) ==
  /\ pc[h] = "stopLock"
  /\ requestedState' = "Idle"
  /\ rendering' = FALSE
  /\ Goto(h, "edit")
  /\ UNCHANGED <<mutex, enableRender, stopRequested, pauseVars, renderPc>>

RequestIdle(h) ==
  /\ pc[h] = "stopLock"
  /\ mutex = None
  /\ requestedState' = "Idle"
  /\ rendering' = FALSE
  /\ Goto(h, "edit")
  /\ UNCHANGED <<mutex, enableRender, stopRequested, pauseVars, renderPc>>

EndEdit(h) ==
  /\ pc[h] = "edit"
  /\ Goto(h, "idle")
  /\ UNCHANGED <<stateVars, pauseVars, renderPc>>

-----------------------------------------------------------------------------
(* PauseRender and ResumeRender mark the state dirty and then change it.   *)
PauseRender ==
  /\ pc[Main] = "idle"
  /\ pauseDirty' = TRUE
  /\ \E label \in {"pauseStore", "resumeStore"} : Goto(Main, label)
  /\ UNCHANGED <<stateVars, pauseRender, pauseKnown, renderPc>>

PauseStore ==
  /\ pc[Main] \in {"pauseStore", "resumeStore"}
  /\ pauseRender' = (pc[Main] = "pauseStore")
  /\ Goto(Main, "idle")
  /\ UNCHANGED <<stateVars, pauseDirty, pauseKnown, renderPc>>

-----------------------------------------------------------------------------
(* _RenderLoop: with the mutex, wait while idle ...                        *)
WaitWhileIdle ==
  /\ renderPc = "lock"
  /\ mutex = None
  /\ requestedState = "Idle"
  /\ renderPc' = "waiting"
  /\ UNCHANGED <<stateVars, pauseVars, pc>>

SpuriousWakeup ==
  /\ renderPc = "waiting"
  /\ renderPc' = "lock"
  /\ UNCHANGED <<stateVars, pauseVars, pc>>

(* ... call the callback, keeping the mutex ...                            *)
CallRender ==
  /\ renderPc = "lock"
  /\ mutex = None
  /\ requestedState = "Rendering"
  /\ mutex' = Render
  /\ renderPc' = "pauseDirty"
  /\ UNCHANGED <<requestedState, enableRender, stopRequested, rendering, pauseVars, pc>>

(* Mutant: the request to stop is remembered for the next render.          *)
CallbackReturnedStopping ==
  /\ renderPc = "finish"
  /\ mutex = Render
  /\ rendering
  /\ rendering' = FALSE
  /\ UNCHANGED <<requestedState, mutex, enableRender, stopRequested, pauseVars, renderPc, pc>>

(* ... and be idle: _rendering can be read before the mutex is given up.   *)
CallbackReturned ==
  /\ renderPc = "finish"
  /\ mutex = Render
  /\ rendering
  /\ stopRequested' = FALSE
  /\ rendering' = FALSE
  /\ UNCHANGED <<requestedState, mutex, enableRender, pauseVars, renderPc, pc>>

BecomeIdle ==
  /\ renderPc = "finish"
  /\ ~rendering
  /\ requestedState' = "Idle"
  /\ mutex' = None
  /\ renderPc' = "lock"
  /\ UNCHANGED <<enableRender, stopRequested, rendering, pauseVars, pc>>

Exit ==
  /\ renderPc = "lock"
  /\ mutex = None
  /\ requestedState = "Terminated"
  /\ renderPc' = "exited"
  /\ UNCHANGED <<stateVars, pauseVars, pc>>

-----------------------------------------------------------------------------
(* The render callback, and what it asks the object.                       *)
IsPauseDirty ==
  /\ renderPc = "pauseDirty"
  /\ pauseDirty' = FALSE
  /\ pauseKnown' = pauseRender
  /\ renderPc' = "pause"
  /\ UNCHANGED <<stateVars, pauseRender, pc>>

IsPauseRequested ==
  /\ renderPc = "pause"
  /\ renderPc' = IF pauseRender THEN "pausedStop" ELSE "stop"
  /\ UNCHANGED <<stateVars, pauseVars, pc>>

(* Mutant: only the flag that is reset is looked at.                       *)
IsStopRequestedOnce(result) ==
  /\ enableRender' = TRUE
  /\ UNCHANGED stopRequested
  /\ result = ~enableRender

(* IsStopRequested resets _enableRender, so _stopRequested remembers that  *)
(* it was low.                                                             *)
IsStopRequested(result) ==
  /\ enableRender' = TRUE
  /\ stopRequested' = (stopRequested \/ ~enableRender)
  /\ result = stopRequested'

(* Paused: leave the pause if asked to stop, and be asked again.           *)
StopWhilePaused ==
  /\ renderPc = "pausedStop"
  /\ \E result \in BOOLEAN :
        /\ IsStopRequested(result)
        /\ renderPc' = IF result THEN "stop" ELSE "pause"
  /\ UNCHANGED <<requestedState, mutex, rendering, pauseVars, pc>>

(* Not paused: return if asked to stop, or else render some pixels, which  *)
(* may complete the image.                                                 *)
StopOrRender ==
  /\ renderPc = "stop"
  /\ \E result \in BOOLEAN :
        /\ IsStopRequested(result)
        /\ renderPc' \in IF result THEN {"finish"} ELSE {"pauseDirty", "finish"}
  /\ UNCHANGED <<requestedState, mutex, rendering, pauseVars, pc>>

-----------------------------------------------------------------------------
Hydra(h) == ClearEnable(h) \/ RequestIdle(h) \/ EndEdit(h)

MainCall == Terminate \/ Join \/ RequestRender \/ PauseStore

RenderLoop ==
  \/ WaitWhileIdle \/ CallRender \/ CallbackReturned \/ BecomeIdle \/ Exit
  \/ IsPauseDirty \/ IsPauseRequested \/ StopWhilePaused \/ StopOrRender

Next ==
  \/ StartThread \/ StopThread \/ StartRender \/ PauseRender \/ MainCall
  \/ \E h \in HydraThreads : StopRender(h) \/ Hydra(h)
  \/ RenderLoop \/ SpuriousWakeup

Spec == Init /\ [][Next]_vars

(* Calls in progress and the render thread are scheduled.  Nothing obliges *)
(* anyone to make a call, nor the condition variable to wake spuriously.   *)
Fairness ==
  /\ WF_vars(RenderLoop)
  /\ WF_vars(MainCall)
  /\ \A h \in HydraThreads : WF_vars(Hydra(h))

FairSpec == Spec /\ Fairness

-----------------------------------------------------------------------------
(* The scene is not edited while the callback renders it, for whatever     *)
(* threads stop the render at a time, and whether their StopRender waits   *)
(* for the mutex or is let through by IsRendering.                         *)
EditsExcludeRendering ==
  renderPc \in Callback => \A h \in HydraThreads : pc[h] # "edit"

(* IsStopRequested tells the callback to stop only on behalf of a          *)
(* StopRender or StopThread that waits for it: a request left over from an *)
(* earlier render never cuts the next one short.                           *)
StopsAreRequested ==
  renderPc \in Callback /\ (stopRequested \/ ~enableRender)
    => \E h \in HydraThreads : pc[h] \in {"stopLock", "termLock"}

(* Why both hold, whatever is pending: the callback runs only in a render  *)
(* that IsRendering tells of, an edit begins only when it tells of none,   *)
(* and a start excludes all other calls.                                   *)
InRender == renderPc \in Callback \cup {"finish"}

RenderIsKnown ==
  /\ mutex = Render <=> InRender
  /\ renderPc \in Callback => rendering /\ requestedState = "Rendering"
  /\ requestedState = "Rendering" /\ ~rendering => renderPc = "finish"
  /\ \A h \in HydraThreads : pc[h] = "edit" => ~rendering

MainExcludesStops ==
  pc[Main] \in {"startLock", "termLock", "join"} =>
    \A h \in HydraThreads \ {Main} : pc[h] = "idle"

StopsArePending ==
  /\ stopRequested => InRender /\ rendering
  /\ rendering /\ requestedState = "Rendering" /\ (stopRequested \/ ~enableRender)
       => \E h \in HydraThreads : pc[h] \in {"stopLock", "termLock"}

IInv ==    \* inductive
  RenderAssumptions /\ TypeOK /\ RenderIsKnown /\ MainExcludesStops /\ StopsArePending

(* StopRender returns: the callback, paused or not, sees the request.      *)
StopRenderReturns ==
  \A h \in HydraThreads : pc[h] = "stopClear" ~> pc[h] = "edit"

(* A render that was started runs, unless it is stopped first: the wakeup  *)
(* is not lost.                                                            *)
StartedRenderRuns ==
  requestedState = "Rendering" ~> renderPc \in Callback \/ requestedState # "Rendering"

(* StopThread ends the render thread and returns.                          *)
StopThreadReturns == pc[Main] = "termLock" ~> renderPc = "none"

(* IsPauseDirty: "Query whether the pause/resume state has changed since   *)
(* the last time we called IsPauseDirty."  When no call is changing it, a  *)
(* state that differs from the one at the last query is marked dirty.      *)
PauseChangesAreDirty ==
  pc[Main] \notin {"pauseStore", "resumeStore"} /\ ~pauseDirty
    => pauseKnown = pauseRender
=============================================================================
