--------------------------- MODULE HgiVulkanGarbage ---------------------------
(***************************************************************************)
(* The command queue and the garbage collector of HgiVulkan.  A command    *)
(* buffer in flight has an id and a bit of the queue; ids are given out in *)
(* turn, and a thread that gets an id whose bit is set spins.  An object   *)
(* that a client destroys is stamped with the bits that are set then, and  *)
(* deleted when the queue has none of them.  Only the main thread submits, *)
(* clears bits and collects, at the end of a frame or of a submission      *)
(* outside frames.                                                         *)
(*                                                                         *)
(* The end of a frame is one step: the code demands that no thread records *)
(* or destroys meanwhile.  Threads may be waiting for ids, though.  The    *)
(* GPU consumes command buffers in any order.                              *)
(***************************************************************************)
EXTENDS Naturals

CONSTANTS
  Threads, Main,
  Buffers,     \* the command buffers the pools may come to have, a bound
  Objects,
  NumBits,     \* 64 in the code
  None

(* Of the constants; the modules that give them values assume it.          *)
GarbageAssumption ==
  /\ Main \in Threads /\ NumBits \in Nat \ {0}
  /\ None \notin Threads \cup Buffers

VARIABLES
  inflightBits,     \* the ids whose bits are set
  inflightCounter,  \* modulo NumBits, which divides 256
  pool,             \* whose pool a command buffer is in
  phase,            \* of a command buffer
  inflightId,
  resourceBuffer,   \* _resourceCommandBuffer
  frameDepth,
  pc, cmdBuf, newId,  \* AcquireCommandBuffer of a thread
  stamp,            \* GetInflightBits() of an object in the garbage
  object,           \* live, garbage or deleted
  mayUse            \* the command buffers that may still use a destroyed object

queueVars == <<inflightBits, inflightCounter, pool, phase, inflightId,
               resourceBuffer>>
acquireVars == <<pc, cmdBuf, newId>>
objectVars == <<stamp, object, mayUse>>
vars == <<queueVars, frameDepth, acquireVars, objectVars>>

InflightIds == 0..(NumBits - 1)
Phases == {"none", "free", "recording", "submitted", "consumed"}

(* _isInFlight *)
InFlight(b) == phase[b] \in {"recording", "submitted", "consumed"}

TypeOK ==
  /\ inflightBits \subseteq InflightIds /\ inflightCounter \in InflightIds
  /\ pool \in [Buffers -> Threads \cup {None}]
  /\ phase \in [Buffers -> Phases]
  /\ inflightId \in [Buffers -> InflightIds]
  /\ resourceBuffer \in Buffers \cup {None}
  /\ frameDepth \in 0..1
  /\ pc \in [Threads -> {"idle", "takeId", "setBit", "begin"}]
  /\ cmdBuf \in [Threads -> Buffers \cup {None}]
  /\ newId \in [Threads -> InflightIds]
  /\ stamp \in [Objects -> SUBSET InflightIds]
  /\ object \in [Objects -> {"live", "garbage", "deleted"}]
  /\ mayUse \in [Objects -> SUBSET Buffers]

Init ==
  /\ inflightBits = {} /\ inflightCounter = 0
  /\ pool = [b \in Buffers |-> None]
  /\ phase = [b \in Buffers |-> "none"]
  /\ inflightId = [b \in Buffers |-> 0]
  /\ resourceBuffer = None
  /\ frameDepth = 0
  /\ pc = [t \in Threads |-> "idle"]
  /\ cmdBuf = [t \in Threads |-> None]
  /\ newId = [t \in Threads |-> 0]
  /\ stamp = [o \in Objects |-> {}]
  /\ object = [o \in Objects |-> "live"]
  /\ mayUse = [o \in Objects |-> {}]

(***************************************************************************)
(* AcquireCommandBuffer: a free buffer of the thread's pool or a new one,  *)
(* an id, its bit, and then the buffer is in flight.                       *)
(***************************************************************************)
PickBuffer(t) ==
  /\ pc[t] = "idle"
  /\ \E b \in Buffers :
       /\ \/ pool[b] = t /\ phase[b] = "free"
          \/ /\ phase[b] = "none"
             /\ \A c \in Buffers : pool[c] = t => InFlight(c)
       /\ pool' = [pool EXCEPT ![b] = t]
       /\ phase' = [phase EXCEPT ![b] = "free"]
       /\ cmdBuf' = [cmdBuf EXCEPT ![t] = b]
  /\ pc' = [pc EXCEPT ![t] = "takeId"]
  /\ UNCHANGED <<inflightBits, inflightCounter, inflightId, resourceBuffer,
                 frameDepth, newId, objectVars>>

TakeId(t) ==         \* _AcquireInflightIdBit
  /\ pc[t] = "takeId"
  /\ newId' = [newId EXCEPT ![t] = inflightCounter]
  /\ inflightCounter' = (inflightCounter + 1) % NumBits
  /\ pc' = [pc EXCEPT ![t] = "setBit"]
  /\ UNCHANGED <<inflightBits, pool, phase, inflightId, resourceBuffer,
                 frameDepth, cmdBuf, objectVars>>

SetInflightBit(t) == \* spins while the bit is set
  /\ pc[t] = "setBit" /\ newId[t] \notin inflightBits
  /\ inflightBits' = inflightBits \cup {newId[t]}
  /\ pc' = [pc EXCEPT ![t] = "begin"]
  /\ UNCHANGED <<inflightCounter, pool, phase, inflightId, resourceBuffer,
                 frameDepth, cmdBuf, newId, objectVars>>

(* The main thread keeps a resource command buffer for itself, if it asked *)
(* for one and has none.                                                   *)
BeginCommandBuffer(t) ==
  LET b == cmdBuf[t] IN
  /\ pc[t] = "begin"
  /\ inflightId' = [inflightId EXCEPT ![b] = newId[t]]
  /\ phase' = [phase EXCEPT ![b] = "recording"]
  /\ \/ UNCHANGED resourceBuffer
     \/ t = Main /\ resourceBuffer = None /\ resourceBuffer' = b
  /\ pc' = [pc EXCEPT ![t] = "idle"]
  /\ cmdBuf' = [cmdBuf EXCEPT ![t] = None]
  /\ UNCHANGED <<inflightBits, inflightCounter, pool, frameDepth, newId,
                 objectVars>>

(* Mutant: the fences are not asked.                                       *)
EndFrameSyncUnfenced(ph) ==
  LET over == {b \in Buffers : ph[b] \in {"submitted", "consumed"}}
      bits == inflightBits \ {inflightId[b] : b \in over}
  IN /\ phase' = [b \in Buffers |-> IF b \in over THEN "free" ELSE ph[b]]
     /\ inflightBits' = bits
     /\ object' = [o \in Objects |->
          IF object[o] = "garbage" /\ stamp[o] \cap bits = {}
          THEN "deleted" ELSE object[o]]

(***************************************************************************)
(* _EndFrameSync: ResetConsumedCommandBuffers and then                     *)
(* PerformGarbageCollection, with the phases ph.                           *)
(***************************************************************************)
EndFrameSync(ph) ==
  LET consumed == {b \in Buffers : ph[b] = "consumed"}
      bits == inflightBits \ {inflightId[b] : b \in consumed}
  IN /\ phase' = [b \in Buffers |-> IF b \in consumed THEN "free" ELSE ph[b]]
     /\ inflightBits' = bits
     /\ object' = [o \in Objects |->
          IF object[o] = "garbage" /\ stamp[o] \cap bits = {}
          THEN "deleted" ELSE object[o]]

(* _SubmitCmds: the resource commands go first.  A client may wait until   *)
(* the commands it submits have been consumed; they were submitted after   *)
(* the resource commands and wait for them.                                *)
SubmitCmds(b, wait) ==
  LET done == IF wait THEN "consumed" ELSE "submitted"
      now == {b} \cup ({resourceBuffer} \ {None})
      ph == [c \in Buffers |-> IF c \in now THEN done ELSE phase[c]]
  IN
  /\ pc[Main] = "idle"
  /\ phase[b] = "recording" /\ b # resourceBuffer
  /\ \A t \in Threads : cmdBuf[t] # b
  /\ resourceBuffer' = None
  /\ IF frameDepth = 0 THEN EndFrameSync(ph)
     ELSE phase' = ph /\ UNCHANGED <<inflightBits, object>>
  /\ mayUse' = IF wait THEN [o \in Objects |-> mayUse[o] \ now] ELSE mayUse
  /\ UNCHANGED <<inflightCounter, pool, inflightId, frameDepth, acquireVars,
                 stamp>>

StartFrame ==
  /\ pc[Main] = "idle" /\ frameDepth = 0
  /\ frameDepth' = 1
  /\ UNCHANGED <<queueVars, acquireVars, objectVars>>

EndFrame ==
  /\ pc[Main] = "idle" /\ frameDepth = 1
  /\ frameDepth' = 0
  /\ EndFrameSync(phase)
  /\ UNCHANGED <<inflightCounter, pool, inflightId, resourceBuffer, acquireVars,
                 stamp, mayUse>>

(* The GPU has executed a command buffer and signals its fence. *)
Consume(b) ==
  /\ phase[b] = "submitted"
  /\ phase' = [phase EXCEPT ![b] = "consumed"]
  /\ mayUse' = [o \in Objects |-> mayUse[o] \ {b}]
  /\ UNCHANGED <<inflightBits, inflightCounter, pool, inflightId,
                 resourceBuffer, frameDepth, acquireVars, stamp, object>>

(* TrashObject: whatever is being recorded or executed may use the object. *)
TrashObject(o) ==
  /\ object[o] = "live"
  /\ object' = [object EXCEPT ![o] = "garbage"]
  /\ stamp' = [stamp EXCEPT ![o] = inflightBits]
  /\ mayUse' = [mayUse EXCEPT ![o] =
                  {b \in Buffers : phase[b] \in {"recording", "submitted"}}]
  /\ UNCHANGED <<queueVars, frameDepth, acquireVars>>

(* A client creates an object at the address of one that was deleted. *)
CreateObject(o) ==
  /\ object[o] = "deleted"
  /\ object' = [object EXCEPT ![o] = "live"]
  /\ UNCHANGED <<queueVars, frameDepth, acquireVars, stamp, mayUse>>

Acquire(t) ==
  \/ PickBuffer(t) \/ TakeId(t) \/ SetInflightBit(t) \/ BeginCommandBuffer(t)

Next ==
  \/ \E t \in Threads : Acquire(t)
  \/ \E b \in Buffers, wait \in BOOLEAN : SubmitCmds(b, wait)
  \/ \E b \in Buffers : Consume(b)
  \/ StartFrame \/ EndFrame
  \/ \E o \in Objects : TrashObject(o) \/ CreateObject(o)

Spec == Init /\ [][Next]_vars

-----------------------------------------------------------------------------
(***************************************************************************)
(* No object is deleted while a command buffer that was in flight when it  *)
(* was destroyed is still being recorded or executed, although ids and     *)
(* bits are given out again meanwhile.                                     *)
(***************************************************************************)
NotDeletedInUse == \A o \in Objects : object[o] = "deleted" => mayUse[o] = {}

(***************************************************************************)
(* The bits are those of the command buffers in flight and of the ones     *)
(* about to be, and no two of them share an id: without that, resetting    *)
(* one would clear the other's bit.                                        *)
(***************************************************************************)
BitsAreExact ==
  LET begins == {t \in Threads : pc[t] = "begin"}
      flying == {b \in Buffers : InFlight(b)}
  IN /\ inflightBits = {newId[t] : t \in begins} \cup {inflightId[b] : b \in flying}
     /\ \A t, u \in begins : newId[t] = newId[u] => t = u
     /\ \A b, c \in flying : inflightId[b] = inflightId[c] => b = c
     /\ \A t \in begins, b \in flying : newId[t] # inflightId[b]

(* A thread that acquires has a free buffer of its own pool.               *)
BuffersAreOwned ==
  \A t \in Threads :
    IF pc[t] = "idle" THEN cmdBuf[t] = None
    ELSE /\ cmdBuf[t] \in Buffers
         /\ pool[cmdBuf[t]] = t /\ phase[cmdBuf[t]] = "free"

(* The resource command buffer is being recorded.                          *)
ResourceIsRecorded ==
  resourceBuffer # None => phase[resourceBuffer] = "recording"

(* The stamp of garbage has the bit of whatever may still use it.          *)
GarbageWaits ==
  \A o \in Objects : object[o] = "garbage" =>
    \A b \in mayUse[o] : /\ phase[b] \in {"recording", "submitted"}
                         /\ inflightId[b] \in stamp[o]

(* What the steps preserve together.                                       *)
IInv ==
  /\ TypeOK /\ BitsAreExact /\ BuffersAreOwned /\ ResourceIsRecorded
  /\ GarbageWaits /\ NotDeletedInUse
=============================================================================
