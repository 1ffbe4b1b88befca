-------------------------- MODULE SharedState_proofs --------------------------
(***************************************************************************)
(* Proofs about the parts of SharedState, each for any values of its       *)
(* constants, and about their composition.  For every part: its invariant  *)
(* holds at first, its steps preserve it, one lemma per action, and what   *)
(* the composition does to its variables is a step of it or nothing.       *)
(***************************************************************************)
EXTENDS SharedState, SharedTables_proofs

-----------------------------------------------------------------------------
(***************************************************************************)
(* HgiVulkanGarbage.                                                       *)
(***************************************************************************)

(* A step without effect preserves the invariant.                          *)
LEMMA VulkanStutters ==
  ASSUME HG!IInv, UNCHANGED HG!vars PROVE HG!IInv'
BY DEF HG!IInv, HG!vars, HG!queueVars, HG!acquireVars, HG!objectVars, HG!TypeOK,
       HG!BitsAreExact, HG!BuffersAreOwned, HG!ResourceIsRecorded,
       HG!GarbageWaits, HG!NotDeletedInUse, HG!InFlight

LEMMA VulkanInit ==
  ASSUME HG!GarbageAssumption, HG!Init PROVE HG!IInv
BY DEF HG!GarbageAssumption, HG!Init, HG!IInv, HG!TypeOK, HG!BitsAreExact,
       HG!BuffersAreOwned, HG!ResourceIsRecorded, HG!GarbageWaits,
       HG!NotDeletedInUse, HG!InFlight, HG!InflightIds, HG!Phases

(* The steps of AcquireCommandBuffer.                                      *)
LEMMA PickBufferKeeps ==
  ASSUME HG!GarbageAssumption, HG!IInv, NEW t \in Workers, HG!PickBuffer(t)
  PROVE  HG!IInv'
<1>. USE DEF HG!IInv
<1>1. PICK b \in Buffers :
        /\ \/ pool[b] = t /\ phase[b] = "free"
           \/ phase[b] = "none" /\ \A c \in Buffers : pool[c] = t => HG!InFlight(c)
        /\ pool' = [pool EXCEPT ![b] = t]
        /\ phase' = [phase EXCEPT ![b] = "free"]
        /\ cmdBuf' = [cmdBuf EXCEPT ![t] = b]
  BY DEF HG!PickBuffer
<1>2. ~HG!InFlight(b) /\ phase[b] \notin {"recording", "submitted"}
  BY <1>1 DEF HG!InFlight
<1>3. HG!TypeOK'
  BY <1>1 DEF HG!TypeOK, HG!PickBuffer, HG!objectVars, HG!Phases
<1>4. /\ \A c \in Buffers : HG!InFlight(c)' <=> HG!InFlight(c)
      /\ {u \in Workers : hgPc'[u] = "begin"} = {u \in Workers : hgPc[u] = "begin"}
  BY <1>1, <1>2 DEF HG!InFlight, HG!TypeOK, HG!PickBuffer
<1>5. HG!BitsAreExact'
  BY <1>4 DEF HG!BitsAreExact, HG!PickBuffer
<1>6. HG!BuffersAreOwned'
  BY <1>1 DEF HG!BuffersAreOwned, HG!TypeOK, HG!PickBuffer
<1>7. HG!ResourceIsRecorded' /\ HG!GarbageWaits' /\ HG!NotDeletedInUse'
  BY <1>1, <1>2 DEF HG!ResourceIsRecorded, HG!GarbageWaits, HG!NotDeletedInUse,
                    HG!TypeOK, HG!PickBuffer, HG!objectVars
<1> QED BY <1>3, <1>5, <1>6, <1>7

LEMMA TakeIdKeeps ==
  ASSUME HG!GarbageAssumption, HG!IInv, NEW t \in Workers, HG!TakeId(t)
  PROVE  HG!IInv'
<1>. USE DEF HG!IInv, HG!TakeId, HG!objectVars
<1>1. HG!TypeOK'
  BY DEF HG!TypeOK, HG!GarbageAssumption, HG!InflightIds
<1>2. HG!BitsAreExact'
  BY DEF HG!BitsAreExact, HG!TypeOK, HG!InFlight
<1>3. HG!BuffersAreOwned'
  BY DEF HG!BuffersAreOwned, HG!TypeOK
<1>4. HG!ResourceIsRecorded' /\ HG!GarbageWaits' /\ HG!NotDeletedInUse'
  BY DEF HG!ResourceIsRecorded, HG!GarbageWaits, HG!NotDeletedInUse
<1> QED BY <1>1, <1>2, <1>3, <1>4

LEMMA SetInflightBitKeeps ==
  ASSUME HG!IInv, NEW t \in Workers, HG!SetInflightBit(t)
  PROVE  HG!IInv'
<1>. USE DEF HG!IInv, HG!SetInflightBit, HG!objectVars
<1>1. HG!TypeOK'
  BY DEF HG!TypeOK
<1>2. HG!BitsAreExact'
  BY DEF HG!BitsAreExact, HG!TypeOK, HG!InFlight
<1>3. HG!BuffersAreOwned'
  BY DEF HG!BuffersAreOwned, HG!TypeOK
<1>4. HG!ResourceIsRecorded' /\ HG!GarbageWaits' /\ HG!NotDeletedInUse'
  BY DEF HG!ResourceIsRecorded, HG!GarbageWaits, HG!NotDeletedInUse
<1> QED BY <1>1, <1>2, <1>3, <1>4

LEMMA BeginCommandBufferKeeps ==
  ASSUME HG!GarbageAssumption, HG!IInv, NEW t \in Workers,
         HG!BeginCommandBuffer(t)
  PROVE  HG!IInv'
<1>. DEFINE b == cmdBuf[t]
<1>. USE DEF HG!IInv, HG!BeginCommandBuffer, HG!objectVars
<1>1. /\ b \in Buffers /\ pool[b] = t /\ phase[b] = "free" /\ b # None
      /\ ~HG!InFlight(b)
  BY DEF HG!BuffersAreOwned, HG!GarbageAssumption, HG!InFlight
<1>2. HG!TypeOK'
  BY <1>1 DEF HG!TypeOK, HG!Phases
<1>3. HG!BitsAreExact'
  <2>1. \A c \in Buffers : HG!InFlight(c)' <=> (HG!InFlight(c) \/ c = b)
    BY <1>1 DEF HG!TypeOK, HG!InFlight
  <2>2. \A u \in Workers : hgPc'[u] = "begin" <=> (hgPc[u] = "begin" /\ u # t)
    BY DEF HG!TypeOK
  <2>3. \A c \in Buffers :
          inflightId'[c] = IF c = b THEN newId[t] ELSE inflightId[c]
    BY <1>1 DEF HG!TypeOK
  <2> QED BY <1>1, <2>1, <2>2, <2>3 DEF HG!BitsAreExact
<1>4. HG!BuffersAreOwned'
  BY <1>1 DEF HG!BuffersAreOwned, HG!TypeOK
<1>5. HG!ResourceIsRecorded'
  BY <1>1 DEF HG!ResourceIsRecorded, HG!TypeOK
<1>6. HG!GarbageWaits' /\ HG!NotDeletedInUse'
  BY <1>1 DEF HG!GarbageWaits, HG!NotDeletedInUse, HG!TypeOK
<1> QED BY <1>2, <1>3, <1>4, <1>5, <1>6

(***************************************************************************)
(* _EndFrameSync, with phases ph that have the same buffers in flight and  *)
(* under which what may use garbage is still recorded or executed.  The    *)
(* bits that it clears are those of consumed buffers alone.                *)
(***************************************************************************)
LEMMA EndFrameSyncKeeps ==
  ASSUME HG!GarbageAssumption, HG!IInv,
         NEW ph \in [Buffers -> HG!Phases],
         \A b \in Buffers : ph[b] = "free" <=> phase[b] = "free",
         \A b \in Buffers : ph[b] = "none" <=> phase[b] = "none",
         HG!EndFrameSync(ph),
         UNCHANGED <<inflightCounter, pool, inflightId, hgPc, cmdBuf, newId, stamp>>,
         resourceBuffer' \in Buffers \cup {None},
         resourceBuffer' # None => ph[resourceBuffer'] = "recording",
         frameDepth' \in 0..1,
         \A o \in Objects : mayUse'[o] \subseteq mayUse[o],
         mayUse' \in [Objects -> SUBSET Buffers],
         \A o \in Objects : object[o] = "garbage" =>
           \A b \in mayUse'[o] : ph[b] \in {"recording", "submitted"}
  PROVE  HG!IInv'
<1>. DEFINE consumed == {b \in Buffers : ph[b] = "consumed"}
            bits == inflightBits \ {inflightId[b] : b \in consumed}
<1>. USE DEF HG!IInv
<1>1. /\ phase' = [b \in Buffers |-> IF b \in consumed THEN "free" ELSE ph[b]]
      /\ inflightBits' = bits
      /\ object' = [o \in Objects |->
           IF object[o] = "garbage" /\ stamp[o] \cap bits = {}
           THEN "deleted" ELSE object[o]]
  BY DEF HG!EndFrameSync
<1>2. \A b \in Buffers :
        /\ HG!InFlight(b)' <=> (HG!InFlight(b) /\ b \notin consumed)
        /\ b \in consumed => HG!InFlight(b)
  BY <1>1 DEF HG!InFlight, HG!TypeOK, HG!Phases
<1>3. HG!TypeOK'
  BY <1>1 DEF HG!TypeOK, HG!Phases
<1>4. HG!BitsAreExact'
  BY <1>1, <1>2 DEF HG!BitsAreExact
<1>5. HG!BuffersAreOwned'
  BY <1>1 DEF HG!BuffersAreOwned, HG!TypeOK
<1>6. HG!ResourceIsRecorded'
  BY <1>1, HG!GarbageAssumption DEF HG!ResourceIsRecorded, HG!GarbageAssumption
<1>7. HG!GarbageWaits'
  BY <1>1 DEF HG!GarbageWaits, HG!TypeOK
<1>8. HG!NotDeletedInUse'
  <2>1. ASSUME NEW o \in Objects, NEW b \in mayUse'[o], object[o] = "garbage"
        PROVE  inflightId[b] \in stamp[o] \cap bits
    <3>1. b \in Buffers /\ ph[b] \in {"recording", "submitted"} /\ HG!InFlight(b)
          /\ b \notin consumed
      BY <2>1 DEF HG!InFlight, HG!TypeOK, HG!Phases
    <3>2. inflightId[b] \in stamp[o]
      BY <2>1 DEF HG!GarbageWaits
    <3>3. inflightId[b] \in bits
      BY <3>1, <1>2 DEF HG!BitsAreExact
    <3> QED BY <3>2, <3>3
  <2> QED BY <1>1, <2>1 DEF HG!NotDeletedInUse, HG!TypeOK
<1> QED BY <1>3, <1>4, <1>5, <1>6, <1>7, <1>8

LEMMA SubmitCmdsKeeps ==
  ASSUME HG!GarbageAssumption, HG!IInv, NEW b \in Buffers, NEW wait \in BOOLEAN,
         HG!SubmitCmds(b, wait)
  PROVE  HG!IInv'
<1>. DEFINE done == IF wait THEN "consumed" ELSE "submitted"
            now == {b} \cup ({resourceBuffer} \ {None})
            ph == [c \in Buffers |-> IF c \in now THEN done ELSE phase[c]]
<1>1. /\ resourceBuffer' = None
      /\ mayUse' = IF wait THEN [o \in Objects |-> mayUse[o] \ now] ELSE mayUse
      /\ UNCHANGED <<inflightCounter, pool, inflightId, frameDepth, hgPc, cmdBuf,
                     newId, stamp>>
      /\ IF frameDepth = 0 THEN HG!EndFrameSync(ph)
         ELSE phase' = ph /\ UNCHANGED <<inflightBits, object>>
  BY DEF HG!SubmitCmds, HG!acquireVars
<1>2. now \subseteq Buffers /\ \A c \in now : phase[c] = "recording"
  BY DEF HG!SubmitCmds, HG!IInv, HG!TypeOK, HG!ResourceIsRecorded
<1>3. ph \in [Buffers -> HG!Phases]
  BY DEF HG!IInv, HG!TypeOK, HG!Phases
<1>4. \A c \in Buffers : /\ ph[c] = "free" <=> phase[c] = "free"
                         /\ ph[c] = "none" <=> phase[c] = "none"
  BY <1>2
<1>5. /\ \A o \in Objects : mayUse'[o] \subseteq mayUse[o]
      /\ mayUse' \in [Objects -> SUBSET Buffers]
  BY <1>1 DEF HG!IInv, HG!TypeOK
<1>6. \A o \in Objects : object[o] = "garbage" =>
        \A c \in mayUse'[o] : ph[c] \in {"recording", "submitted"}
  BY <1>1, <1>2 DEF HG!IInv, HG!TypeOK, HG!GarbageWaits
<1>7. CASE frameDepth = 0
  <2>1. HG!EndFrameSync(ph)
    BY <1>1, <1>7
  <2>2. resourceBuffer' \in Buffers \cup {None} /\ frameDepth' \in 0..1
    BY <1>1 DEF HG!IInv, HG!TypeOK
  <2>. HIDE DEF ph
  <2> QED BY <1>1, <1>3, <1>4, <1>5, <1>6, <2>1, <2>2, EndFrameSyncKeeps
<1>8. CASE frameDepth # 0
  <2>1. phase' = ph /\ UNCHANGED <<inflightBits, object>>
    BY <1>1, <1>8
  <2>2. HG!TypeOK'
    BY <1>1, <1>3, <1>5, <2>1 DEF HG!IInv, HG!TypeOK
  <2>3. HG!BitsAreExact'
    <3>1. \A c \in Buffers : HG!InFlight(c)' <=> HG!InFlight(c)
      BY <1>2, <2>1 DEF HG!InFlight
    <3> QED BY <1>1, <2>1, <3>1 DEF HG!IInv, HG!BitsAreExact
  <2>4. HG!BuffersAreOwned'
    BY <1>1, <1>4, <2>1 DEF HG!IInv, HG!BuffersAreOwned
  <2>5. HG!ResourceIsRecorded' /\ HG!GarbageWaits' /\ HG!NotDeletedInUse'
    BY <1>1, <1>5, <1>6, <2>1 DEF HG!IInv, HG!ResourceIsRecorded, HG!GarbageWaits,
                                  HG!NotDeletedInUse
  <2> QED BY <2>2, <2>3, <2>4, <2>5 DEF HG!IInv
<1> QED BY <1>7, <1>8

LEMMA FramesKeep ==
  ASSUME HG!GarbageAssumption, HG!IInv, HG!StartFrame \/ HG!EndFrame
  PROVE  HG!IInv'
<1>1. CASE HG!StartFrame
  <2>1. frameDepth' = 1 /\ UNCHANGED <<HG!queueVars, HG!acquireVars, HG!objectVars>>
    BY <1>1 DEF HG!StartFrame
  <2> QED BY <2>1 DEF HG!IInv, HG!queueVars, HG!acquireVars, HG!objectVars, HG!TypeOK,
                HG!BitsAreExact, HG!BuffersAreOwned, HG!ResourceIsRecorded,
                HG!GarbageWaits, HG!NotDeletedInUse, HG!InFlight
<1>2. CASE HG!EndFrame
  <2>1. phase \in [Buffers -> HG!Phases]
    BY DEF HG!IInv, HG!TypeOK
  <2>2. /\ HG!EndFrameSync(phase) /\ frameDepth' \in 0..1
        /\ UNCHANGED <<inflightCounter, pool, inflightId, hgPc, cmdBuf, newId,
                       stamp, resourceBuffer, mayUse>>
    BY <1>2 DEF HG!EndFrame, HG!acquireVars
  <2>3. /\ resourceBuffer' \in Buffers \cup {None}
        /\ resourceBuffer' # None => phase[resourceBuffer'] = "recording"
        /\ mayUse' \in [Objects -> SUBSET Buffers]
        /\ \A o \in Objects : object[o] = "garbage" =>
             \A b \in mayUse'[o] : phase[b] \in {"recording", "submitted"}
    BY <2>2 DEF HG!IInv, HG!TypeOK, HG!ResourceIsRecorded, HG!GarbageWaits
  <2> QED BY <2>1, <2>2, <2>3, EndFrameSyncKeeps
<1> QED BY <1>1, <1>2

LEMMA ConsumeKeeps ==
  ASSUME HG!IInv, NEW b \in Buffers, HG!Consume(b)
  PROVE  HG!IInv'
<1>. USE DEF HG!IInv, HG!Consume, HG!acquireVars
<1>1. HG!TypeOK'
  BY DEF HG!TypeOK, HG!Phases
<1>2. HG!BitsAreExact'
  BY DEF HG!BitsAreExact, HG!TypeOK, HG!InFlight
<1>3. HG!BuffersAreOwned'
  BY DEF HG!BuffersAreOwned, HG!TypeOK
<1>4. HG!ResourceIsRecorded' /\ HG!GarbageWaits' /\ HG!NotDeletedInUse'
  BY DEF HG!ResourceIsRecorded, HG!GarbageWaits, HG!NotDeletedInUse, HG!TypeOK
<1> QED BY <1>1, <1>2, <1>3, <1>4

LEMMA ObjectsKeep ==
  ASSUME HG!IInv, NEW o \in Objects, HG!TrashObject(o) \/ HG!CreateObject(o)
  PROVE  HG!IInv'
<1>. USE DEF HG!IInv, HG!TrashObject, HG!CreateObject, HG!queueVars, HG!acquireVars
<1>1. HG!TypeOK'
  BY DEF HG!TypeOK
<1>2. HG!BitsAreExact' /\ HG!BuffersAreOwned' /\ HG!ResourceIsRecorded'
  BY DEF HG!BitsAreExact, HG!InFlight, HG!BuffersAreOwned, HG!ResourceIsRecorded
<1>3. HG!GarbageWaits'
  BY DEF HG!GarbageWaits, HG!BitsAreExact, HG!InFlight, HG!TypeOK
<1>4. HG!NotDeletedInUse'
  BY DEF HG!NotDeletedInUse, HG!TypeOK
<1> QED BY <1>1, <1>2, <1>3, <1>4

LEMMA VulkanStep ==
  ASSUME HG!GarbageAssumption, HG!IInv, [HG!Next]_HG!vars PROVE HG!IInv'
<1>1. ASSUME NEW t \in Workers, HG!Acquire(t) PROVE HG!IInv'
  BY <1>1, PickBufferKeeps, TakeIdKeeps, SetInflightBitKeeps,
     BeginCommandBufferKeeps DEF HG!Acquire
<1> QED BY <1>1, SubmitCmdsKeeps, FramesKeep, ConsumeKeeps, ObjectsKeep,
           VulkanStutters DEF HG!Next

(* The composition does nothing to the collector but its own steps.        *)
LEMMA VulkanIsPart ==
  ASSUME SharedNext PROVE [HG!Next]_HG!vars
BY DEF SharedNext, StacksMove, TokensMove, NodesMove, NoticesMove, ChangesMove,
       PythonMoves, VulkanMoves, RenameMoves, CachesMove, vulkanVars, HG!vars,
       HG!queueVars, HG!acquireVars, HG!objectVars

LEMMA GarbageInvariant == SharedSpec => []HG!IInv
<1>1. SharedInit => HG!IInv
  BY SharedAssumptions, VulkanInit DEF SharedAssumptions, SharedInit
<1>2. HG!IInv /\ [SharedNext]_<<part, vars, tokenVars, nodeVars, noticeVars,
         changeVars, pythonVars, vulkanVars, renameVars, cacheVars>> => HG!IInv'
  BY SharedAssumptions, VulkanIsPart, VulkanStep, VulkanStutters
     DEF SharedAssumptions, vulkanVars, HG!vars, HG!queueVars, HG!acquireVars,
         HG!objectVars
<1> QED BY <1>1, <1>2, PTL DEF SharedSpec

(***************************************************************************)
(* In a composition with any number of threads, buffers, objects and bits, *)
(* no object is deleted while a command buffer that may use it is recorded *)
(* or executed.                                                            *)
(***************************************************************************)
THEOREM GarbageIsSafe == SharedSpec => []NotDeletedInUse
<1>1. HG!IInv => NotDeletedInUse
  BY DEF HG!IInv, NotDeletedInUse
<1> QED BY <1>1, GarbageInvariant, PTL

-----------------------------------------------------------------------------
(***************************************************************************)
(* SdfLayerRename.                                                         *)
(***************************************************************************)
LEMMA RenameStutters ==
  ASSUME RN!IInv, UNCHANGED RN!vars PROVE RN!IInv'
BY DEF RN!IInv, RN!vars, RN!TypeOK, RN!LockIsHeld, RN!RenamesAreApart,
       RN!RealPathsAreApart, RN!TablesFollow

LEMMA RenameInit ==
  ASSUME RN!RenameAssumption, RN!Init PROVE RN!IInv
<1>. USE DEF RN!RenameAssumption, RN!Init
<1>1. RN!TypeOK /\ \A l \in NamedLayers : entry[l] # None
  BY DEF RN!TypeOK, RN!Labels
<1>2. RN!LockIsHeld /\ RN!RenamesAreApart /\ RN!RealPathsAreApart /\ RN!TablesFollow
  BY DEF RN!LockIsHeld, RN!RenamesAreApart, RN!RealPathsAreApart, RN!TablesFollow
<1> QED BY <1>1, <1>2 DEF RN!IInv

(* The real paths of a layer's data and of its entry differ only while the *)
(* layer's registry entry is updated under the lock to write.              *)
LEMMA RealPathsAgree ==
  ASSUME RN!RenameAssumption, RN!IInv, NEW t \in Callers,
         t \in readers \/ rnPc[t] = "refind", NEW l \in NamedLayers
  PROVE  RealPath[entry[l]] = RealPath[identifier[l]]
BY DEF RN!RenameAssumption, RN!IInv, RN!LockIsHeld, RN!RealPathsAreApart,
       RN!TablesFollow

(* SdfLayer::Find leaves the tables alone.                                 *)
LEMMA FindKeeps ==
  ASSUME RN!RenameAssumption, RN!IInv, NEW t \in Callers,
         NEW i \in Identifiers, RN!BeginFind(t, i) \/ RN!EndFind(t)
  PROVE  RN!IInv'
<1>. USE DEF RN!IInv, RN!BeginFind, RN!EndFind, RN!Goto
<1>1. RN!TypeOK' /\ \A l \in NamedLayers : entry'[l] # None
  BY DEF RN!TypeOK, RN!Labels
<1>2. RN!LockIsHeld'
  BY DEF RN!LockIsHeld, RN!TypeOK, RN!RenameAssumption
<1>3. RN!RenamesAreApart'
  BY DEF RN!RenamesAreApart, RN!TypeOK, RN!RenameAssumption
<1>4. RN!RealPathsAreApart'
  BY DEF RN!RealPathsAreApart, RN!TypeOK
<1>5. RN!TablesFollow'
  BY DEF RN!TablesFollow, RN!TypeOK
<1> QED BY <1>1, <1>2, <1>3, <1>4, <1>5

LEMMA SetIdentifierKeeps ==
  ASSUME RN!RenameAssumption, RN!IInv, NEW t \in Callers,
         NEW l \in NamedLayers, NEW i \in Identifiers, RN!SetIdentifier(t, l, i)
  PROVE  RN!IInv'
<1>. USE DEF RN!IInv, RN!SetIdentifier, RN!Goto
<1>1. RN!TypeOK' /\ \A k \in NamedLayers : entry'[k] # None
  BY DEF RN!TypeOK, RN!Labels
<1>2. RN!LockIsHeld'
  BY DEF RN!LockIsHeld, RN!TypeOK, RN!RenameAssumption
<1>3. RN!RenamesAreApart'
  BY DEF RN!RenamesAreApart, RN!TypeOK, RN!RenameAssumption
<1>4. RN!RealPathsAreApart'
  BY DEF RN!RealPathsAreApart, RN!TypeOK
<1>5. RN!TablesFollow'
  BY DEF RN!TablesFollow, RN!RenamesAreApart, RN!TypeOK
<1> QED BY <1>1, <1>2, <1>3, <1>4, <1>5

(* A search, with the lock to read or to write, that finds a layer.        *)
LEMMA FoundKeeps ==
  ASSUME RN!RenameAssumption, RN!IInv, NEW t \in Callers,
         rnPc[t] \in {"find", "refind"}, RN!Found(t)
  PROVE  RN!IInv'
<1>. USE DEF RN!IInv, RN!Found, RN!Goto
<1>1. layer[t] \in RN!Find(rnName[t]) => RealPath[entry[layer[t]]] = RealPath[rnName[t]]
  BY DEF RN!Find, RN!ByIdentifier, RN!ByRealPath
<1>2. RN!TypeOK' /\ \A k \in NamedLayers : entry'[k] # None
  BY DEF RN!TypeOK, RN!Labels
<1>3. RN!LockIsHeld'
  BY DEF RN!LockIsHeld, RN!TypeOK, RN!RenameAssumption
<1>4. RN!RenamesAreApart'
  BY DEF RN!RenamesAreApart, RN!TypeOK, RN!RenameAssumption
<1>5. RN!RealPathsAreApart'
  BY <1>1 DEF RN!RealPathsAreApart, RN!LockIsHeld, RN!TypeOK, RN!RenameAssumption
<1>6. RN!TablesFollow'
  BY DEF RN!TablesFollow, RN!TypeOK
<1> QED BY <1>2, <1>3, <1>4, <1>5, <1>6

(* A search that finds none, and upgrades or goes on.                      *)
LEMMA NotFoundKeeps ==
  ASSUME RN!RenameAssumption, RN!IInv, NEW t \in Callers, NEW label,
         \/ rnPc[t] = "find" /\ label = "upgrade"
         \/ rnPc[t] = "refind" /\ label = "swap",
         RN!NotFound(t, label)
  PROVE  RN!IInv'
<1>. USE DEF RN!IInv, RN!NotFound, RN!Goto
<1>1. \A k \in NamedLayers : RealPath[entry[k]] # RealPath[rnName[t]]
  <2>1. t \in readers \/ rnPc[t] = "refind"
    BY DEF RN!LockIsHeld
  <2> QED BY <2>1, RealPathsAgree DEF RN!Find, RN!ByRealPath
<1>2. RN!TypeOK' /\ \A k \in NamedLayers : entry'[k] # None
  BY DEF RN!TypeOK, RN!Labels
<1>3. RN!LockIsHeld'
  BY DEF RN!LockIsHeld, RN!TypeOK
<1>4. RN!RenamesAreApart'
  BY DEF RN!RenamesAreApart, RN!TypeOK
<1>5. RN!RealPathsAreApart'
  BY <1>1 DEF RN!RealPathsAreApart, RN!LockIsHeld, RN!TypeOK
<1>6. RN!TablesFollow'
  BY DEF RN!TablesFollow, RN!TypeOK
<1> QED BY <1>2, <1>3, <1>4, <1>5, <1>6

LEMMA UpgradeKeeps ==
  ASSUME RN!RenameAssumption, RN!IInv, NEW t \in Callers,
         RN!UpgradeToWriter(t) \/ RN!LockToWrite(t)
  PROVE  RN!IInv'
<1>. USE DEF RN!IInv, RN!UpgradeToWriter, RN!LockToWrite, RN!Goto
<1>1. rnPc[t] \in {"upgrade", "wait"} /\ rnPc'[t] \in {"swap", "wait", "refind"}
  BY DEF RN!TypeOK
<1>2. RN!TypeOK' /\ \A k \in NamedLayers : entry'[k] # None
  BY DEF RN!TypeOK, RN!Labels
<1>3. RN!LockIsHeld'
  BY DEF RN!LockIsHeld, RN!TypeOK, RN!RenameAssumption
<1>4. RN!RenamesAreApart'
  BY DEF RN!RenamesAreApart, RN!TypeOK
<1>5. RN!RealPathsAreApart'
  BY DEF RN!RealPathsAreApart, RN!LockIsHeld, RN!TypeOK, RN!RenameAssumption
<1>6. RN!TablesFollow'
  BY DEF RN!TablesFollow, RN!TypeOK
<1> QED BY <1>2, <1>3, <1>4, <1>5, <1>6

LEMMA SwapKeeps ==
  ASSUME RN!RenameAssumption, RN!IInv, NEW t \in Callers, RN!SwapAssetInfo(t)
  PROVE  RN!IInv'
<1>. USE DEF RN!IInv, RN!SwapAssetInfo, RN!Return, RN!Goto
<1>1. layer[t] \in NamedLayers /\ rnName[t] \in Identifiers
  BY DEF RN!TypeOK, RN!RenamesAreApart
<1>2. RN!TypeOK' /\ \A k \in NamedLayers : entry'[k] # None
  BY <1>1 DEF RN!TypeOK, RN!Labels
<1>3. RN!LockIsHeld'
  BY DEF RN!LockIsHeld, RN!TypeOK, RN!RenameAssumption
<1>4. RN!RenamesAreApart'
  BY DEF RN!RenamesAreApart, RN!TypeOK, RN!RenameAssumption
<1>5. RN!RealPathsAreApart'
  BY DEF RN!RealPathsAreApart, RN!LockIsHeld, RN!TypeOK, RN!RenameAssumption
<1>6. RN!TablesFollow'
  BY <1>1 DEF RN!TablesFollow, RN!RenamesAreApart, RN!TypeOK
<1> QED BY <1>2, <1>3, <1>4, <1>5, <1>6

(* The registry's part of the rename: nobody has the real path, so that    *)
(* the layer keeps an entry, and it has its new path for itself.           *)
LEMMA InsertOrUpdateKeeps ==
  ASSUME RN!RenameAssumption, RN!IInv, NEW t \in Callers, RN!InsertOrUpdate(t)
  PROVE  RN!IInv'
<1>. DEFINE l == layer[t]
<1>. USE DEF RN!IInv, RN!Return, RN!Goto
<1>1. l \in NamedLayers /\ rnPc[t] = "update" /\ identifier[l] = rnName[t]
      /\ rnName[t] \in Identifiers /\ l # None
  BY DEF RN!InsertOrUpdate, RN!TypeOK, RN!RenamesAreApart, RN!TablesFollow
<1>2. \A k \in NamedLayers \ {l} : RealPath[entry[k]] # RealPath[rnName[t]]
  BY <1>1 DEF RN!RealPathsAreApart
<1>3. /\ entry' = [entry EXCEPT ![l] = rnName[t]]
      /\ rnWriter' = IF rnWriter = t THEN None ELSE rnWriter
      /\ layer' = [layer EXCEPT ![t] = None]
      /\ rnName' = [rnName EXCEPT ![t] = None]
      /\ rnPc' = [rnPc EXCEPT ![t] = "idle"]
      /\ UNCHANGED <<identifier, readers>>
  BY <1>1, <1>2 DEF RN!InsertOrUpdate
<1>4. RN!TypeOK' /\ \A k \in NamedLayers : entry'[k] # None
  BY <1>1, <1>3 DEF RN!TypeOK, RN!Labels, RN!RenameAssumption
<1>5. RN!LockIsHeld'
  BY <1>1, <1>3 DEF RN!LockIsHeld, RN!TypeOK, RN!RenameAssumption
<1>6. RN!RenamesAreApart'
  BY <1>3 DEF RN!RenamesAreApart, RN!TypeOK, RN!RenameAssumption
<1>7. RN!RealPathsAreApart'
  <2>1. \A j, k \in NamedLayers : j # k => RealPath[entry'[j]] # RealPath[entry'[k]]
    BY <1>1, <1>2, <1>3 DEF RN!RealPathsAreApart, RN!TypeOK
  <2>2. \A k \in NamedLayers : \/ RealPath[entry'[k]] = RealPath[entry[k]]
                               \/ k = l /\ rnWriter = t
    BY <1>1, <1>3 DEF RN!RealPathsAreApart, RN!TypeOK
  <2>3. ASSUME NEW u \in Callers, u # t
        PROVE  /\ rnPc'[u] = rnPc[u] /\ rnName'[u] = rnName[u]
               /\ layer'[u] = layer[u]
               /\ rnWriter'= u <=> rnWriter = u
               /\ rnPc[u] = "upgrade" => rnWriter # t
               /\ rnPc[u] \in {"swap", "update"} => layer[u] \in NamedLayers /\ layer[u] # l
    BY <1>1, <1>3, <2>3 DEF RN!TypeOK, RN!LockIsHeld, RN!RenamesAreApart, RN!RenameAssumption
  <2>4. rnPc'[t] = "idle"
    BY <1>3 DEF RN!TypeOK
  <2> QED BY <2>1, <2>2, <2>3, <2>4 DEF RN!RealPathsAreApart
<1>8. RN!TablesFollow'
  BY <1>1, <1>3 DEF RN!TablesFollow, RN!RenamesAreApart, RN!TypeOK
<1> QED BY <1>4, <1>5, <1>6, <1>7, <1>8

LEMMA RenameStep ==
  ASSUME RN!RenameAssumption, RN!IInv, [RN!Next]_RN!vars PROVE RN!IInv'
<1>1. ASSUME NEW t \in Callers, RN!FindAsReader(t) \/ RN!FindAsWriter(t)
      PROVE  RN!IInv'
  BY <1>1, FoundKeeps, NotFoundKeeps DEF RN!FindAsReader, RN!FindAsWriter
<1>2. ASSUME NEW t \in Callers, RN!EndFind(t) PROVE RN!IInv'
  BY <1>2, FindKeeps DEF RN!EndFind, RN!IInv, RN!TypeOK, RN!RenamesAreApart
<1> QED BY <1>1, <1>2, FindKeeps, SetIdentifierKeeps, UpgradeKeeps, SwapKeeps,
           InsertOrUpdateKeeps, RenameStutters DEF RN!Next

LEMMA RenameIsPart ==
  ASSUME SharedNext PROVE [RN!Next]_RN!vars
BY DEF SharedNext, StacksMove, TokensMove, NodesMove, NoticesMove, ChangesMove,
       PythonMoves, VulkanMoves, RenameMoves, CachesMove, renameVars, RN!vars

LEMMA RenameInvariant == SharedSpec => []RN!IInv
<1>1. SharedInit => RN!IInv
  BY SharedAssumptions, RenameInit DEF SharedAssumptions, SharedInit
<1>2. RN!IInv /\ [SharedNext]_<<part, vars, tokenVars, nodeVars, noticeVars,
         changeVars, pythonVars, vulkanVars, renameVars, cacheVars>> => RN!IInv'
  BY SharedAssumptions, RenameIsPart, RenameStep, RenameStutters
     DEF SharedAssumptions, renameVars, RN!vars
<1> QED BY <1>1, <1>2, PTL DEF SharedSpec

(***************************************************************************)
(* Of any number of layers that any number of threads rename and look for, *)
(* none drops out of the registry, and one that nobody renames is found by *)
(* its identifier.                                                         *)
(***************************************************************************)
THEOREM LayersAreFound == SharedSpec => []LayersStayRegistered
<1>1. RN!IInv => LayersStayRegistered
  BY DEF RN!IInv, RN!TablesFollow, RN!LayersStayRegistered, LayersStayRegistered
<1> QED BY <1>1, RenameInvariant, PTL

-----------------------------------------------------------------------------
(***************************************************************************)
(* UsdStageCache.                                                          *)
(***************************************************************************)

(* A set of indices has a least one.                                       *)
LEMMA LeastIndex ==
  ASSUME NEW n \in Nat, NEW I \in SUBSET (1..n), I # {}
  PROVE  SC!Min(I) \in I /\ \A i \in I : SC!Min(I) <= i
<1>. DEFINE Less == {ss \in Nat \X Nat : ss[1] < ss[2]}
<1>1. IsWellFoundedOn(Less, Nat)
  BY NatLessThanWellFounded DEF OpToRel
<1>2. PICK m \in I : \A i \in I : ~(<<i, m>> \in Less)
  BY <1>1, WFMin
<1>3. ASSUME NEW i \in I PROVE m <= i
  <2>1. <<i, m>> \in Nat \X Nat
    OBVIOUS
  <2>2. ~(i < m)
    BY <2>1, <1>2
  <2> QED BY <2>2
<1> QED BY <1>3 DEF SC!Min

(* What RemoveFirst leaves of a list without duplicates.                   *)
LEMMA RemoveFirstLeaves ==
  ASSUME NEW S, NEW s \in Seq(S), NEW e,
         \A i, j \in DOMAIN s : s[i] = s[j] => i = j
  PROVE  LET r == SC!RemoveFirst(s, e) IN
         /\ r \in Seq(S)
         /\ \A i \in DOMAIN r : r[i] # e /\ \E j \in DOMAIN s : s[j] = r[i]
         /\ \A i, j \in DOMAIN r : r[i] = r[j] => i = j
         /\ \A j \in DOMAIN s : s[j] # e => \E i \in DOMAIN r : r[i] = s[j]
<1>. DEFINE I == {i \in 1..Len(s) : s[i] = e}
            k == SC!Min(I)
<1>1. CASE I = {}
  <2>1. SC!RemoveFirst(s, e) = s
    BY <1>1 DEF SC!RemoveFirst
  <2> QED BY <1>1, <2>1
<1>2. CASE I # {}
  <2>1. k \in 1..Len(s) /\ s[k] = e
    <3>1. Len(s) \in Nat /\ I \in SUBSET (1..Len(s)) /\ \A i \in I : s[i] = e
      OBVIOUS
    <3>. HIDE DEF I
    <3> QED BY <1>2, <3>1, LeastIndex
  <2>. DEFINE front == SubSeq(s, 1, k - 1)
              back  == SubSeq(s, k + 1, Len(s))
              r == front \o back
  <2>2. SC!RemoveFirst(s, e) = r
    BY <1>2 DEF SC!RemoveFirst, SC!RemoveAt, SC!SelectInSeq
  <2>. HIDE DEF k
  <2>3. /\ r \in Seq(S) /\ Len(r) = Len(s) - 1
        /\ \A i \in 1..Len(r) : r[i] = IF i < k THEN s[i] ELSE s[i + 1]
    <3>1. /\ front \in Seq(S) /\ Len(front) = k - 1
          /\ \A i \in 1..(k - 1) : front[i] = s[i]
      BY <2>1, SubSeqProperties
    <3>2. /\ back \in Seq(S) /\ Len(back) = Len(s) - k
          /\ \A i \in 1..(Len(s) - k) : back[i] = s[k + i]
      BY <2>1, SubSeqProperties
    <3>. HIDE DEF front, back
    <3>3. /\ r \in Seq(S) /\ Len(r) = Len(front) + Len(back)
          /\ \A i \in 1..(Len(front) + Len(back)) :
               r[i] = IF i <= Len(front) THEN front[i] ELSE back[i - Len(front)]
      BY <3>1, <3>2, ConcatProperties
    <3>. HIDE DEF r
    <3>4. ASSUME NEW i \in 1..Len(r) PROVE r[i] = IF i < k THEN s[i] ELSE s[i + 1]
      <4>1. CASE i < k
        BY <4>1, <2>1, <3>1, <3>3
      <4>2. CASE ~(i < k)
        <5>1. /\ i - (k - 1) \in 1..(Len(s) - k) /\ i - Len(front) = i - (k - 1)
              /\ k + (i - (k - 1)) = i + 1 /\ ~(i <= Len(front))
              /\ i \in 1..(Len(front) + Len(back))
          BY <4>2, <2>1, <3>1, <3>2, <3>3
        <5>2. r[i] = back[i - (k - 1)]
          BY <3>3, <5>1
        <5> QED BY <3>2, <4>2, <5>1, <5>2
      <4> QED BY <4>1, <4>2
    <3> QED BY <2>1, <3>1, <3>2, <3>3, <3>4
  <2>. HIDE DEF r
  <2>4. ASSUME NEW i \in DOMAIN r PROVE r[i] # e /\ \E j \in DOMAIN s : s[j] = r[i]
    <3>1. CASE i < k
      BY <3>1, <2>1, <2>3
    <3>2. CASE ~(i < k)
      <4>1. i + 1 \in DOMAIN s /\ r[i] = s[i + 1] /\ i + 1 # k
        BY <3>2, <2>1, <2>3
      <4> QED BY <4>1, <2>1
    <3> QED BY <3>1, <3>2
  <2>5. ASSUME NEW i \in DOMAIN r, NEW j \in DOMAIN r, r[i] = r[j] PROVE i = j
    <3>. DEFINE place(n) == IF n < k THEN n ELSE n + 1
    <3>1. \A n \in DOMAIN r : place(n) \in DOMAIN s /\ r[n] = s[place(n)]
      BY <2>1, <2>3
    <3>2. place(i) = place(j)
      BY <2>5, <3>1
    <3>3. i \in Int /\ j \in Int
      BY <2>3
    <3> QED BY <2>1, <3>2, <3>3
  <2>6. ASSUME NEW j \in DOMAIN s, s[j] # e PROVE \E i \in DOMAIN r : r[i] = s[j]
    <3>1. CASE j < k
      BY <3>1, <2>1, <2>3
    <3>2. CASE ~(j < k)
      <4>1. j - 1 \in DOMAIN r /\ r[j - 1] = s[j]
        BY <3>2, <2>1, <2>3, <2>6
      <4> QED BY <4>1
    <3> QED BY <3>1, <3>2
  <2> QED BY <2>2, <2>3, <2>4, <2>5, <2>6
<1> QED BY <1>1, <1>2

(* The first pending request that will do, if any will.                    *)
LEMMA SatisfyingIsFirst ==
  ASSUME SC!TypeOK, NEW t \in Callers, cache[t] \in Caches
  PROVE  LET p == pending[cache[t]]
             first == SC!Satisfying(t)
         IN /\ first # 0 => first \in DOMAIN p /\ <<scWant[t], scWant[p[first]]>> \in Satisfies
            /\ first = 0 => \A i \in DOMAIN p : <<scWant[t], scWant[p[i]]>> \notin Satisfies
<1>. DEFINE p == pending[cache[t]]
            I == {i \in 1..Len(p) : <<scWant[t], scWant[p[i]]>> \in Satisfies}
<1>1. p \in Seq(Callers)
  BY DEF SC!TypeOK
<1>2. SC!Satisfying(t) = IF I # {} THEN SC!Min(I) ELSE 0
  BY DEF SC!Satisfying, SC!SelectInSeq
<1>3. I # {} => SC!Min(I) \in I
  <2>1. Len(p) \in Nat /\ I \in SUBSET (1..Len(p))
    BY <1>1
  <2>. HIDE DEF I, p
  <2> QED BY <2>1, LeastIndex
<1>4. DOMAIN p = 1..Len(p) /\ 0 \notin 1..Len(p)
  BY <1>1
<1>5. CASE I # {}
  <2>1. SC!Satisfying(t) \in I
    BY <1>2, <1>3, <1>5
  <2> QED BY <1>4, <2>1
<1>6. CASE I = {}
  BY <1>2, <1>4, <1>6
<1> QED BY <1>5, <1>6

LEMMA StageCacheStutters ==
  ASSUME SC!IInv, UNCHANGED SC!vars PROVE SC!IInv'
BY DEF SC!IInv, SC!vars, SC!implVars, SC!callVars, SC!TypeOK, SC!Running,
       SC!PendingRequestsRun, SC!CallsAreWhole, SC!MadeOnce, SC!Making,
       SC!SubscribersWait, SC!SubscribedOnce, SC!StagesAreWanted

LEMMA StageCacheInit ==
  ASSUME SC!StageCacheAssumption, SC!Init PROVE SC!IInv
<1>. USE DEF SC!StageCacheAssumption, SC!Init
<1>1. SC!TypeOK
  BY DEF SC!TypeOK, SC!Labels
<1>2. SC!PendingRequestsRun /\ SC!CallsAreWhole
  BY DEF SC!PendingRequestsRun, SC!CallsAreWhole, SC!Running
<1>3. SC!MadeOnce /\ SC!SubscribersWait /\ SC!SubscribedOnce /\ SC!StagesAreWanted
  BY DEF SC!MadeOnce, SC!Making, SC!SubscribersWait, SC!SubscribedOnce,
         SC!StagesAreWanted
<1> QED BY <1>1, <1>2, <1>3 DEF SC!IInv

(* A request is called, or returns with what the cache has.                *)
LEMMA CallKeeps ==
  ASSUME SC!StageCacheAssumption, Racing \subseteq {"erase"}, SC!IInv,
         NEW t \in Callers, SC!Call(t) \/ SC!FindStage(t)
  PROVE  SC!IInv'
<1>. USE DEF SC!IInv
<1>1. SC!TypeOK' /\ UNCHANGED <<stages, pending, mutex, stage, scState, other>>
  <2>1. UNCHANGED <<stages, pending, mutex, stage, scState, other>>
    BY DEF SC!Call, SC!FindStage, SC!implVars
  <2>2. CASE SC!Call(t)
    BY <2>1, <2>2 DEF SC!Call, SC!Goto, SC!TypeOK, SC!Labels
  <2>3. CASE SC!FindStage(t)
    BY <2>1, <2>3 DEF SC!FindStage, SC!Return, SC!Goto, SC!TypeOK, SC!Labels
  <2> QED BY <2>1, <2>2, <2>3
<1>2. subscribed[t] = {} /\ t \notin SC!Running
  <2>1. scPc[t] \in {"idle", "request"}
    BY DEF SC!Call, SC!FindStage, SC!Locks
  <2>2. t \notin SC!Running
    BY <2>1 DEF SC!Running
  <2> QED BY <2>2 DEF SC!SubscribersWait
<1>3. \/ /\ scPc[t] = "idle" /\ SC!Swapping = {}
         /\ scPc' = [scPc EXCEPT ![t] = "request"]
         /\ \E c \in Caches : cache' = [cache EXCEPT ![t] = c]
         /\ \E r \in Requests : scWant' = [scWant EXCEPT ![t] = r]
      \/ /\ scPc[t] = "request"
         /\ scPc' = [scPc EXCEPT ![t] = "idle"]
         /\ cache' = [cache EXCEPT ![t] = None]
         /\ scWant' = [scWant EXCEPT ![t] = None]
  BY DEF SC!Call, SC!FindStage, SC!Return, SC!Goto, SC!Locks
<1>4. subscribed' = subscribed
  <2>1. subscribed = [subscribed EXCEPT ![t] = {}]
    BY <1>2 DEF SC!TypeOK
  <2> QED BY <2>1 DEF SC!Call, SC!FindStage, SC!Return
<1>5. /\ scPc[t] \in {"idle", "request"} /\ scPc'[t] \in {"idle", "request"}
      /\ \A u \in Callers \ {t} : /\ scPc'[u] = scPc[u] /\ cache'[u] = cache[u]
                                  /\ scWant'[u] = scWant[u]
  BY <1>3 DEF SC!TypeOK
<1>6. SC!Running' = SC!Running
  BY <1>5 DEF SC!Running
<1>7. SC!PendingRequestsRun'
  BY <1>1, <1>2, <1>5, <1>6 DEF SC!PendingRequestsRun, SC!Running
<1>8. SC!CallsAreWhole'
  BY <1>1, <1>3 DEF SC!CallsAreWhole, SC!TypeOK, SC!Swapping, SC!StageCacheAssumption
<1>9. SC!MadeOnce'
  <2>1. \A c \in Caches, r \in Requests : SC!Making(c, r)' = SC!Making(c, r)
    BY <1>5 DEF SC!Making
  <2> QED BY <1>1, <2>1 DEF SC!MadeOnce
<1>10. SC!SubscribersWait'
  <2>1. ASSUME NEW u \in Callers, NEW v \in subscribed'[u]
        PROVE  /\ u \in SC!Running' /\ scPc'[v] = "wait" /\ scState'[v] = 1
               /\ <<scWant'[v], scWant'[u]>> \in Satisfies
    <3>1. /\ u \in SC!Running /\ v \in Callers /\ scPc[v] = "wait" /\ scState[v] = 1
          /\ <<scWant[v], scWant[u]>> \in Satisfies
      BY <1>4 DEF SC!SubscribersWait, SC!TypeOK
    <3> QED BY <1>1, <1>2, <1>5, <1>6, <3>1
  <2>2. ASSUME NEW v \in Callers
        PROVE  IF scPc'[v] # "wait" THEN scState'[v] = 0
               ELSE \/ scState'[v] = 2
                    \/ scState'[v] = 1 /\ \E u \in Callers : v \in subscribed'[u]
    BY <1>1, <1>4, <1>5 DEF SC!SubscribersWait
  <2> QED BY <2>1, <2>2 DEF SC!SubscribersWait
<1>11. SC!StagesAreWanted'
  BY <1>1, <1>5 DEF SC!StagesAreWanted
<1>12. SC!SubscribedOnce'
  BY <1>4 DEF SC!SubscribedOnce
<1> QED BY <1>1, <1>7, <1>8, <1>9, <1>10, <1>11, <1>12

(* It subscribes to the first pending request that will do.                *)
LEMMA SubscribeKeeps ==
  ASSUME SC!StageCacheAssumption, SC!IInv, NEW t \in Callers, SC!Subscribe(t)
  PROVE  SC!IInv'
<1>. DEFINE v == pending[cache[t]][SC!Satisfying(t)]
<1>. USE DEF SC!IInv
<1>1. /\ scPc[t] = "request" /\ cache[t] \in Caches
      /\ subscribed' = [subscribed EXCEPT ![v] = @ \cup {t}]
      /\ scState' = [scState EXCEPT ![t] = 1]
      /\ scPc' = [scPc EXCEPT ![t] = "wait"]
      /\ UNCHANGED <<stages, pending, mutex, cache, scWant, stage, other>>
  BY DEF SC!Subscribe, SC!Locks, SC!CallsAreWhole, SC!TypeOK, SC!Goto, SC!implVars
<1>2. v \in SC!Running /\ <<scWant[t], scWant[v]>> \in Satisfies
  BY <1>1, SatisfyingIsFirst DEF SC!Subscribe, SC!PendingRequestsRun
<1>. HIDE DEF v
<1>3. /\ \A u \in Callers \ {t} : scPc'[u] = scPc[u] /\ scState'[u] = scState[u]
      /\ scPc'[t] = "wait" /\ scState'[t] = 1
      /\ v \in Callers /\ v # t /\ SC!Running' = SC!Running
      /\ \A u \in Callers :
           subscribed'[u] = IF u = v THEN subscribed[u] \cup {t} ELSE subscribed[u]
  BY <1>1, <1>2 DEF SC!TypeOK, SC!Running
<1>4. SC!TypeOK'
  BY <1>1, <1>3 DEF SC!TypeOK, SC!Labels
<1>5. SC!PendingRequestsRun' /\ SC!CallsAreWhole' /\ SC!MadeOnce'
  BY <1>1, <1>3 DEF SC!PendingRequestsRun, SC!CallsAreWhole, SC!MadeOnce, SC!Making
<1>6. SC!SubscribersWait'
  BY <1>1, <1>2, <1>3 DEF SC!SubscribersWait
<1>7. SC!StagesAreWanted'
  BY <1>1, <1>3 DEF SC!StagesAreWanted
<1>8. SC!SubscribedOnce'
  <2>1. \A u \in Callers : t \notin subscribed[u]
    BY <1>1 DEF SC!SubscribersWait
  <2> QED BY <1>3, <2>1 DEF SC!SubscribedOnce
<1> QED BY <1>4, <1>5, <1>6, <1>7, <1>8

(* Or there is none, nor a stage, and it becomes a pending request.        *)
LEMMA BecomePendingKeeps ==
  ASSUME SC!StageCacheAssumption, SC!IInv, NEW t \in Callers, SC!BecomePending(t)
  PROVE  SC!IInv'
<1>. DEFINE c == cache[t]
            p == pending[c]
<1>. USE DEF SC!IInv
<1>1. /\ scPc[t] = "request" /\ c \in Caches /\ scWant[t] \in Requests
      /\ pending' = [pending EXCEPT ![c] = Append(p, t)]
      /\ scPc' = [scPc EXCEPT ![t] = "manufacture"]
      /\ UNCHANGED <<stages, mutex, cache, scWant, stage, scState, subscribed, other>>
  BY DEF SC!BecomePending, SC!Locks, SC!CallsAreWhole, SC!TypeOK, SC!Goto, SC!callVars
<1>2. /\ stages[c][scWant[t]] = 0
      /\ \A i \in DOMAIN p : scWant[p[i]] # scWant[t]
  <2>1. <<scWant[t], scWant[t]>> \in Satisfies
    BY <1>1 DEF SC!StageCacheAssumption
  <2>2. SC!Hits(t) = {} /\ SC!Satisfying(t) = 0
    BY DEF SC!BecomePending
  <2>3. stages[c][scWant[t]] \in Nat
    BY <1>1 DEF SC!TypeOK
  <2>4. stages[c][scWant[t]] = 0
    BY <1>1, <2>1, <2>2, <2>3 DEF SC!Hits
  <2>5. \A i \in DOMAIN p : <<scWant[t], scWant[p[i]]>> \notin Satisfies
    BY <1>1, <2>2, SatisfyingIsFirst
  <2> QED BY <2>1, <2>4, <2>5
<1>3. /\ \A u \in Callers : scPc'[u] = IF u = t THEN "manufacture" ELSE scPc[u]
      /\ t \notin SC!Running /\ SC!Running' = SC!Running \cup {t}
  BY <1>1 DEF SC!TypeOK, SC!Running
<1>4. /\ p \in Seq(Callers) /\ pending'[c] = Append(p, t)
      /\ pending' \in [Caches -> Seq(Callers)]
      /\ \A d \in Caches \ {c} : pending'[d] = pending[d]
      /\ DOMAIN pending'[c] = DOMAIN p \cup {Len(p) + 1}
      /\ \A i \in DOMAIN p : pending'[c][i] = p[i]
      /\ pending'[c][Len(p) + 1] = t /\ Len(p) + 1 \notin DOMAIN p
  BY <1>1 DEF SC!TypeOK
<1>. HIDE DEF p
<1>5. SC!TypeOK'
  BY <1>1, <1>4 DEF SC!TypeOK, SC!Labels
<1>6. SC!PendingRequestsRun'
  <2>1. \A i \in DOMAIN p : /\ p[i] \in SC!Running /\ p[i] # t /\ cache[p[i]] = c
                            /\ \A j \in DOMAIN p : p[i] = p[j] => i = j
    BY <1>1, <1>3 DEF SC!PendingRequestsRun, p
  <2>2. ASSUME NEW d \in Caches, NEW i \in DOMAIN pending'[d]
        PROVE  /\ pending'[d][i] \in SC!Running' /\ cache'[pending'[d][i]] = d
               /\ \A j \in DOMAIN pending'[d] :
                    pending'[d][i] = pending'[d][j] => i = j
    BY <1>1, <1>3, <1>4, <2>1 DEF SC!PendingRequestsRun
  <2>3. ASSUME NEW u \in SC!Running'
        PROVE  \E i \in DOMAIN pending'[cache'[u]] : pending'[cache'[u]][i] = u
    <3>1. CASE u = t
      BY <3>1, <1>1, <1>4
    <3>2. CASE u # t
      <4>1. u \in SC!Running /\ cache[u] \in Caches
        BY <3>2, <1>3 DEF SC!CallsAreWhole, SC!TypeOK, SC!Running
      <4>2. PICK i \in DOMAIN pending[cache[u]] : pending[cache[u]][i] = u
        BY <4>1 DEF SC!PendingRequestsRun
      <4> QED BY <1>1, <1>4, <4>1, <4>2 DEF p
    <3> QED BY <3>1, <3>2
  <2> QED BY <2>2, <2>3 DEF SC!PendingRequestsRun
<1>7. SC!CallsAreWhole'
  BY <1>1, <1>3 DEF SC!CallsAreWhole
<1>8. SC!MadeOnce'
  <2>1. \A d \in Caches, r \in Requests :
          SC!Making(d, r)' = IF d = c /\ r = scWant[t] THEN SC!Making(d, r) \cup {t}
                             ELSE SC!Making(d, r)
    BY <1>1, <1>3 DEF SC!Making
  <2>2. ASSUME NEW u \in SC!Making(c, scWant[t]) PROVE FALSE
    <3>1. u \in SC!Running /\ cache[u] = c /\ scWant[u] = scWant[t]
      BY DEF SC!Making, SC!Running
    <3>2. PICK i \in DOMAIN pending[c] : pending[c][i] = u
      BY <3>1 DEF SC!PendingRequestsRun
    <3> QED BY <1>2, <3>1, <3>2 DEF p
  <2> QED BY <1>1, <1>2, <2>1, <2>2 DEF SC!MadeOnce
<1>9. SC!SubscribersWait'
  BY <1>1, <1>3 DEF SC!SubscribersWait
<1>10. SC!StagesAreWanted' /\ SC!SubscribedOnce'
  BY <1>1, <1>3 DEF SC!StagesAreWanted, SC!SubscribedOnce
<1> QED BY <1>5, <1>6, <1>7, <1>8, <1>9, <1>10

(* It makes its stage, or fails to.                                        *)
LEMMA ManufactureKeeps ==
  ASSUME SC!StageCacheAssumption, SC!IInv, NEW t \in Callers, SC!Manufacture(t)
  PROVE  SC!IInv'
<1>. USE DEF SC!IInv
<1>1. /\ scPc[t] = "manufacture" /\ scWant[t] \in Requests
      /\ \/ /\ scPc' = [scPc EXCEPT ![t] = "insert"]
            /\ stage' = [stage EXCEPT ![t] = scWant[t]]
         \/ scPc' = [scPc EXCEPT ![t] = "deliver"] /\ stage' = stage
      /\ UNCHANGED <<stages, pending, mutex, cache, scWant, scState, subscribed, other>>
  BY DEF SC!Manufacture, SC!Goto, SC!implVars, SC!CallsAreWhole, SC!TypeOK
<1>2. /\ \A u \in Callers \ {t} : scPc'[u] = scPc[u] /\ stage'[u] = stage[u]
      /\ scPc'[t] \in {"insert", "deliver"} /\ SC!Running' = SC!Running
      /\ scPc'[t] = "insert" => stage'[t] = scWant[t]
      /\ scPc'[t] = "deliver" => stage'[t] = stage[t]
  BY <1>1 DEF SC!TypeOK, SC!Running
<1>3. SC!TypeOK'
  BY <1>1 DEF SC!TypeOK, SC!Labels
<1>4. SC!PendingRequestsRun' /\ SC!CallsAreWhole' /\ SC!SubscribersWait'
  <2>1. SC!PendingRequestsRun'
    BY <1>1, <1>2 DEF SC!PendingRequestsRun
  <2>2. SC!CallsAreWhole'
    BY <1>1, <1>2 DEF SC!CallsAreWhole
  <2>3. SC!SubscribersWait'
    BY <1>1, <1>2 DEF SC!SubscribersWait, SC!TypeOK
  <2> QED BY <2>1, <2>2, <2>3
<1>5. SC!MadeOnce'
  <2>1. \A c \in Caches, r \in Requests : SC!Making(c, r)' \subseteq SC!Making(c, r)
    BY <1>1, <1>2 DEF SC!Making
  <2> QED BY <1>1, <2>1 DEF SC!MadeOnce
<1>6. SC!StagesAreWanted' /\ SC!SubscribedOnce'
  BY <1>1, <1>2 DEF SC!StagesAreWanted, SC!SubscribedOnce, SC!StageCacheAssumption
<1> QED BY <1>3, <1>4, <1>5, <1>6

(* The stage goes into the cache, as the first of its kind.                *)
LEMMA InsertKeeps ==
  ASSUME SC!StageCacheAssumption, SC!IInv, NEW t \in Callers, SC!Insert(t)
  PROVE  SC!IInv'
<1>. DEFINE c == cache[t]
            r == stage[t]
<1>. USE DEF SC!IInv
<1>1. /\ scPc[t] = "insert" /\ c \in Caches /\ r \in Requests /\ scWant[t] = r
      /\ stages' = [stages EXCEPT ![c][r] = @ + 1]
      /\ scPc' = [scPc EXCEPT ![t] = "deliver"]
      /\ UNCHANGED <<pending, mutex, cache, scWant, stage, scState, subscribed, other>>
  <2>1. /\ scPc[t] = "insert"
        /\ stages' = [stages EXCEPT ![c][r] = @ + 1]
        /\ scPc' = [scPc EXCEPT ![t] = "deliver"]
        /\ UNCHANGED <<pending, mutex, cache, scWant, stage, scState, subscribed, other>>
    BY DEF SC!Insert, SC!Goto, SC!callVars
  <2>2. c \in Caches /\ r \in Requests /\ scWant[t] = r
    BY <2>1 DEF SC!CallsAreWhole, SC!StagesAreWanted, SC!TypeOK
  <2> QED BY <2>1, <2>2
<1>2. /\ \A u \in Callers \ {t} : scPc'[u] = scPc[u]
      /\ scPc'[t] = "deliver" /\ SC!Running' = SC!Running
  BY <1>1 DEF SC!TypeOK, SC!Running
<1>3. \A d \in Caches, q \in Requests :
        stages'[d][q] = IF d = c /\ q = r THEN stages[d][q] + 1 ELSE stages[d][q]
  BY <1>1 DEF SC!TypeOK
<1>4. SC!TypeOK'
  BY <1>1 DEF SC!TypeOK, SC!Labels
<1>5. SC!PendingRequestsRun' /\ SC!CallsAreWhole' /\ SC!SubscribersWait'
  <2>1. SC!PendingRequestsRun'
    BY <1>1, <1>2 DEF SC!PendingRequestsRun
  <2>2. SC!CallsAreWhole'
    BY <1>1, <1>2 DEF SC!CallsAreWhole
  <2>3. SC!SubscribersWait'
    BY <1>1, <1>2 DEF SC!SubscribersWait, SC!TypeOK
  <2> QED BY <2>1, <2>2, <2>3
<1>6. SC!MadeOnce'
  <2>1. \A d \in Caches, q \in Requests : SC!Making(d, q)' = SC!Making(d, q) \ {t}
    BY <1>1, <1>2 DEF SC!Making
  <2>2. t \in SC!Making(c, r)
    BY <1>1 DEF SC!Making
  <2>3. SC!Making(c, r)' = {} /\ stages[c][r] = 0
    BY <1>1, <2>1, <2>2 DEF SC!MadeOnce
  <2>4. ASSUME NEW d \in Caches, NEW q \in Requests
        PROVE  /\ stages'[d][q] <= 1
               /\ \A u \in SC!Making(d, q)' :
                    stages'[d][q] = 0 /\ \A w \in SC!Making(d, q)' : u = w
    BY <1>1, <1>3, <2>1, <2>3 DEF SC!MadeOnce
  <2> QED BY <2>4 DEF SC!MadeOnce
<1>7. SC!StagesAreWanted' /\ SC!SubscribedOnce'
  BY <1>1, <1>2 DEF SC!StagesAreWanted, SC!SubscribedOnce
<1> QED BY <1>4, <1>5, <1>6, <1>7

(* It delivers its stage, or its failure, and returns.                     *)
LEMMA DeliverKeeps ==
  ASSUME SC!StageCacheAssumption, SC!IInv, NEW t \in Callers, SC!Deliver(t)
  PROVE  SC!IInv'
<1>. DEFINE c == cache[t]
            p == pending[c]
            q == SC!RemoveFirst(p, t)
<1>. USE DEF SC!IInv
<1>1. /\ scPc[t] = "deliver" /\ UNCHANGED <<stages, mutex, other>>
      /\ stage' = [u \in Callers |-> IF u = t THEN None
                                     ELSE IF u \in subscribed[t] THEN stage[t]
                                     ELSE stage[u]]
      /\ scState' = [u \in Callers |-> IF u \in subscribed[t] THEN 2 ELSE scState[u]]
      /\ pending' = [pending EXCEPT ![c] = q]
      /\ scPc' = [scPc EXCEPT ![t] = "idle"]
      /\ cache' = [cache EXCEPT ![t] = None]
      /\ scWant' = [scWant EXCEPT ![t] = None]
      /\ subscribed' = [subscribed EXCEPT ![t] = {}]
  BY DEF SC!Deliver, SC!Return, SC!Goto
<1>2. c \in Caches /\ t \in SC!Running /\ p \in Seq(Callers)
  BY <1>1 DEF SC!CallsAreWhole, SC!TypeOK, SC!Running
<1>3. /\ q \in Seq(Callers)
      /\ \A i \in DOMAIN q : q[i] # t /\ \E j \in DOMAIN p : p[j] = q[i]
      /\ \A i, j \in DOMAIN q : q[i] = q[j] => i = j
      /\ \A j \in DOMAIN p : p[j] # t => \E i \in DOMAIN q : q[i] = p[j]
  <2>1. \A i, j \in DOMAIN p : p[i] = p[j] => i = j
    BY <1>2 DEF SC!PendingRequestsRun
  <2>. HIDE DEF p
  <2> QED BY <1>2, <2>1, RemoveFirstLeaves
<1>. HIDE DEF q
<1>4. /\ \A u \in Callers \ {t} : /\ scPc'[u] = scPc[u] /\ cache'[u] = cache[u]
                                  /\ scWant'[u] = scWant[u]
                                  /\ subscribed'[u] = subscribed[u]
      /\ scPc'[t] = "idle" /\ cache'[t] = None /\ scWant'[t] = None
      /\ subscribed'[t] = {}
  BY <1>1 DEF SC!TypeOK
<1>5. SC!Running' = SC!Running \ {t}
  BY <1>4 DEF SC!Running
<1>6. /\ pending'[c] = q /\ \A d \in Caches \ {c} : pending'[d] = pending[d]
      /\ pending' \in [Caches -> Seq(Callers)]
  BY <1>1, <1>2, <1>3 DEF SC!TypeOK
<1>7. SC!TypeOK'
  <2>1. stage' \in [Callers -> Requests \cup {None}] /\ scState' \in [Callers -> 0..2]
    BY <1>1 DEF SC!TypeOK
  <2> QED BY <1>1, <1>6, <2>1 DEF SC!TypeOK, SC!Labels
<1>8. SC!PendingRequestsRun'
  <2>1. \A i \in DOMAIN p : p[i] \in SC!Running /\ cache[p[i]] = c
    BY <1>2 DEF SC!PendingRequestsRun
  <2>2. ASSUME NEW d \in Caches, NEW i \in DOMAIN pending'[d]
        PROVE  /\ pending'[d][i] \in SC!Running' /\ cache'[pending'[d][i]] = d
               /\ \A j \in DOMAIN pending'[d] :
                    pending'[d][i] = pending'[d][j] => i = j
    <3>1. CASE d = c
      <4>1. q[i] \in SC!Running /\ cache[q[i]] = c /\ q[i] # t
        BY <3>1, <1>3, <1>6, <2>1, <2>2
      <4> QED BY <1>3, <1>4, <1>5, <1>6, <3>1, <4>1 DEF SC!Running
    <3>2. CASE d # c
      <4>1. pending'[d] = pending[d]
        BY <3>2, <1>6
      <4>2. pending[d][i] \in SC!Running /\ cache[pending[d][i]] = d
        BY <2>2, <4>1 DEF SC!PendingRequestsRun
      <4>3. pending[d][i] # t
        BY <3>2, <4>2
      <4> QED BY <1>4, <1>5, <2>2, <4>1, <4>2, <4>3 DEF SC!PendingRequestsRun, SC!Running
    <3> QED BY <3>1, <3>2
  <2>3. ASSUME NEW u \in SC!Running'
        PROVE  \E i \in DOMAIN pending'[cache'[u]] : pending'[cache'[u]][i] = u
    <3>1. u \in SC!Running /\ u # t /\ cache'[u] = cache[u] /\ cache[u] \in Caches
      BY <1>4, <1>5 DEF SC!CallsAreWhole, SC!TypeOK, SC!Running
    <3>2. PICK i \in DOMAIN pending[cache[u]] : pending[cache[u]][i] = u
      BY <3>1 DEF SC!PendingRequestsRun
    <3> QED BY <1>3, <1>6, <3>1, <3>2
  <2> QED BY <2>2, <2>3 DEF SC!PendingRequestsRun
<1>9. SC!CallsAreWhole'
  BY <1>1, <1>4 DEF SC!CallsAreWhole
<1>10. SC!MadeOnce'
  <2>1. \A d \in Caches, r \in Requests : SC!Making(d, r)' \subseteq SC!Making(d, r)
    BY <1>4 DEF SC!Making
  <2> QED BY <1>1, <2>1 DEF SC!MadeOnce
<1>11. SC!SubscribersWait'
  <2>1. ASSUME NEW u \in Callers, NEW v \in subscribed'[u]
        PROVE  /\ u \in SC!Running' /\ scPc'[v] = "wait" /\ scState'[v] = 1
               /\ <<scWant'[v], scWant'[u]>> \in Satisfies
    <3>1. u # t /\ v \in subscribed[u]
      BY <1>4
    <3>2. /\ u \in SC!Running /\ v \in Callers /\ scPc[v] = "wait" /\ scState[v] = 1
          /\ <<scWant[v], scWant[u]>> \in Satisfies
      BY <3>1 DEF SC!SubscribersWait, SC!TypeOK
    <3>3. v \notin subscribed[t]
      BY <3>1, <3>2 DEF SC!SubscribedOnce
    <3> QED BY <1>1, <1>4, <1>5, <3>1, <3>2, <3>3
  <2>2. ASSUME NEW v \in Callers
        PROVE  IF scPc'[v] # "wait" THEN scState'[v] = 0
               ELSE \/ scState'[v] = 2
                    \/ scState'[v] = 1 /\ \E u \in Callers : v \in subscribed'[u]
    <3>1. v \in subscribed[t] => scPc[v] = "wait"
      BY DEF SC!SubscribersWait
    <3> QED BY <1>1, <1>4, <3>1 DEF SC!SubscribersWait
  <2> QED BY <2>1, <2>2 DEF SC!SubscribersWait
<1>12. SC!SubscribedOnce'
  BY <1>4 DEF SC!SubscribedOnce
<1>13. SC!StagesAreWanted'
  <2>1. \A u \in subscribed[t] : /\ scPc[u] = "wait"
                                 /\ <<scWant[u], scWant[t]>> \in Satisfies
    BY DEF SC!SubscribersWait
  <2>2. stage[t] \in {None, scWant[t]}
    BY <1>1 DEF SC!StagesAreWanted
  <2>3. \A u \in Callers : /\ scState'[u] = IF u \in subscribed[t] THEN 2 ELSE scState[u]
                           /\ stage'[u] = IF u = t THEN None
                                          ELSE IF u \in subscribed[t] THEN stage[t]
                                          ELSE stage[u]
    BY <1>1
  <2>4. ASSUME NEW u \in Callers
        PROVE  /\ scPc'[u] = "insert" => stage'[u] # None
               /\ stage'[u] # None =>
                    \/ scPc'[u] \in {"insert", "deliver"} /\ stage'[u] = scWant'[u]
                    \/ /\ scPc'[u] = "wait" /\ scState'[u] = 2
                       /\ <<scWant'[u], stage'[u]>> \in Satisfies
    <3>1. CASE u = t
      BY <3>1, <1>4, <2>3
    <3>2. CASE u # t /\ u \in subscribed[t]
      BY <3>2, <1>4, <2>1, <2>2, <2>3
    <3>3. CASE u # t /\ u \notin subscribed[t]
      BY <3>3, <1>4, <2>3 DEF SC!StagesAreWanted
    <3> QED BY <3>1, <3>2, <3>3
  <2> QED BY <2>4 DEF SC!StagesAreWanted
<1> QED BY <1>7, <1>8, <1>9, <1>10, <1>11, <1>12, <1>13

(* A mailbox that has its delivery is read.                                *)
LEMMA WaitKeeps ==
  ASSUME SC!StageCacheAssumption, SC!IInv, NEW t \in Callers, SC!Wait(t)
  PROVE  SC!IInv'
<1>. USE DEF SC!IInv
<1>1. /\ scPc[t] = "wait" /\ scState[t] # 1
      /\ stage' = [stage EXCEPT ![t] = None]
      /\ scState' = [scState EXCEPT ![t] = 0]
      /\ scPc' = [scPc EXCEPT ![t] = "idle"]
      /\ cache' = [cache EXCEPT ![t] = None]
      /\ scWant' = [scWant EXCEPT ![t] = None]
      /\ subscribed' = [subscribed EXCEPT ![t] = {}]
      /\ UNCHANGED <<stages, pending, mutex, other>>
  BY DEF SC!Wait, SC!Return, SC!Goto, SC!implVars
<1>2. t \notin SC!Running /\ subscribed[t] = {} /\ \A u \in Callers : t \notin subscribed[u]
  BY <1>1 DEF SC!SubscribersWait, SC!Running
<1>3. /\ \A u \in Callers \ {t} : /\ scPc'[u] = scPc[u] /\ cache'[u] = cache[u]
                                  /\ scWant'[u] = scWant[u]
                                  /\ stage'[u] = stage[u] /\ scState'[u] = scState[u]
      /\ scPc'[t] = "idle" /\ cache'[t] = None /\ scWant'[t] = None
      /\ stage'[t] = None /\ scState'[t] = 0
      /\ subscribed' = subscribed
  BY <1>1, <1>2 DEF SC!TypeOK
<1>4. SC!Running' = SC!Running
  BY <1>1, <1>3 DEF SC!Running
<1>5. SC!TypeOK'
  BY <1>1 DEF SC!TypeOK, SC!Labels
<1>6. SC!PendingRequestsRun'
  <2>1. pending' = pending /\ \A u \in SC!Running : cache'[u] = cache[u]
    BY <1>1, <1>2, <1>3 DEF SC!Running
  <2> QED BY <1>4, <2>1 DEF SC!PendingRequestsRun
<1>7. SC!CallsAreWhole'
  BY <1>1, <1>3 DEF SC!CallsAreWhole
<1>8. SC!MadeOnce'
  <2>1. \A d \in Caches, r \in Requests : SC!Making(d, r)' \subseteq SC!Making(d, r)
    BY <1>3 DEF SC!Making
  <2> QED BY <1>1, <2>1 DEF SC!MadeOnce
<1>9. SC!SubscribersWait'
  <2>1. ASSUME NEW u \in Callers, NEW v \in subscribed'[u]
        PROVE  /\ u \in SC!Running' /\ scPc'[v] = "wait" /\ scState'[v] = 1
               /\ <<scWant'[v], scWant'[u]>> \in Satisfies
    <3>1. /\ u \in SC!Running /\ v \in Callers /\ scPc[v] = "wait" /\ scState[v] = 1
          /\ <<scWant[v], scWant[u]>> \in Satisfies
      BY <1>3 DEF SC!SubscribersWait, SC!TypeOK
    <3> QED BY <1>1, <1>2, <1>3, <1>4, <3>1
  <2>2. ASSUME NEW v \in Callers
        PROVE  IF scPc'[v] # "wait" THEN scState'[v] = 0
               ELSE \/ scState'[v] = 2
                    \/ scState'[v] = 1 /\ \E u \in Callers : v \in subscribed'[u]
    BY <1>3 DEF SC!SubscribersWait
  <2> QED BY <2>1, <2>2 DEF SC!SubscribersWait
<1>10. SC!SubscribedOnce'
  BY <1>3 DEF SC!SubscribedOnce
<1>11. SC!StagesAreWanted'
  BY <1>3 DEF SC!StagesAreWanted
<1> QED BY <1>5, <1>6, <1>7, <1>8, <1>9, <1>10, <1>11

(* A client erases a stage.                                                *)
LEMMA EraseKeeps ==
  ASSUME SC!IInv, NEW c \in Caches, NEW r \in Requests, SC!Erase(c, r)
  PROVE  SC!IInv'
<1>. USE DEF SC!IInv
<1>1. /\ stages[c][r] > 0 /\ stages' = [stages EXCEPT ![c][r] = @ - 1]
      /\ UNCHANGED <<pending, mutex, scPc, cache, scWant, stage, scState, subscribed, other>>
  BY DEF SC!Erase, SC!callVars
<1>2. \A d \in Caches, q \in Requests :
        stages'[d][q] = IF d = c /\ q = r THEN stages[d][q] - 1 ELSE stages[d][q]
  BY <1>1 DEF SC!TypeOK
<1>3. SC!TypeOK'
  BY <1>1 DEF SC!TypeOK
<1>4. SC!PendingRequestsRun' /\ SC!CallsAreWhole' /\ SC!SubscribersWait'
      /\ SC!SubscribedOnce' /\ SC!StagesAreWanted'
  BY <1>1 DEF SC!PendingRequestsRun, SC!CallsAreWhole, SC!SubscribersWait,
              SC!SubscribedOnce, SC!StagesAreWanted, SC!Running
<1>5. SC!MadeOnce'
  <2>1. \A d \in Caches, q \in Requests : /\ stages'[d][q] <= stages[d][q]
                                          /\ stages[d][q] = 0 => stages'[d][q] = 0
                                          /\ stages'[d][q] \in Nat
                                          /\ stages[d][q] \in Nat
    BY <1>1, <1>2, <1>3 DEF SC!TypeOK
  <2>2. \A d \in Caches, q \in Requests : SC!Making(d, q)' = SC!Making(d, q)
    BY <1>1 DEF SC!Making
  <2> QED BY <2>1, <2>2 DEF SC!MadeOnce
<1> QED BY <1>3, <1>4, <1>5

(***************************************************************************)
(* What clients may do while no request runs: nothing is pending, and the  *)
(* contents of caches go, are copied or change places.                     *)
(***************************************************************************)
LEMMA QuietKeeps ==
  ASSUME SC!IInv, SC!TypeOK', SC!CallsAreWhole',
         \A t \in Callers : scPc[t] \in {"idle", "swap"} /\ scPc'[t] \in {"idle", "swap"},
         \A c \in Caches : \/ pending'[c] = << >>
                           \/ \E d \in Caches : pending'[c] = pending[d],
         \A c \in Caches : \/ \A r \in Requests : stages'[c][r] = 0
                           \/ \E d \in Caches : stages'[c] = stages[d],
         UNCHANGED <<stage, scState, subscribed>>
  PROVE  SC!IInv'
<1>1. SC!Running = {} /\ SC!Running' = {}
  BY DEF SC!Running
<1>2. \A c \in Caches : DOMAIN pending[c] = {} /\ DOMAIN pending'[c] = {}
  BY <1>1 DEF SC!IInv, SC!PendingRequestsRun
<1>3. SC!PendingRequestsRun'
  BY <1>1, <1>2 DEF SC!PendingRequestsRun
<1>4. SC!MadeOnce'
  <2>1. \A c \in Caches, r \in Requests : SC!Making(c, r)' = {}
    BY DEF SC!Making
  <2> QED BY <2>1 DEF SC!IInv, SC!MadeOnce
<1>5. SC!SubscribersWait' /\ SC!SubscribedOnce'
  BY <1>1 DEF SC!IInv, SC!SubscribersWait, SC!SubscribedOnce
<1>6. SC!StagesAreWanted'
  BY DEF SC!IInv, SC!StagesAreWanted
<1> QED BY <1>3, <1>4, <1>5, <1>6 DEF SC!IInv

LEMMA QuietStepsKeep ==
  ASSUME SC!StageCacheAssumption, Racing \subseteq {"erase"}, SC!IInv,
         \/ \E c \in Caches : SC!Clear(c)
         \/ \E c, d \in Caches : SC!Assign(c, d)
         \/ \E t \in Callers : SC!BeginSwap(t) \/ SC!EndSwap(t)
  PROVE  SC!IInv'
<1>. USE DEF SC!IInv
<1>1. CASE \E c \in Caches : SC!Clear(c)
  <2>1. PICK c \in Caches : SC!Clear(c)
    BY <1>1
  <2>2. /\ stages' = [stages EXCEPT ![c] = [r \in Requests |-> 0]]
        /\ pending' = [pending EXCEPT ![c] = << >>]
        /\ \A t \in Callers : scPc[t] = "idle"
        /\ UNCHANGED <<mutex, scPc, cache, scWant, stage, scState, subscribed, other>>
    BY <2>1 DEF SC!Clear, SC!May, SC!callVars
  <2>3. SC!TypeOK' /\ SC!CallsAreWhole'
    BY <2>2 DEF SC!TypeOK, SC!CallsAreWhole
  <2>4. \A d \in Caches : /\ pending'[d] = IF d = c THEN << >> ELSE pending[d]
                          /\ stages'[d] = IF d = c THEN [r \in Requests |-> 0]
                                          ELSE stages[d]
    BY <2>2 DEF SC!TypeOK
  <2> QED BY <2>2, <2>3, <2>4, QuietKeeps
<1>2. CASE \E c, d \in Caches : SC!Assign(c, d)
  <2>1. PICK c \in Caches, d \in Caches : SC!Assign(c, d)
    BY <1>2
  <2>2. /\ stages' = [stages EXCEPT ![c] = stages[d]]
        /\ pending' = [pending EXCEPT ![c] = pending[d]]
        /\ \A t \in Callers : scPc[t] = "idle"
        /\ UNCHANGED <<mutex, scPc, cache, scWant, stage, scState, subscribed, other>>
    BY <2>1 DEF SC!Assign, SC!May, SC!callVars
  <2>3. SC!TypeOK' /\ SC!CallsAreWhole'
    BY <2>2 DEF SC!TypeOK, SC!CallsAreWhole
  <2>4. \A e \in Caches : /\ pending'[e] = IF e = c THEN pending[d] ELSE pending[e]
                          /\ stages'[e] = IF e = c THEN stages[d] ELSE stages[e]
    BY <2>2 DEF SC!TypeOK
  <2> QED BY <2>2, <2>3, <2>4, QuietKeeps
<1>3. ASSUME NEW t \in Callers, SC!BeginSwap(t) PROVE SC!IInv'
  <2>1. PICK c \in Caches, d \in Caches :
          /\ mutex' = [mutex EXCEPT ![c] = t]
          /\ cache' = [cache EXCEPT ![t] = c]
          /\ other' = [other EXCEPT ![t] = d]
    BY <1>3 DEF SC!BeginSwap
  <2>2. /\ \A u \in Callers : scPc[u] = "idle"
        /\ scPc' = [scPc EXCEPT ![t] = "swap"]
        /\ UNCHANGED <<stages, pending, scWant, stage, scState, subscribed>>
    BY <1>3 DEF SC!BeginSwap, SC!May, SC!Goto, SC!implVars
  <2>3. SC!TypeOK'
    BY <2>1, <2>2 DEF SC!TypeOK, SC!Labels
  <2>4. SC!CallsAreWhole'
    BY <2>1, <2>2 DEF SC!CallsAreWhole, SC!TypeOK, SC!StageCacheAssumption
  <2>5. \A u \in Callers : scPc'[u] \in {"idle", "swap"}
    BY <2>2 DEF SC!TypeOK
  <2> QED BY <2>2, <2>3, <2>4, <2>5, QuietKeeps
<1>4. ASSUME NEW t \in Callers, SC!EndSwap(t) PROVE SC!IInv'
  <2>. DEFINE c == cache[t]
              d == other[t]
  <2>1. /\ stages' = [stages EXCEPT ![c] = stages[d], ![d] = stages[c]]
        /\ pending' = [pending EXCEPT ![c] = pending[d], ![d] = pending[c]]
        /\ mutex' = [mutex EXCEPT ![c] = None]
        /\ other' = [other EXCEPT ![t] = None]
        /\ scPc' = [scPc EXCEPT ![t] = "idle"]
        /\ cache' = [cache EXCEPT ![t] = None]
        /\ scWant' = [scWant EXCEPT ![t] = None]
        /\ subscribed' = [subscribed EXCEPT ![t] = {}]
        /\ UNCHANGED <<stage, scState>> /\ scPc[t] = "swap"
    BY <1>4 DEF SC!EndSwap, SC!Return, SC!Goto
  <2>2. c \in Caches /\ d \in Caches /\ \A u \in Callers \ {t} : scPc[u] = "idle"
    BY <2>1 DEF SC!CallsAreWhole, SC!TypeOK
  <2>3. subscribed' = subscribed
    <3>1. subscribed[t] = {}
      BY <2>1 DEF SC!SubscribersWait, SC!Running
    <3> QED BY <2>1, <3>1 DEF SC!TypeOK
  <2>4. \A e \in Caches :
          /\ pending'[e] = IF e = d THEN pending[c] ELSE IF e = c THEN pending[d] ELSE pending[e]
          /\ stages'[e] = IF e = d THEN stages[c] ELSE IF e = c THEN stages[d] ELSE stages[e]
    BY <2>1, <2>2 DEF SC!TypeOK
  <2>5. SC!TypeOK'
    <3>1. pending' \in [Caches -> Seq(Callers)] /\ stages' \in [Caches -> [Requests -> Nat]]
      BY <2>1, <2>2 DEF SC!TypeOK
    <3> QED BY <2>1, <2>2, <3>1 DEF SC!TypeOK, SC!Labels
  <2>6. SC!CallsAreWhole'
    BY <2>1, <2>2 DEF SC!CallsAreWhole, SC!TypeOK
  <2>7. \A u \in Callers : scPc[u] \in {"idle", "swap"} /\ scPc'[u] \in {"idle", "swap"}
    BY <2>1, <2>2 DEF SC!TypeOK
  <2>8. ASSUME NEW e \in Caches
        PROVE  \E f \in Caches : pending'[e] = pending[f] /\ stages'[e] = stages[f]
    <3>1. CASE e = d
      BY <3>1, <2>2, <2>4
    <3>2. CASE e # d /\ e = c
      BY <3>2, <2>2, <2>4
    <3>3. CASE e # d /\ e # c
      BY <3>3, <2>4
    <3> QED BY <3>1, <3>2, <3>3
  <2>9. UNCHANGED <<stage, scState, subscribed>>
    BY <2>1, <2>3
  <2> QED BY <2>5, <2>6, <2>7, <2>8, <2>9, QuietKeeps
<1> QED BY <1>1, <1>2, <1>3, <1>4

LEMMA StageCacheStep ==
  ASSUME SC!StageCacheAssumption, Racing \subseteq {"erase"}, SC!IInv,
         [SC!Next]_SC!vars
  PROVE  SC!IInv'
<1>1. ASSUME NEW t \in Callers, SC!Proceed(t) PROVE SC!IInv'
  BY <1>1, CallKeeps, SubscribeKeeps, BecomePendingKeeps, ManufactureKeeps,
     InsertKeeps, DeliverKeeps, WaitKeeps, QuietStepsKeep DEF SC!Proceed
<1> QED BY <1>1, CallKeeps, EraseKeeps, QuietStepsKeep, StageCacheStutters
        DEF SC!Next

LEMMA StageCacheIsPart ==
  ASSUME SharedNext PROVE [SC!Next]_SC!vars
BY DEF SharedNext, StacksMove, TokensMove, NodesMove, NoticesMove, ChangesMove,
       PythonMoves, VulkanMoves, RenameMoves, CachesMove, cacheVars, SC!vars,
       SC!implVars, SC!callVars

LEMMA StageCacheInvariant ==
  ASSUME Racing \subseteq {"erase"} PROVE SharedSpec => []SC!IInv
<1>1. SharedInit => SC!IInv
  BY SharedAssumptions, StageCacheInit DEF SharedAssumptions, SharedInit
<1>2. SC!IInv /\ [SharedNext]_<<part, vars, tokenVars, nodeVars, noticeVars,
         changeVars, pythonVars, vulkanVars, renameVars, cacheVars>> => SC!IInv'
  BY SharedAssumptions, StageCacheIsPart, StageCacheStep, StageCacheStutters
     DEF SharedAssumptions, cacheVars, SC!vars, SC!implVars, SC!callVars
<1> QED BY <1>1, <1>2, PTL DEF SharedSpec

(***************************************************************************)
(* With any number of threads, caches and requests, and clients that erase *)
(* stages meanwhile, what a request asks for is made once, and a thread    *)
(* gets a stage that it has asked for.                                     *)
(***************************************************************************)
THEOREM StagesAreCreatedOnce ==
  ASSUME Racing \subseteq {"erase"} PROVE SharedSpec => []CreatedOnce
<1>1. SC!IInv => CreatedOnce
  <2>1. ASSUME SC!IInv, NEW c \in Caches, NEW r \in Requests
        PROVE  Cardinality(SC!Making(c, r)) + stages[c][r] <= 1
    <3>1. stages[c][r] \in Nat /\ stages[c][r] <= 1
      BY <2>1 DEF SC!IInv, SC!MadeOnce, SC!TypeOK
    <3>2. CASE SC!Making(c, r) = {}
      BY <3>1, <3>2, FS_EmptySet
    <3>3. CASE SC!Making(c, r) # {}
      <4>1. PICK t \in SC!Making(c, r) : stages[c][r] = 0
        BY <2>1, <3>3 DEF SC!IInv, SC!MadeOnce
      <4>2. SC!Making(c, r) = {t}
        BY <2>1, <4>1 DEF SC!IInv, SC!MadeOnce
      <4>3. Cardinality(SC!Making(c, r)) = 1
        BY <4>2, FS_Singleton
      <4> QED BY <4>1, <4>3
    <3> QED BY <3>2, <3>3
  <2>2. ASSUME SC!IInv, NEW t \in Callers, stage[t] # None
        PROVE  <<scWant[t], stage[t]>> \in Satisfies
    BY <2>2, SharedAssumptions
       DEF SharedAssumptions, SC!StageCacheAssumption, SC!IInv, SC!StagesAreWanted,
           SC!TypeOK
  <2>3. ASSUME SC!IInv PROVE SC!CreatedOnce
    <3>1. \A S : SC!Cardinality(S) = Cardinality(S)
      BY DEF SC!Cardinality, Cardinality
    <3> QED BY <2>1, <2>2, <2>3, <3>1 DEF SC!CreatedOnce
  <2> QED BY <2>3 DEF CreatedOnce
<1> QED BY <1>1, StageCacheInvariant, PTL

(***************************************************************************)
(* And a thread that waits is subscribed to a request that still runs, or  *)
(* has its delivery: no wakeup is lost.                                    *)
(***************************************************************************)
THEOREM NoWakeupIsLost ==
  ASSUME Racing \subseteq {"erase"} PROVE SharedSpec => []WaitersAreServed
<1>1. SC!IInv => WaitersAreServed
  BY DEF SC!IInv, SC!SubscribersWait, SC!Running, WaitersAreServed, SC!WaitersAreServed
<1> QED BY <1>1, StageCacheInvariant, PTL

-----------------------------------------------------------------------------
(***************************************************************************)
(* SdfChangeManager.                                                       *)
(***************************************************************************)
LEMMA ChangesStutter ==
  ASSUME CM!IInv, UNCHANGED CM!vars PROVE CM!IInv'
BY DEF CM!IInv, CM!vars, CM!TypeOK, CM!ThreadsKeepToTheirs, CM!RoundsNest,
       CM!SerialsInOrder, CM!NoChangeIsLost, CM!Holds, CM!WillTell

LEMMA ChangesInit ==
  ASSUME CM!BoundsAssumption, CM!Init PROVE CM!IInv
<1>1. CM!TypeOK
  BY DEF CM!BoundsAssumption, CM!Init, CM!TypeOK
<1> QED BY <1>1 DEF CM!Init, CM!IInv, CM!ThreadsKeepToTheirs, CM!RoundsNest,
                    CM!SerialsInOrder, CM!NoChangeIsLost

(* List new is list, with change i of layer l added.                       *)
Adds(new, list, l, i) ==
  /\ new \in Seq(CM!Entry)
  /\ \E k \in DOMAIN new : new[k].layer = l /\ i \in new[k].ids
  /\ \A k \in DOMAIN list :
       /\ k \in DOMAIN new /\ new[k].layer = list[k].layer
       /\ list[k].ids \subseteq new[k].ids
  /\ \A k \in DOMAIN new :
       \/ new[k].layer = l
       \/ k \in DOMAIN list /\ new[k].layer = list[k].layer

LEMMA GetListForAdds ==
  ASSUME NEW list \in Seq(CM!Entry), NEW l \in EditedLayers, NEW i \in 1..MaxChanges
  PROVE  Adds(CM!GetListFor(list, l, i), list, l, i)
<1>1. CASE \E k \in DOMAIN list : list[k].layer = l
  <2>. DEFINE new == [k \in DOMAIN list |->
                        IF list[k].layer = l
                        THEN [list[k] EXCEPT !.ids = @ \cup {i}] ELSE list[k]]
  <2>1. CM!GetListFor(list, l, i) = new
    BY <1>1 DEF CM!GetListFor
  <2>2. \A k \in DOMAIN list :
          /\ list[k] \in CM!Entry /\ new[k] \in CM!Entry
          /\ new[k].layer = list[k].layer /\ list[k].ids \subseteq new[k].ids
          /\ list[k].layer = l => i \in new[k].ids
    <3>. SUFFICES ASSUME NEW k \in DOMAIN list
                  PROVE  /\ list[k] \in CM!Entry /\ new[k] \in CM!Entry
                         /\ new[k].layer = list[k].layer /\ list[k].ids \subseteq new[k].ids
                         /\ list[k].layer = l => i \in new[k].ids
      OBVIOUS
    <3>1. list[k] \in CM!Entry
      OBVIOUS
    <3>2. CASE list[k].layer = l
      <4>1. new[k] = [list[k] EXCEPT !.ids = @ \cup {i}]
        BY <3>2
      <4>. HIDE DEF new
      <4> QED BY <3>1, <3>2, <4>1 DEF CM!Entry
    <3>3. CASE list[k].layer # l
      <4>1. new[k] = list[k]
        BY <3>3
      <4>. HIDE DEF new
      <4> QED BY <3>1, <3>3, <4>1
    <3> QED BY <3>2, <3>3
  <2>3. DOMAIN new = DOMAIN list /\ new \in Seq(CM!Entry)
    BY <2>2
  <2>. HIDE DEF new
  <2> QED BY <1>1, <2>1, <2>2, <2>3 DEF Adds
<1>2. CASE ~\E k \in DOMAIN list : list[k].layer = l
  <2>. DEFINE e == [layer |-> l, ids |-> {i}]
  <2>1. CM!GetListFor(list, l, i) = Append(list, e)
    BY <1>2 DEF CM!GetListFor
  <2>2. e \in CM!Entry /\ e.layer = l /\ i \in e.ids
    BY DEF CM!Entry
  <2>. HIDE DEF e
  <2>3. /\ Append(list, e) \in Seq(CM!Entry)
        /\ DOMAIN list = 1..Len(list) /\ DOMAIN Append(list, e) = 1..(Len(list) + 1)
        /\ Append(list, e)[Len(list) + 1] = e
        /\ \A k \in 1..Len(list) : Append(list, e)[k] = list[k]
    BY <2>2
  <2>4. Len(list) + 1 \in DOMAIN Append(list, e)
    BY <2>3
  <2> QED BY <2>1, <2>2, <2>3, <2>4 DEF Adds
<1> QED BY <1>1, <1>2

(* The entries of the layers that exist.                                   *)
LEMMA ExistingKeeps ==
  ASSUME NEW S, NEW list \in Seq(S)
  PROVE  /\ CM!Existing(list) \in Seq(S)
         /\ \A k \in DOMAIN CM!Existing(list) :
              \E m \in DOMAIN list : CM!Existing(list)[k] = list[m]
         /\ \A m \in DOMAIN list : list[m].layer \in alive =>
              \E k \in DOMAIN CM!Existing(list) : CM!Existing(list)[k] = list[m]
<1>. DEFINE good == {k \in DOMAIN list : list[k].layer \in alive}
<1>1. Len(list) \in Nat /\ DOMAIN list = 1..Len(list)
  OBVIOUS
<1>2. PICK f : IsFilter(f, list, good, Len(list))
  BY <1>1, FilterExists
<1>0. \A k \in 0..Len(list) : k # 0 => (k \in good <=> list[k].layer \in alive)
  BY <1>1
<1>. HIDE DEF good
<1>3. \A k \in 0..Len(list) :
        f[k] = IF k = 0 THEN << >>
               ELSE IF list[k].layer \in alive THEN Append(f[k - 1], list[k])
               ELSE f[k - 1]
  <2>1. \A k \in 0..Len(list) : f[k] = IF k = 0 THEN << >>
                                       ELSE IF k \in good THEN Append(f[k - 1], list[k])
                                       ELSE f[k - 1]
    BY <1>2 DEF IsFilter
  <2> QED BY <1>0, <2>1
<1>4. f = [k \in 0..Len(list) |-> f[k]]
  BY <1>2 DEF IsFilter
<1>5. f = [k \in 0..Len(list) |->
             IF k = 0 THEN << >>
             ELSE IF list[k].layer \in alive THEN Append(f[k - 1], list[k])
             ELSE f[k - 1]]
  BY <1>3, <1>4
<1>6. PICK h : /\ h = [k \in 0..Len(list) |->
                         IF k = 0 THEN << >>
                         ELSE IF list[k].layer \in alive THEN Append(h[k - 1], list[k])
                         ELSE h[k - 1]]
               /\ CM!Existing(list) = h[Len(list)]
  BY <1>5, Zenon DEF CM!Existing
<1>7. \A k \in 0..Len(list) :
        h[k] = IF k = 0 THEN << >>
               ELSE IF k \in good THEN Append(h[k - 1], list[k])
               ELSE h[k - 1]
  <2>1. \A k \in 0..Len(list) :
          h[k] = IF k = 0 THEN << >>
                 ELSE IF list[k].layer \in alive THEN Append(h[k - 1], list[k])
                 ELSE h[k - 1]
    BY <1>6
  <2> QED BY <1>0, <2>1
<1>8. h = [k \in 0..Len(list) |-> h[k]]
  BY <1>6
<1>9. IsFilter(h, list, good, Len(list))
  BY <1>7, <1>8 DEF IsFilter
<1>10. /\ h[Len(list)] \in Seq(S)
       /\ \E g : Embeds(g, h[Len(list)], list, good, Len(list))
  BY <1>9, FilterKeepsOrder
<1>11. PICK g : Embeds(g, CM!Existing(list), list, good, Len(list))
  BY <1>6, <1>10
<1>12. /\ CM!Existing(list) \in Seq(S)
       /\ DOMAIN CM!Existing(list) = 1..Len(CM!Existing(list))
  BY <1>6, <1>10
<1> QED BY <1>1, <1>11, <1>12 DEF Embeds, good

LEMMA OpenBlockKeeps ==
  ASSUME EditPhases \subseteq {"layer"}, CM!IInv, NEW t \in Workers,
         CM!OpenChangeBlock(t)
  PROVE  CM!IInv'
<1>. USE DEF CM!IInv, CM!OpenChangeBlock
<1>1. CM!TypeOK'
  BY DEF CM!TypeOK
<1>2. CM!ThreadsKeepToTheirs'
  BY DEF CM!ThreadsKeepToTheirs, CM!TypeOK
<1>3. CM!RoundsNest'
  <2>1. \A j \in DOMAIN rounds[t] : rounds[t][j].phase = "layer"
    <3>. SUFFICES ASSUME NEW j \in DOMAIN rounds[t], rounds[t][j].phase # "layer"
                  PROVE  FALSE
      OBVIOUS
    <3>1. j = Len(rounds[t])
      BY DEF CM!RoundsNest
    <3>2. rounds[t] # << >>
      BY DEF CM!TypeOK
    <3> QED BY <3>1, <3>2 DEF CM!Top
  <2> QED BY <2>1 DEF CM!RoundsNest, CM!TypeOK
<1>4. CM!SerialsInOrder'
  BY DEF CM!SerialsInOrder, CM!RoundChanges
<1>5. CM!NoChangeIsLost'
  BY DEF CM!NoChangeIsLost, CM!Holds, CM!WillTell
<1> QED BY <1>1, <1>2, <1>3, <1>4, <1>5

(* The history gets longer, and what has changed stays what it was.        *)
LEMMA MadeGrows ==
  ASSUME NEW l, NEW s \in Seq(EditedLayers), l \in EditedLayers
  PROVE  /\ Append(s, l) \in Seq(EditedLayers) /\ Len(Append(s, l)) = Len(s) + 1
         /\ DOMAIN Append(s, l) = DOMAIN s \cup {Len(s) + 1}
         /\ Append(s, l)[Len(s) + 1] = l
         /\ \A i \in DOMAIN s : Append(s, l)[i] = s[i] /\ i # Len(s) + 1
OBVIOUS

LEMMA DidChangeKeeps ==
  ASSUME CM!ThreadingAssumption, CM!BoundsAssumption, CM!IInv, NEW t \in Workers,
         NEW l \in EditedLayers, CM!DidChange(t, l)
  PROVE  CM!IInv'
<1>. USE DEF CM!IInv
<1>. DEFINE n == Len(made) + 1
            list == CM!GetListFor(changes[t], l, n)
<1>1. /\ block[t] /\ l \in alive /\ Editor[l] = t /\ Len(made) < MaxChanges
      /\ made' = Append(made, l) /\ changes' = [changes EXCEPT ![t] = list]
      /\ UNCHANGED <<alive, block, removes, rounds, serial, lastSerial, seen, alarms>>
  BY DEF CM!DidChange
<1>2. /\ made \in Seq(EditedLayers) /\ n \in 1..MaxChanges
      /\ changes \in [Workers -> Seq(CM!Entry)]
  BY <1>1 DEF CM!TypeOK, CM!BoundsAssumption
<1>3. Adds(list, changes[t], l, n)
  <2>1. changes[t] \in Seq(CM!Entry) /\ n \in 1..MaxChanges
    BY <1>2
  <2>. HIDE DEF n
  <2> QED BY <2>1, GetListForAdds
<1>. HIDE DEF list
<1>4. /\ made' \in Seq(EditedLayers) /\ Len(made') = n /\ made'[n] = l
      /\ DOMAIN made' = DOMAIN made \cup {n}
      /\ \A i \in DOMAIN made : made'[i] = made[i] /\ i # n
  BY <1>1, <1>2, MadeGrows
<1>. HIDE DEF n
<1>5. CM!TypeOK'
  BY <1>1, <1>2, <1>3, <1>4 DEF Adds, CM!TypeOK
<1>6. changes'[t] = list /\ \A u \in Workers \ {t} : changes'[u] = changes[u]
  BY <1>1, <1>2
<1>7. CM!ThreadsKeepToTheirs'
  BY <1>1, <1>3, <1>6 DEF Adds, CM!ThreadsKeepToTheirs
<1>8. CM!RoundsNest'
  BY <1>1 DEF CM!RoundsNest
<1>9. CM!SerialsInOrder'
  BY <1>1 DEF CM!SerialsInOrder, CM!RoundChanges
<1>10. CM!NoChangeIsLost'
  <2>. SUFFICES ASSUME NEW s \in Stages, NEW i \in DOMAIN made',
                       made'[i] \in Uses[s] \cap alive
                PROVE  \/ i \in seen[s]
                       \/ CM!Holds(changes[Editor[made[i]]], i)'
                       \/ \E j \in DOMAIN rounds[Editor[made'[i]]] :
                            CM!WillTell(rounds[Editor[made[i]]][j], s, i)'
    BY <1>1 DEF CM!NoChangeIsLost
  <2>1. CASE i = n
    BY <2>1, <1>1, <1>3, <1>4, <1>6 DEF Adds, CM!Holds
  <2>2. CASE i # n
    <3>1. i \in DOMAIN made /\ made'[i] = made[i]
      BY <2>2, <1>4
    <3>2. Editor[made[i]] \in Workers
      BY <1>2, <3>1 DEF CM!ThreadingAssumption
    <3>3. ASSUME CM!Holds(changes[Editor[made[i]]], i)
          PROVE  CM!Holds(changes[Editor[made[i]]], i)'
      BY <3>1, <3>2, <3>3, <1>3, <1>6 DEF Adds, CM!Holds
    <3>4. ASSUME NEW r PROVE CM!WillTell(r, s, i) => \E k \in DOMAIN r.list :
             /\ r.list[k].layer = made'[i] /\ i \in r.list[k].ids
             /\ r.phase = "stages" => k > r.pos \/ (k = r.pos /\ s \in r.left)
      BY <3>1 DEF CM!WillTell
    <3> QED BY <1>1, <3>1, <3>3, <3>4 DEF CM!NoChangeIsLost, CM!WillTell
  <2> QED BY <2>1, <2>2
<1> QED BY <1>5, <1>7, <1>8, <1>9, <1>10

LEMMA RemoveIfInertKeeps ==
  ASSUME CM!IInv, NEW t \in Workers, NEW l \in EditedLayers, CM!RemoveSpecIfInert(t, l)
  PROVE  CM!IInv'
<1>. USE DEF CM!IInv, CM!RemoveSpecIfInert
<1>1. CM!TypeOK'
  BY DEF CM!TypeOK
<1>2. CM!ThreadsKeepToTheirs'
  BY DEF CM!ThreadsKeepToTheirs, CM!TypeOK
<1> QED BY <1>1, <1>2 DEF CM!RoundsNest, CM!SerialsInOrder, CM!RoundChanges,
                          CM!NoChangeIsLost, CM!Holds, CM!WillTell

LEMMA LayerExpiresKeeps ==
  ASSUME CM!IInv, NEW t \in Workers, NEW l \in EditedLayers, CM!LayerExpires(t, l)
  PROVE  CM!IInv'
<1>. USE DEF CM!IInv, CM!LayerExpires
<1>1. CM!TypeOK'
  BY DEF CM!TypeOK
<1> QED BY <1>1 DEF CM!ThreadsKeepToTheirs, CM!RoundsNest, CM!SerialsInOrder,
                    CM!RoundChanges, CM!NoChangeIsLost, CM!Holds, CM!WillTell

LEMMA CloseBlockKeeps ==
  ASSUME CM!ThreadingAssumption, CM!BoundsAssumption, CM!IInv, NEW t \in Workers,
         CM!CloseChangeBlock(t)
  PROVE  CM!IInv'
<1>. USE DEF CM!IInv
<1>1. PICK gone \in SUBSET removes[t] :
        LET list == CM!Existing(CM!ProcessRemoveIfInert(t, gone)) IN
        /\ block[t]
        /\ Cardinality(gone) <= 1 /\ Len(made) + Cardinality(gone) <= MaxChanges
        /\ made' = IF gone = {} THEN made
                   ELSE Append(made, CHOOSE l \in gone : TRUE)
        /\ removes' = [removes EXCEPT ![t] = {}]
        /\ changes' = [changes EXCEPT ![t] = <<>>]
        /\ block' = [block EXCEPT ![t] = FALSE]
        /\ rounds' = IF list = <<>> THEN rounds
                     ELSE [rounds EXCEPT ![t] = Append(@, CM!NewRound(list))]
        /\ UNCHANGED <<alive, serial, lastSerial, seen, alarms>>
  BY DEF CM!CloseChangeBlock, CM!Cardinality, Cardinality
<1>. DEFINE processed == CM!ProcessRemoveIfInert(t, gone)
            list == CM!Existing(processed)
            n == Len(made) + 1
<1>2. /\ made \in Seq(EditedLayers) /\ n \in Nat \ {0} /\ gone \subseteq EditedLayers
      /\ changes[t] \in Seq(CM!Entry) /\ rounds[t] \in Seq(CM!Round)
  BY DEF CM!TypeOK
<1>3. gone # {} => n \in 1..MaxChanges
  <2>1. IsFiniteSet(gone)
    BY <1>2, FS_Subset DEF CM!BoundsAssumption, CM!IsFiniteSet, IsFiniteSet
  <2>2. gone # {} => Cardinality(gone) \in Nat \ {0}
    BY <2>1, FS_EmptySet, FS_CardinalityType
  <2> QED BY <1>1, <1>2, <2>2 DEF CM!BoundsAssumption
<1>4. /\ made' \in Seq(EditedLayers) /\ Len(made') <= MaxChanges
      /\ \A i \in DOMAIN made : i \in DOMAIN made' /\ made'[i] = made[i]
      /\ \A i \in DOMAIN made' \ DOMAIN made : gone # {} /\ i = n /\ made'[i] \in gone
                                                /\ made'[i] = CHOOSE l \in gone : TRUE
  <2>1. CASE gone = {}
    BY <2>1, <1>1, <1>2 DEF CM!TypeOK
  <2>2. CASE gone # {}
    <3>. DEFINE l == CHOOSE x \in gone : TRUE
    <3>1. l \in gone /\ l \in EditedLayers /\ made' = Append(made, l)
      BY <2>2, <1>1, <1>2
    <3>. HIDE DEF l
    <3>2. /\ Append(made, l) \in Seq(EditedLayers) /\ Len(Append(made, l)) = n
          /\ DOMAIN Append(made, l) = DOMAIN made \cup {n}
          /\ Append(made, l)[n] = l
          /\ \A i \in DOMAIN made : Append(made, l)[i] = made[i] /\ i # n
      BY <3>1, <1>2, MadeGrows
    <3>. HIDE DEF n
    <3>3. n <= MaxChanges
      BY <2>2, <1>3
    <3>4. \A i \in DOMAIN made' \ DOMAIN made : i = n /\ made'[i] = l
      BY <3>1, <3>2
    <3> QED BY <2>2, <3>1, <3>2, <3>3, <3>4 DEF l
  <2> QED BY <2>1, <2>2
(* What the removals leave of the list, and add to it.                     *)
<1>5. /\ processed \in Seq(CM!Entry)
      /\ \A k \in DOMAIN processed : Editor[processed[k].layer] = t
      /\ \A k \in DOMAIN changes[t] :
           /\ k \in DOMAIN processed /\ processed[k].layer = changes[t][k].layer
           /\ changes[t][k].ids \subseteq processed[k].ids
      /\ \A i \in DOMAIN made' \ DOMAIN made :
           \E k \in DOMAIN processed : processed[k].layer = made'[i] /\ i \in processed[k].ids
  <2>1. CASE gone = {}
    <3>1. processed = changes[t] /\ made' = made
      BY <2>1, <1>1 DEF CM!ProcessRemoveIfInert
    <3> QED BY <3>1, <1>2 DEF CM!ThreadsKeepToTheirs
  <2>2. CASE gone # {}
    <3>. DEFINE l == CHOOSE x \in gone : TRUE
    <3>1. /\ l \in gone /\ l \in EditedLayers /\ Editor[l] = t
          /\ processed = CM!GetListFor(changes[t], l, n)
      BY <2>2, <1>2 DEF CM!ThreadsKeepToTheirs, CM!ProcessRemoveIfInert
    <3>2. n \in 1..MaxChanges
      BY <1>3, <2>2
    <3>3. \A i \in DOMAIN made' \ DOMAIN made : i = n /\ made'[i] = l
      BY <1>4
    <3>. HIDE DEF l, n, processed
    <3>4. Adds(processed, changes[t], l, n)
      BY <1>2, <3>1, <3>2, GetListForAdds
    <3> QED BY <3>1, <3>3, <3>4 DEF Adds, CM!ThreadsKeepToTheirs
  <2> QED BY <2>1, <2>2
<1>. HIDE DEF processed, n
<1>6. /\ list \in Seq(CM!Entry)
      /\ \A k \in DOMAIN list : \E m \in DOMAIN processed : list[k] = processed[m]
      /\ \A m \in DOMAIN processed : processed[m].layer \in alive =>
           \E k \in DOMAIN list : list[k] = processed[m]
  BY <1>5, ExistingKeeps
<1>7. /\ block[t] /\ removes' = [removes EXCEPT ![t] = {}]
      /\ changes' = [changes EXCEPT ![t] = <<>>]
      /\ block' = [block EXCEPT ![t] = FALSE]
      /\ rounds' = IF list = <<>> THEN rounds
                   ELSE [rounds EXCEPT ![t] = Append(@, CM!NewRound(list))]
      /\ UNCHANGED <<alive, serial, lastSerial, seen, alarms>>
  BY <1>1 DEF processed
<1>. HIDE DEF list
<1>8. CM!NewRound(list) \in CM!Round
  BY <1>6 DEF CM!NewRound, CM!Round, CM!Phases
<1>9. CM!TypeOK'
  BY <1>2, <1>4, <1>7, <1>8 DEF CM!TypeOK
(* The rounds are the old ones and a new one.                              *)
<1>10. /\ \A u \in Workers \ {t} : rounds'[u] = rounds[u]
       /\ \A j \in DOMAIN rounds[t] : j \in DOMAIN rounds'[t] /\ rounds'[t][j] = rounds[t][j]
       /\ \A j \in DOMAIN rounds'[t] \ DOMAIN rounds[t] : rounds'[t][j] = CM!NewRound(list)
       /\ list # <<>> => \E j \in DOMAIN rounds'[t] : rounds'[t][j] = CM!NewRound(list)
  <2>1. CASE list = <<>>
    BY <2>1, <1>7
  <2>2. CASE list # <<>>
    <3>1. /\ rounds'[t] = Append(rounds[t], CM!NewRound(list))
          /\ \A u \in Workers \ {t} : rounds'[u] = rounds[u]
      BY <2>2, <1>7 DEF CM!TypeOK
    <3>. DEFINE r == CM!NewRound(list)
    <3>. HIDE DEF r
    <3>2. /\ DOMAIN rounds[t] = 1..Len(rounds[t])
          /\ DOMAIN Append(rounds[t], r) = 1..(Len(rounds[t]) + 1)
          /\ Append(rounds[t], r)[Len(rounds[t]) + 1] = r
          /\ \A j \in 1..Len(rounds[t]) : Append(rounds[t], r)[j] = rounds[t][j]
          /\ Len(rounds[t]) \in Nat
      BY <1>2, <1>8 DEF r
    <3> QED BY <3>1, <3>2 DEF r
  <2> QED BY <2>1, <2>2
<1>11. CM!ThreadsKeepToTheirs'
  BY <1>5, <1>6, <1>7, <1>10 DEF CM!ThreadsKeepToTheirs, CM!NewRound, CM!TypeOK
<1>12. CM!RoundsNest'
  <2>1. \A j \in DOMAIN rounds[t] : rounds[t][j].phase = "layer"
    BY <1>7 DEF CM!RoundsNest
  <2>2. Len(list) \in Nat
    BY <1>6
  <2>3. \A u \in Workers \ {t} : block'[u] = block[u]
    BY <1>7 DEF CM!TypeOK
  <2> QED BY <1>10, <2>1, <2>2, <2>3 DEF CM!RoundsNest, CM!NewRound
<1>13. CM!SerialsInOrder'
  BY <1>7, <1>10 DEF CM!SerialsInOrder, CM!NewRound, CM!RoundChanges
<1>14. CM!NoChangeIsLost'
  <2>. SUFFICES ASSUME NEW s \in Stages, NEW i \in DOMAIN made',
                       made'[i] \in Uses[s] \cap alive, i \notin seen[s]
                PROVE  \/ CM!Holds(changes[Editor[made[i]]], i)'
                       \/ \E j \in DOMAIN rounds'[Editor[made'[i]]] :
                            CM!WillTell(rounds[Editor[made[i]]][j], s, i)'
    BY <1>7 DEF CM!NoChangeIsLost
  <2>1. ASSUME NEW m \in DOMAIN processed, processed[m].layer = made'[i],
               i \in processed[m].ids, Editor[made'[i]] = t
        PROVE  \E j \in DOMAIN rounds'[Editor[made'[i]]] :
                  CM!WillTell(rounds[Editor[made[i]]][j], s, i)'
    <3>1. PICK k \in DOMAIN list : list[k] = processed[m]
      BY <2>1, <1>6, <1>7
    <3>2. list # <<>>
      BY <3>1
    <3>3. PICK j \in DOMAIN rounds'[t] : rounds'[t][j] = CM!NewRound(list)
      BY <3>2, <1>10
    <3> QED BY <2>1, <3>1, <3>3 DEF CM!WillTell, CM!NewRound
  <2>2. CASE i \notin DOMAIN made
    <3>1. gone # {} /\ made'[i] \in gone
      BY <1>4, <2>2
    <3>2. Editor[made'[i]] = t
      BY <3>1 DEF CM!ThreadsKeepToTheirs
    <3> QED BY <2>1, <2>2, <3>2, <1>5
  <2>3. CASE i \in DOMAIN made
    <3>1. made'[i] = made[i]
      BY <2>3, <1>4
    <3>. DEFINE u == Editor[made[i]]
    <3>2. u \in Workers
      BY <2>3, <1>2 DEF CM!ThreadingAssumption
    <3>3. \/ CM!Holds(changes[u], i)
          \/ \E j \in DOMAIN rounds[u] : CM!WillTell(rounds[u][j], s, i)
      BY <2>3, <3>1 DEF CM!NoChangeIsLost
    <3>4. CASE CM!Holds(changes[u], i) /\ u = t
      BY <3>4, <3>1, <2>1, <1>5 DEF CM!Holds
    <3>5. CASE CM!Holds(changes[u], i) /\ u # t
      BY <3>5, <3>1, <3>2, <1>7 DEF CM!Holds, CM!TypeOK
    <3>6. ASSUME NEW j \in DOMAIN rounds[u], CM!WillTell(rounds[u][j], s, i)
          PROVE  j \in DOMAIN rounds'[u] /\ CM!WillTell(rounds[Editor[made[i]]][j], s, i)'
      <4>1. j \in DOMAIN rounds'[u] /\ rounds'[u][j] = rounds[u][j]
        BY <3>2, <3>6, <1>10
      <4> QED BY <3>1, <3>6, <4>1 DEF CM!WillTell
    <3> QED BY <3>1, <3>3, <3>4, <3>5, <3>6
  <2> QED BY <2>2, <2>3
<1> QED BY <1>9, <1>11, <1>12, <1>13, <1>14

(* The innermost round of t, and what SetTop does.                         *)
LEMMA TopIsSet ==
  ASSUME CM!TypeOK, NEW t \in Workers, rounds[t] # << >>, NEW r \in CM!Round,
         CM!SetTop(t, r)
  PROVE  /\ rounds' \in [Workers -> Seq(CM!Round)]
         /\ CM!Top(t) = rounds[t][Len(rounds[t])] /\ CM!Top(t) \in CM!Round
         /\ Len(rounds[t]) \in DOMAIN rounds[t]
         /\ \A u \in Workers \ {t} : rounds'[u] = rounds[u]
         /\ DOMAIN rounds'[t] = DOMAIN rounds[t] /\ Len(rounds'[t]) = Len(rounds[t])
         /\ rounds'[t][Len(rounds[t])] = r
         /\ \A j \in DOMAIN rounds[t] \ {Len(rounds[t])} : rounds'[t][j] = rounds[t][j]
<1>1. /\ rounds[t] \in Seq(CM!Round) /\ Len(rounds[t]) \in DOMAIN rounds[t]
      /\ rounds' = [rounds EXCEPT ![t] = [rounds[t] EXCEPT ![Len(rounds[t])] = r]]
  BY DEF CM!TypeOK, CM!SetTop
<1>2. [rounds[t] EXCEPT ![Len(rounds[t])] = r] \in Seq(CM!Round)
  BY <1>1
<1>3. \A j \in DOMAIN rounds[t] : rounds[t][j] \in CM!Round
  BY <1>1
<1> QED BY <1>1, <1>2, <1>3 DEF CM!TypeOK, CM!Top

(* A round goes on to r: its list stays, and it loses no change that some  *)
(* stage has not processed.                                                *)
LEMMA RoundGoesOn ==
  ASSUME CM!ThreadingAssumption, CM!IInv, NEW t \in Workers, CM!CanSend(t),
         NEW r \in CM!Round, CM!SetTop(t, r), r.list = CM!Top(t).list,
         r.pos <= Len(r.list),
         r.phase = "stages" =>
           r.pos > 0 /\ r.left \subseteq CM!Listeners(r.list[r.pos].layer),
         r.phase # "stages" => r.left = {},
         UNCHANGED <<alive, made, block, changes, removes>>,
         seen' \in [Stages -> SUBSET (1..MaxChanges)],
         \A s \in Stages : seen[s] \subseteq seen'[s],
         \A s \in Stages : \A i \in DOMAIN made :
           made[i] \in Uses[s] /\ CM!WillTell(CM!Top(t), s, i) =>
             CM!WillTell(r, s, i) \/ i \in seen'[s]
  PROVE  CM!ThreadsKeepToTheirs' /\ CM!RoundsNest' /\ CM!NoChangeIsLost'
<1>. USE DEF CM!IInv
<1>. DEFINE n == Len(rounds[t])
<1>1. /\ CM!Top(t) = rounds[t][n] /\ n \in DOMAIN rounds[t]
      /\ \A u \in Workers \ {t} : rounds'[u] = rounds[u]
      /\ DOMAIN rounds'[t] = DOMAIN rounds[t] /\ Len(rounds'[t]) = n
      /\ rounds'[t][n] = r
      /\ \A j \in DOMAIN rounds[t] \ {n} : rounds'[t][j] = rounds[t][j]
  BY TopIsSet DEF CM!CanSend
<1>. HIDE DEF n
<1>2. CM!ThreadsKeepToTheirs'
  <2>1. \A u \in Workers : \A j \in DOMAIN rounds'[u] :
          j \in DOMAIN rounds[u] /\ rounds'[u][j].list = rounds[u][j].list
    BY <1>1
  <2> QED BY <2>1 DEF CM!ThreadsKeepToTheirs
<1>3. CM!RoundsNest'
  <2>. SUFFICES ASSUME NEW u \in Workers, NEW j \in DOMAIN rounds'[u]
                PROVE  LET q == rounds'[u][j] IN
                       /\ q.pos <= Len(q.list)
                       /\ q.phase # "layer" => j = Len(rounds'[u]) /\ ~block'[u]
                       /\ q.phase = "stages" =>
                            q.pos > 0 /\ q.left \subseteq CM!Listeners(q.list[q.pos].layer)
                       /\ q.phase # "stages" => q.left = {}
    BY DEF CM!RoundsNest, CM!Listeners
  <2>1. CASE u = t /\ j = n
    BY <2>1, <1>1 DEF CM!CanSend
  <2>2. CASE ~(u = t /\ j = n)
    <3>1. /\ j \in DOMAIN rounds[u] /\ rounds'[u][j] = rounds[u][j]
          /\ Len(rounds'[u]) = Len(rounds[u])
      BY <2>2, <1>1 DEF n
    <3> QED BY <3>1 DEF CM!RoundsNest
  <2> QED BY <2>1, <2>2
<1>4. CM!NoChangeIsLost'
  <2>. SUFFICES ASSUME NEW s \in Stages, NEW i \in DOMAIN made,
                       made[i] \in Uses[s] \cap alive, i \notin seen'[s]
                PROVE  \/ CM!Holds(changes[Editor[made[i]]], i)'
                       \/ \E j \in DOMAIN rounds'[Editor[made[i]]] :
                            CM!WillTell(rounds[Editor[made[i]]][j], s, i)'
    BY DEF CM!NoChangeIsLost
  <2>. DEFINE u == Editor[made[i]]
  <2>1. u \in Workers /\ i \notin seen[s]
    BY DEF CM!ThreadingAssumption, CM!TypeOK
  <2>2. CASE CM!Holds(changes[u], i)
    BY <2>2 DEF CM!Holds
  <2>3. ASSUME NEW j \in DOMAIN rounds[u], CM!WillTell(rounds[u][j], s, i)
        PROVE  j \in DOMAIN rounds'[u] /\ CM!WillTell(rounds[Editor[made[i]]][j], s, i)'
    <3>1. CASE u = t /\ j = n
      <4>1. CM!WillTell(r, s, i)
        BY <2>3, <3>1, <1>1
      <4> QED BY <3>1, <4>1, <1>1 DEF CM!WillTell
    <3>2. CASE ~(u = t /\ j = n)
      <4>1. j \in DOMAIN rounds'[u] /\ rounds'[u][j] = rounds[u][j]
        BY <2>1, <3>2, <1>1
      <4> QED BY <2>3, <4>1 DEF CM!WillTell
    <3> QED BY <3>1, <3>2
  <2> QED BY <2>1, <2>2, <2>3 DEF CM!NoChangeIsLost
<1> QED BY <1>2, <1>3, <1>4

(* The serial numbers stay in order when a round goes on, if it knows of   *)
(* no stage that has processed a younger one.                              *)
LEMMA SerialsGoOn ==
  ASSUME CM!ThreadingAssumption, CM!IInv, NEW t \in Workers, rounds[t] # << >>,
         NEW r \in CM!Round, CM!SetTop(t, r),
         serial' \in Nat, serial <= serial',
         \A s \in Stages : lastSerial'[s] < serial' /\ seen[s] \subseteq seen'[s],
         \A s \in Stages : lastSerial'[s] = lastSerial[s]
                              \/ \E l \in Uses[s] : Editor[l] = t,
         r.phase # "layer" =>
           /\ r.serial < serial'
           /\ \A s \in Stages : (\E l \in Uses[s] : Editor[l] = t) =>
                /\ lastSerial'[s] <= r.serial
                /\ lastSerial'[s] = r.serial => CM!RoundChanges(r, s) \subseteq seen'[s]
  PROVE  CM!SerialsInOrder'
<1>. USE DEF CM!IInv
<1>. DEFINE n == Len(rounds[t])
<1>1. /\ CM!Top(t) = rounds[t][n] /\ n \in DOMAIN rounds[t]
      /\ \A u \in Workers \ {t} : rounds'[u] = rounds[u]
      /\ DOMAIN rounds'[t] = DOMAIN rounds[t] /\ Len(rounds'[t]) = n
      /\ rounds'[t][n] = r
      /\ \A j \in DOMAIN rounds[t] \ {n} : rounds'[t][j] = rounds[t][j]
  BY TopIsSet
<1>2. \A j \in DOMAIN rounds[t] \ {n} : rounds[t][j].phase = "layer"
  BY DEF CM!RoundsNest
<1>. HIDE DEF n
<1>3. ASSUME NEW u \in Workers, NEW j \in DOMAIN rounds'[u],
             rounds'[u][j].phase # "layer"
      PROVE  /\ rounds'[u][j].serial < serial'
             /\ \A s \in Stages : (\E l \in Uses[s] : Editor[l] = u) =>
                  /\ lastSerial'[s] <= rounds'[u][j].serial
                  /\ lastSerial'[s] = rounds'[u][j].serial =>
                       CM!RoundChanges(rounds'[u][j], s) \subseteq seen'[s]
  <2>1. CASE u = t
    <3>1. j = n /\ rounds'[u][j] = r
      BY <2>1, <1>1, <1>2, <1>3
    <3> QED BY <2>1, <3>1, <1>3
  <2>2. CASE u # t
    <3>. DEFINE q == rounds[u][j]
    <3>1. j \in DOMAIN rounds[u] /\ rounds'[u][j] = q /\ q \in CM!Round
      BY <2>2, <1>1 DEF CM!TypeOK
    <3>2. /\ q.serial < serial
          /\ \A s \in Stages : (\E l \in Uses[s] : Editor[l] = u) =>
               /\ lastSerial[s] <= q.serial
               /\ lastSerial[s] = q.serial => CM!RoundChanges(q, s) \subseteq seen[s]
      BY <3>1, <1>3 DEF CM!SerialsInOrder
    <3>3. \A s \in Stages : (\E l \in Uses[s] : Editor[l] = u) =>
                             lastSerial'[s] = lastSerial[s]
      BY <2>2 DEF CM!ThreadingAssumption
    <3>4. q.serial \in Nat /\ serial \in Nat
      BY <3>1 DEF CM!Round, CM!TypeOK
    <3>. HIDE DEF q
    <3> QED BY <3>1, <3>2, <3>3, <3>4
  <2> QED BY <2>1, <2>2
<1>4. \A q, s : CM!RoundChanges(q, s)' = CM!RoundChanges(q, s)
  BY DEF CM!RoundChanges
<1> QED BY <1>3 DEF CM!SerialsInOrder, CM!RoundChanges

LEMMA SendForListKeeps ==
  ASSUME CM!ThreadingAssumption, CM!IInv, NEW t \in Workers,
         CM!SendNoticesForChangeList(t)
  PROVE  CM!IInv'
<1>. USE DEF CM!IInv, CM!SendNoticesForChangeList
<1>. DEFINE r == [CM!Top(t) EXCEPT !.pos = @ + 1]
            n == Len(rounds[t])
<1>0. CM!Top(t) \in CM!Round
  BY DEF CM!TypeOK, CM!CanSend, CM!Top
<1>1. /\ r \in CM!Round /\ r.list = CM!Top(t).list /\ r.pos = CM!Top(t).pos + 1
      /\ r.phase = "layer" /\ r.left = CM!Top(t).left /\ CM!Top(t).phase = "layer"
      /\ r.pos <= Len(r.list)
  BY <1>0 DEF CM!Round
<1>2. CM!CanSend(t) /\ CM!SetTop(t, r) /\ rounds[t] # << >>
  BY DEF CM!CanSend
<1>. HIDE DEF r
<1>3. /\ rounds' \in [Workers -> Seq(CM!Round)]
      /\ CM!Top(t) = rounds[t][n] /\ n \in DOMAIN rounds[t]
      /\ \A u \in Workers \ {t} : rounds'[u] = rounds[u]
      /\ DOMAIN rounds'[t] = DOMAIN rounds[t]
      /\ rounds'[t][n] = r
      /\ \A j \in DOMAIN rounds[t] \ {n} : rounds'[t][j] = rounds[t][j]
  BY <1>1, <1>2, TopIsSet
<1>. HIDE DEF n
<1>4. r.left = {}
  BY <1>1, <1>3 DEF CM!RoundsNest
<1>5. \A s \in Stages : \A i \in DOMAIN made :
        CM!WillTell(CM!Top(t), s, i) => CM!WillTell(r, s, i)
  BY <1>1 DEF CM!WillTell
<1>6. CM!TypeOK'
  BY <1>3 DEF CM!TypeOK
<1>7. CM!ThreadsKeepToTheirs' /\ CM!RoundsNest' /\ CM!NoChangeIsLost'
  <2>1. seen' \in [Stages -> SUBSET (1..MaxChanges)] /\ seen' = seen
    BY DEF CM!TypeOK
  <2>2. UNCHANGED <<alive, made, block, changes, removes>>
    OBVIOUS
  <2> QED BY <1>1, <1>2, <1>4, <1>5, <2>1, <2>2, RoundGoesOn
<1>8. CM!SerialsInOrder'
  <2>1. /\ serial' = serial /\ serial \in Nat /\ lastSerial' = lastSerial /\ seen' = seen
        /\ \A s \in Stages : lastSerial[s] < serial
    BY DEF CM!TypeOK, CM!SerialsInOrder
  <2> QED BY <1>1, <1>2, <2>1, SerialsGoOn
<1> QED BY <1>6, <1>7, <1>8

LEMMA SendAllKeeps ==
  ASSUME CM!ThreadingAssumption, CM!IInv, NEW t \in Workers,
         CM!SendLayersDidChange(t)
  PROVE  CM!IInv'
<1>. USE DEF CM!IInv, CM!SendLayersDidChange
<1>. DEFINE r == [CM!Top(t) EXCEPT !.phase = "global", !.serial = serial]
            n == Len(rounds[t])
<1>0. CM!Top(t) \in CM!Round /\ serial \in Nat
  BY DEF CM!TypeOK, CM!CanSend, CM!Top
<1>1. /\ r \in CM!Round /\ r.list = CM!Top(t).list /\ r.pos = CM!Top(t).pos
      /\ r.phase = "global" /\ r.left = CM!Top(t).left /\ r.serial = serial
      /\ CM!Top(t).phase = "layer" /\ r.pos <= Len(r.list)
  <2>. DEFINE q == CM!Top(t)
  <2>1. /\ q \in CM!Round /\ q.phase = "layer" /\ q.pos = Len(q.list)
        /\ r = [q EXCEPT !.phase = "global", !.serial = serial]
    BY <1>0
  <2>. HIDE DEF q, r
  <2>2. q.pos \in Nat
    BY <2>1 DEF CM!Round
  <2>3. /\ r \in CM!Round /\ r.list = q.list /\ r.pos = q.pos
        /\ r.phase = "global" /\ r.left = q.left /\ r.serial = serial
    BY <1>0, <2>1 DEF CM!Round, CM!Phases
  <2> QED BY <2>1, <2>2, <2>3 DEF q
<1>2. CM!CanSend(t) /\ CM!SetTop(t, r) /\ rounds[t] # << >>
  BY DEF CM!CanSend
<1>. HIDE DEF r
<1>3. /\ rounds' \in [Workers -> Seq(CM!Round)]
      /\ CM!Top(t) = rounds[t][n] /\ n \in DOMAIN rounds[t]
  BY <1>1, <1>2, TopIsSet
<1>. HIDE DEF n
<1>4. r.left = {}
  BY <1>1, <1>3 DEF CM!RoundsNest
<1>5. \A s \in Stages : \A i \in DOMAIN made :
        CM!WillTell(CM!Top(t), s, i) => CM!WillTell(r, s, i)
  BY <1>1 DEF CM!WillTell
<1>6. CM!TypeOK'
  BY <1>3 DEF CM!TypeOK
<1>7. CM!ThreadsKeepToTheirs' /\ CM!RoundsNest' /\ CM!NoChangeIsLost'
  <2>1. seen' \in [Stages -> SUBSET (1..MaxChanges)] /\ seen' = seen
    BY DEF CM!TypeOK
  <2>2. UNCHANGED <<alive, made, block, changes, removes>>
    OBVIOUS
  <2> QED BY <1>1, <1>2, <1>4, <1>5, <2>1, <2>2, RoundGoesOn
<1>8. CM!SerialsInOrder'
  <2>1. /\ serial' = serial + 1 /\ lastSerial' = lastSerial /\ seen' = seen
        /\ \A s \in Stages : lastSerial[s] < serial /\ lastSerial[s] \in Nat
    BY DEF CM!TypeOK, CM!SerialsInOrder
  <2>2. /\ serial' \in Nat /\ serial <= serial' /\ r.serial < serial'
        /\ \A s \in Stages : lastSerial'[s] < serial' /\ seen[s] \subseteq seen'[s]
        /\ \A s \in Stages : lastSerial'[s] <= r.serial /\ lastSerial'[s] # r.serial
    BY <1>0, <1>1, <2>1
  <2> QED BY <1>1, <1>2, <2>1, <2>2, SerialsGoOn
<1> QED BY <1>6, <1>7, <1>8

LEMMA SendPerLayerKeeps ==
  ASSUME CM!ThreadingAssumption, CM!IInv, NEW t \in Workers,
         CM!SendPerLayer(t)
  PROVE  CM!IInv'
<1>. USE DEF CM!IInv
<1>. DEFINE q == CM!Top(t)
            next == IF q.phase = "global" THEN 1 ELSE q.pos + 1
            r == [q EXCEPT !.phase = "stages", !.pos = next,
                           !.left = CM!Listeners(q.list[next].layer)]
            n == Len(rounds[t])
<1>0. /\ CM!CanSend(t) /\ q.phase \in {"global", "stages"} /\ q.left = {}
      /\ next <= Len(q.list) /\ CM!SetTop(t, r)
      /\ UNCHANGED <<alive, made, block, changes, removes, serial,
                      lastSerial, seen, alarms>>
  BY DEF CM!SendPerLayer
<1>1. q \in CM!Round /\ serial \in Nat /\ rounds[t] # << >>
  BY <1>0 DEF CM!TypeOK, CM!CanSend, CM!Top
<1>2. /\ r \in CM!Round /\ r.list = q.list /\ r.pos = next
      /\ r.phase = "stages" /\ r.left = CM!Listeners(q.list[next].layer)
      /\ r.serial = q.serial /\ next \in Nat \ {0}
      /\ q.phase = "stages" => next = q.pos + 1
      /\ q.phase # "stages" => next = 1
      /\ q.pos \in Nat
  <2>. DEFINE left == CM!Listeners(q.list[next].layer)
  <2>1. left \in SUBSET Stages
    BY DEF CM!Listeners
  <2>2. r = [q EXCEPT !.phase = "stages", !.pos = next, !.left = left]
    OBVIOUS
  <2>. HIDE DEF q, r, left
  <2>3. q.pos \in Nat
    BY <1>1 DEF CM!Round
  <2>4. /\ next \in Nat \ {0}
        /\ q.phase = "stages" => next = q.pos + 1
        /\ q.phase # "stages" => next = 1
    BY <1>0, <2>3
  <2>. HIDE DEF next
  <2>5. /\ r \in CM!Round /\ r.list = q.list /\ r.pos = next
        /\ r.phase = "stages" /\ r.left = left /\ r.serial = q.serial
    BY <1>1, <2>1, <2>2, <2>4 DEF CM!Round, CM!Phases
  <2> QED BY <2>3, <2>4, <2>5 DEF left
<1>. HIDE DEF r
<1>3. /\ rounds' \in [Workers -> Seq(CM!Round)]
      /\ q = rounds[t][n] /\ n \in DOMAIN rounds[t]
  BY <1>0, <1>1, <1>2, TopIsSet
<1>. HIDE DEF n, q, next
<1>4. ASSUME NEW s \in Stages, NEW i \in DOMAIN made, made[i] \in Uses[s],
             CM!WillTell(q, s, i)
      PROVE  CM!WillTell(r, s, i)
  <2>1. PICK k \in DOMAIN q.list :
          /\ q.list[k].layer = made[i] /\ i \in q.list[k].ids
          /\ q.phase = "stages" => k > q.pos \/ (k = q.pos /\ s \in q.left)
    BY <1>4 DEF CM!WillTell
  <2>2. k \in Nat /\ k > 0
    BY <1>1 DEF CM!Round
  <2>3. k > r.pos \/ k = r.pos
    BY <1>0, <1>2, <2>1, <2>2
  <2>4. k = r.pos => s \in r.left
    BY <1>2, <1>4, <2>1 DEF CM!Listeners
  <2> QED BY <1>2, <2>1, <2>3, <2>4 DEF CM!WillTell
<1>6. CM!TypeOK'
  BY <1>0, <1>3 DEF CM!TypeOK
<1>7. CM!ThreadsKeepToTheirs' /\ CM!RoundsNest' /\ CM!NoChangeIsLost'
  <2>1. seen' \in [Stages -> SUBSET (1..MaxChanges)] /\ seen' = seen
    BY <1>0 DEF CM!TypeOK
  <2>2. r.pos <= Len(r.list) /\ r.pos > 0 /\ r.left \subseteq CM!Listeners(r.list[r.pos].layer)
    BY <1>0, <1>2
  <2>3. \A s \in Stages : \A i \in DOMAIN made :
          made[i] \in Uses[s] /\ CM!WillTell(CM!Top(t), s, i) => CM!WillTell(r, s, i)
    BY <1>4 DEF q
  <2>4. r.list = CM!Top(t).list
    BY <1>2 DEF q
  <2> QED BY <1>0, <1>2, <2>1, <2>2, <2>3, <2>4, RoundGoesOn
<1>8. CM!SerialsInOrder'
  <2>1. \A s \in Stages : lastSerial[s] < serial
    BY DEF CM!SerialsInOrder
  <2>2. /\ r.serial < serial
        /\ \A s \in Stages : (\E l \in Uses[s] : Editor[l] = t) =>
             /\ lastSerial[s] <= r.serial
             /\ lastSerial[s] = r.serial => CM!RoundChanges(q, s) \subseteq seen[s]
    BY <1>0, <1>2, <1>3 DEF CM!SerialsInOrder
  <2>3. \A s : CM!RoundChanges(r, s) = CM!RoundChanges(q, s)
    BY <1>2 DEF CM!RoundChanges
  <2> QED BY <1>0, <1>1, <1>2, <2>1, <2>2, <2>3, SerialsGoOn
<1> QED BY <1>6, <1>7, <1>8

LEMMA HandleKeeps ==
  ASSUME CM!ThreadingAssumption, CM!IInv, NEW t \in Workers, NEW s \in Stages,
         CM!HandleLayersDidChange(t, s)
  PROVE  /\ CM!IInv'
         /\ alarms' = alarms
<1>. USE DEF CM!IInv
<1>. DEFINE q == CM!Top(t)
            r == [q EXCEPT !.left = @ \ {s}]
            n == Len(rounds[t])
<1>0. /\ CM!CanSend(t) /\ s \in q.left /\ CM!SetTop(t, r)
      /\ \/ /\ q.serial = lastSerial[s]
            /\ UNCHANGED <<lastSerial, seen, alarms>>
         \/ /\ q.serial < lastSerial[s]
            /\ alarms' = alarms \cup {s}
            /\ UNCHANGED <<lastSerial, seen>>
         \/ /\ q.serial > lastSerial[s]
            /\ lastSerial' = [lastSerial EXCEPT ![s] = q.serial]
            /\ seen' = [seen EXCEPT ![s] = @ \cup CM!RoundChanges(q, s)]
            /\ UNCHANGED alarms
      /\ UNCHANGED <<alive, made, block, changes, removes, serial>>
  BY DEF CM!HandleLayersDidChange
<1>1. q \in CM!Round /\ serial \in Nat /\ rounds[t] # << >>
  BY <1>0 DEF CM!TypeOK, CM!CanSend, CM!Top
<1>2. /\ r \in CM!Round /\ r.list = q.list /\ r.pos = q.pos
      /\ r.phase = q.phase /\ r.left = q.left \ {s} /\ r.serial = q.serial
  <2>. HIDE DEF q
  <2> QED BY <1>1 DEF CM!Round
<1>. HIDE DEF r
<1>3. /\ rounds' \in [Workers -> Seq(CM!Round)]
      /\ q = rounds[t][n] /\ n \in DOMAIN rounds[t]
  BY <1>0, <1>1, <1>2, TopIsSet
<1>. HIDE DEF n
(* The stage is told of a layer it uses, of thread t.                      *)
<1>4. /\ q.phase = "stages" /\ q.pos > 0 /\ q.pos <= Len(q.list)
      /\ q.left \subseteq CM!Listeners(q.list[q.pos].layer)
  BY <1>0, <1>3 DEF CM!RoundsNest
<1>5. \E l \in Uses[s] : Editor[l] = t
  <2>1. q.pos \in DOMAIN q.list
    BY <1>1, <1>4 DEF CM!Round
  <2>2. Editor[q.list[q.pos].layer] = t
    BY <1>3, <2>1 DEF CM!ThreadsKeepToTheirs
  <2> QED BY <1>0, <1>4, <2>2 DEF CM!Listeners
<1>6. /\ lastSerial[s] <= q.serial /\ q.serial < serial
      /\ lastSerial[s] = q.serial => CM!RoundChanges(q, s) \subseteq seen[s]
      /\ q.serial \in Nat /\ lastSerial \in [Stages -> Nat]
      /\ seen \in [Stages -> SUBSET (1..MaxChanges)]
  BY <1>1, <1>3, <1>4, <1>5 DEF CM!SerialsInOrder, CM!Round, CM!TypeOK
<1>7. CM!RoundChanges(q, s) \subseteq 1..MaxChanges
  <2>1. \A k \in DOMAIN q.list : q.list[k].ids \subseteq 1..MaxChanges
    <3>1. q.list \in Seq(CM!Entry)
      BY <1>1 DEF CM!Round
    <3>2. \A k \in DOMAIN q.list : q.list[k] \in CM!Entry
      BY <3>1
    <3> QED BY <3>2 DEF CM!Entry
  <2> QED BY <2>1 DEF CM!RoundChanges
<1>. HIDE DEF q
<1>8. /\ CM!RoundChanges(q, s) \subseteq seen'[s] /\ lastSerial'[s] = q.serial
      /\ alarms' = alarms
      /\ lastSerial' \in [Stages -> Nat] /\ seen' \in [Stages -> SUBSET (1..MaxChanges)]
      /\ \A u \in Stages : seen[u] \subseteq seen'[u]
      /\ \A u \in Stages \ {s} : lastSerial'[u] = lastSerial[u]
  <2>1. CASE q.serial = lastSerial[s]
    BY <2>1, <1>0, <1>6
  <2>2. CASE q.serial > lastSerial[s]
    <3>1. /\ lastSerial' = [lastSerial EXCEPT ![s] = q.serial]
          /\ seen' = [seen EXCEPT ![s] = @ \cup CM!RoundChanges(q, s)]
          /\ UNCHANGED alarms
      BY <2>2, <1>0, <1>6
    <3> QED BY <3>1, <1>6, <1>7
  <2> QED BY <2>1, <2>2, <1>6
<1>9. CM!TypeOK'
  BY <1>0, <1>3, <1>8 DEF CM!TypeOK
<1>10. CM!ThreadsKeepToTheirs' /\ CM!RoundsNest' /\ CM!NoChangeIsLost'
  <2>1. ASSUME NEW u \in Stages, NEW i \in DOMAIN made, made[i] \in Uses[u],
               CM!WillTell(q, u, i)
        PROVE  CM!WillTell(r, u, i) \/ i \in seen'[u]
    <3>1. CASE u = s
      <4>1. i \in CM!RoundChanges(q, s)
        BY <2>1, <3>1 DEF CM!WillTell, CM!RoundChanges
      <4> QED BY <3>1, <4>1, <1>8
    <3>2. CASE u # s
      BY <2>1, <3>2, <1>2 DEF CM!WillTell
    <3> QED BY <3>1, <3>2
  <2>2. /\ r.pos <= Len(r.list) /\ r.pos > 0 /\ r.phase = "stages"
        /\ r.left \subseteq CM!Listeners(r.list[r.pos].layer)
    BY <1>2, <1>4
  <2>3. \A u \in Stages : \A i \in DOMAIN made :
          made[i] \in Uses[u] /\ CM!WillTell(CM!Top(t), u, i) =>
            CM!WillTell(r, u, i) \/ i \in seen'[u]
    BY <2>1 DEF q
  <2>4. r.list = CM!Top(t).list
    BY <1>2 DEF q
  <2>5. UNCHANGED <<alive, made, block, changes, removes>>
    BY <1>0
  <2> QED BY <1>0, <1>2, <1>8, <2>2, <2>3, <2>4, <2>5, RoundGoesOn
<1>11. CM!SerialsInOrder'
  <2>1. \A u \in Stages : lastSerial[u] < serial /\ lastSerial[u] \in Nat
    BY DEF CM!SerialsInOrder, CM!TypeOK
  <2>2. /\ serial' = serial
        /\ \A u \in Stages : lastSerial'[u] < serial' /\ seen[u] \subseteq seen'[u]
        /\ \A u \in Stages : lastSerial'[u] = lastSerial[u]
                               \/ \E l \in Uses[u] : Editor[l] = t
    BY <1>0, <1>5, <1>6, <1>8, <2>1
  <2>3. \A u \in Stages : (\E l \in Uses[u] : Editor[l] = t) =>
             /\ lastSerial[u] <= q.serial
             /\ lastSerial[u] = q.serial => CM!RoundChanges(q, u) \subseteq seen[u]
    BY <1>3, <1>4 DEF CM!SerialsInOrder
  <2>4. \A u : CM!RoundChanges(r, u) = CM!RoundChanges(q, u)
    BY <1>2 DEF CM!RoundChanges
  <2>5. /\ r.serial < serial'
        /\ \A u \in Stages : (\E l \in Uses[u] : Editor[l] = t) =>
             /\ lastSerial'[u] <= r.serial
             /\ lastSerial'[u] = r.serial => CM!RoundChanges(r, u) \subseteq seen'[u]
    <3>1. r.serial = q.serial /\ r.serial < serial' /\ lastSerial'[s] <= r.serial
      BY <1>2, <1>6, <1>8, <2>2
    <3>2. ASSUME NEW u \in Stages, \E l \in Uses[u] : Editor[l] = t
          PROVE  /\ lastSerial'[u] <= r.serial
                 /\ lastSerial'[u] = r.serial => CM!RoundChanges(r, u) \subseteq seen'[u]
      <4>1. CASE u = s
        BY <4>1, <3>1, <1>8, <2>4
      <4>2. CASE u # s
        BY <4>2, <3>1, <3>2, <1>8, <2>3, <2>4
      <4> QED BY <4>1, <4>2
    <3> QED BY <3>1, <3>2
  <2> QED BY <1>0, <1>1, <1>2, <2>2, <2>5, SerialsGoOn
<1> QED BY <1>8, <1>9, <1>10, <1>11

LEMMA EndRoundKeeps ==
  ASSUME CM!ThreadingAssumption, CM!IInv, NEW t \in Workers, CM!EndRound(t)
  PROVE  CM!IInv'
<1>. USE DEF CM!IInv
<1>. DEFINE n == Len(rounds[t])
<1>0. /\ ~block[t] /\ rounds[t] # << >>
      /\ CM!Top(t).phase = "stages" /\ CM!Top(t).pos = Len(CM!Top(t).list)
      /\ CM!Top(t).left = {}
      /\ rounds' = [rounds EXCEPT ![t] = SubSeq(@, 1, Len(@) - 1)]
      /\ UNCHANGED <<alive, made, block, changes, removes, serial, lastSerial, seen, alarms>>
  BY DEF CM!EndRound, CM!CanSend
<1>1. /\ rounds[t] \in Seq(CM!Round) /\ n \in DOMAIN rounds[t] /\ n \in Nat \ {0}
      /\ DOMAIN rounds[t] = 1..n /\ CM!Top(t) = rounds[t][n]
  BY <1>0 DEF CM!TypeOK, CM!Top
<1>2. /\ rounds' \in [Workers -> Seq(CM!Round)]
      /\ \A u \in Workers \ {t} : rounds'[u] = rounds[u]
      /\ DOMAIN rounds'[t] = 1..(n - 1) /\ Len(rounds'[t]) = n - 1
      /\ \A j \in 1..(n - 1) : rounds'[t][j] = rounds[t][j]
  <2>1. /\ SubSeq(rounds[t], 1, n - 1) \in Seq(CM!Round)
        /\ DOMAIN SubSeq(rounds[t], 1, n - 1) = 1..(n - 1)
        /\ Len(SubSeq(rounds[t], 1, n - 1)) = n - 1
        /\ \A j \in 1..(n - 1) : SubSeq(rounds[t], 1, n - 1)[j] = rounds[t][j]
    BY <1>1
  <2> QED BY <1>0, <2>1 DEF CM!TypeOK
<1>. HIDE DEF n
<1>3. CM!TypeOK'
  BY <1>0, <1>2 DEF CM!TypeOK
<1>4. \A u \in Workers : \A j \in DOMAIN rounds'[u] :
        /\ j \in DOMAIN rounds[u] /\ rounds'[u][j] = rounds[u][j]
        /\ u = t => rounds[u][j].phase = "layer"
        /\ u # t => Len(rounds'[u]) = Len(rounds[u])
  <2>1. \A j \in 1..(n - 1) : j \in DOMAIN rounds[t] /\ rounds[t][j].phase = "layer"
    BY <1>1 DEF CM!RoundsNest, n
  <2> QED BY <1>2, <2>1
<1>5. CM!ThreadsKeepToTheirs'
  BY <1>0, <1>4 DEF CM!ThreadsKeepToTheirs
<1>6. CM!RoundsNest'
  <2>1. ASSUME NEW u \in Workers, NEW j \in DOMAIN rounds'[u], NEW r, r = rounds'[u][j]
        PROVE  /\ r.pos <= Len(r.list)
               /\ r.phase # "layer" => j = Len(rounds'[u]) /\ ~block'[u]
               /\ r.phase = "stages" =>
                    r.pos > 0 /\ r.left \subseteq CM!Listeners(r.list[r.pos].layer)'
               /\ r.phase # "stages" => r.left = {}
    <3>1. /\ j \in DOMAIN rounds[u] /\ r = rounds[u][j]
          /\ u = t => r.phase = "layer"
          /\ u # t => Len(rounds'[u]) = Len(rounds[u])
      BY <1>4, <2>1
    <3>2. /\ r.pos <= Len(r.list)
          /\ r.phase # "layer" => j = Len(rounds[u]) /\ ~block[u]
          /\ r.phase = "stages" =>
               r.pos > 0 /\ r.left \subseteq CM!Listeners(r.list[r.pos].layer)
          /\ r.phase # "stages" => r.left = {}
      BY <3>1 DEF CM!RoundsNest
    <3>3. block' = block /\ CM!Listeners(r.list[r.pos].layer)' = CM!Listeners(r.list[r.pos].layer)
      BY <1>0 DEF CM!Listeners
    <3> QED BY <3>1, <3>2, <3>3
  <2> QED BY <2>1 DEF CM!RoundsNest, CM!Listeners
<1>7. CM!SerialsInOrder'
  BY <1>0, <1>4 DEF CM!SerialsInOrder, CM!RoundChanges
<1>8. CM!NoChangeIsLost'
  <2>. SUFFICES ASSUME NEW s \in Stages, NEW i \in DOMAIN made,
                       made[i] \in Uses[s] \cap alive, i \notin seen[s]
                PROVE  \/ CM!Holds(changes[Editor[made[i]]], i)'
                       \/ \E j \in DOMAIN rounds'[Editor[made[i]]] :
                            CM!WillTell(rounds[Editor[made[i]]][j], s, i)'
    BY <1>0 DEF CM!NoChangeIsLost
  <2>. DEFINE u == Editor[made[i]]
  <2>1. u \in Workers
    BY DEF CM!ThreadingAssumption, CM!TypeOK
  <2>2. CASE CM!Holds(changes[u], i)
    BY <2>2, <1>0 DEF CM!Holds
  <2>3. ASSUME NEW j \in DOMAIN rounds[u], CM!WillTell(rounds[u][j], s, i)
        PROVE  j \in DOMAIN rounds'[u] /\ CM!WillTell(rounds[Editor[made[i]]][j], s, i)'
    <3>1. ~(u = t /\ j = n)
      <4>. SUFFICES ASSUME u = t /\ j = n PROVE FALSE
        OBVIOUS
      <4>1. CM!WillTell(CM!Top(t), s, i) /\ CM!Top(t) \in CM!Round
        BY <2>3, <1>1
      <4> QED BY <1>0, <4>1 DEF CM!WillTell, CM!Round
    <3>2. j \in DOMAIN rounds'[u] /\ rounds'[u][j] = rounds[u][j]
      <4>1. CASE u # t
        BY <4>1, <2>1, <1>2
      <4>2. CASE u = t
        <5>1. j \in 1..(n - 1)
          BY <4>2, <3>1, <1>1
        <5> QED BY <4>2, <5>1, <1>2
      <4> QED BY <4>1, <4>2
    <3> QED BY <2>3, <3>2, <1>0 DEF CM!WillTell
  <2> QED BY <2>1, <2>2, <2>3 DEF CM!NoChangeIsLost
<1> QED BY <1>3, <1>5, <1>6, <1>7, <1>8

LEMMA ChangesStep ==
  ASSUME EditPhases \subseteq {"layer"}, CM!ThreadingAssumption, CM!BoundsAssumption,
         CM!IInv, [CM!Next]_CM!vars
  PROVE  CM!IInv' /\ alarms' = alarms
<1>1. CASE UNCHANGED CM!vars
  BY <1>1, ChangesStutter DEF CM!vars
<1>2. CASE CM!Next
  <2>1. PICK t \in Workers :
          \/ CM!OpenChangeBlock(t) \/ CM!CloseChangeBlock(t)
          \/ \E l \in EditedLayers : \/ CM!DidChange(t, l) \/ CM!RemoveSpecIfInert(t, l)
                                     \/ CM!LayerExpires(t, l)
          \/ CM!SendNoticesForChangeList(t) \/ CM!SendLayersDidChange(t)
          \/ CM!SendPerLayer(t) \/ CM!EndRound(t)
          \/ \E s \in Stages : CM!HandleLayersDidChange(t, s)
    BY <1>2 DEF CM!Next
  <2>2. CASE \E s \in Stages : CM!HandleLayersDidChange(t, s)
    BY <2>2, HandleKeeps
  <2>3. CASE ~\E s \in Stages : CM!HandleLayersDidChange(t, s)
    <3>1. alarms' = alarms
      BY <2>1, <2>3 DEF CM!OpenChangeBlock, CM!CloseChangeBlock, CM!DidChange,
         CM!RemoveSpecIfInert, CM!LayerExpires, CM!SendNoticesForChangeList,
         CM!SendLayersDidChange, CM!SendPerLayer, CM!EndRound
    <3> QED BY <2>1, <2>3, <3>1, OpenBlockKeeps, CloseBlockKeeps, DidChangeKeeps,
               RemoveIfInertKeeps, LayerExpiresKeeps, SendForListKeeps, SendAllKeeps,
               SendPerLayerKeeps, EndRoundKeeps
  <2> QED BY <2>2, <2>3
<1> QED BY <1>1, <1>2

LEMMA ChangesArePart ==
  ASSUME SharedNext PROVE [CM!Next]_CM!vars
BY DEF SharedNext, StacksMove, TokensMove, NodesMove, NoticesMove, ChangesMove,
       PythonMoves, VulkanMoves, RenameMoves, CachesMove, changeVars, CM!vars

LEMMA ChangesInvariant ==
  ASSUME EditPhases \subseteq {"layer"}
  PROVE  SharedSpec => [](CM!IInv /\ CM!NoFalseAlarm)
<1>1. SharedInit => CM!IInv /\ CM!NoFalseAlarm
  BY SharedAssumptions, ChangesInit
     DEF SharedAssumptions, SharedInit, CM!Init, CM!NoFalseAlarm
<1>2. CM!IInv /\ CM!NoFalseAlarm /\ [SharedNext]_<<part, vars, tokenVars, nodeVars,
         noticeVars, changeVars, pythonVars, vulkanVars, renameVars, cacheVars>>
      => (CM!IInv /\ CM!NoFalseAlarm)'
  BY SharedAssumptions, ChangesArePart, ChangesStep
     DEF SharedAssumptions, changeVars, CM!vars, CM!NoFalseAlarm
<1> QED BY <1>1, <1>2, PTL DEF SharedSpec

(***************************************************************************)
(* With any threads, layers and stages, as long as only the listeners of   *)
(* single layers edit, every stage has processed all changes of its layers *)
(* when their editor is outside of blocks and rounds.                      *)
(***************************************************************************)
THEOREM NoChangeIgnored ==
  ASSUME EditPhases \subseteq {"layer"} PROVE SharedSpec => []StagesKeepUp
<1>1. CM!IInv => StagesKeepUp
  <2>. SUFFICES ASSUME CM!IInv, NEW s \in Stages, NEW i \in DOMAIN made,
                       CM!Idle(Editor[made[i]]), made[i] \in Uses[s] \cap alive
                PROVE  i \in seen[s]
    BY DEF StagesKeepUp, CM!StagesKeepUp
  <2>1. Editor[made[i]] \in Workers
    BY SharedAssumptions DEF SharedAssumptions, CM!ThreadingAssumption, CM!IInv, CM!TypeOK
  <2>2. changes[Editor[made[i]]] = << >> /\ rounds[Editor[made[i]]] = << >>
    BY <2>1 DEF CM!IInv, CM!ThreadsKeepToTheirs, CM!Idle
  <2> QED BY <2>2 DEF CM!IInv, CM!NoChangeIsLost, CM!Holds
<1> QED BY <1>1, ChangesInvariant, PTL

-----------------------------------------------------------------------------
(***************************************************************************)
(* TfPyOwnership, where the flag does not race.                            *)
(***************************************************************************)
LEMMA PythonStutters ==
  ASSUME PY!IInv, UNCHANGED PY!vars PROVE PY!IInv'
<1>. USE DEF PY!vars, PY!objectVars, PY!pyVars, PY!lockVars
<1>1. PY!References' = PY!References
  BY DEF PY!References, PY!Counted
<1> QED BY <1>1 DEF PY!IInv, PY!TypeOK, PY!CountIsExact, PY!LockIsHeld,
                    PY!FlagIsCurrent, PY!AddersMayAdd, PY!PythonIsKept

(* How many references C++ has.                                            *)
NumRefs == Cardinality(PY!References)

LEMMA CountMeans ==
  PY!CountIsExact <=> /\ count = NumRefs + (IF owner THEN 1 ELSE 0)
                      /\ dead <=> count = 0
BY DEF PY!CountIsExact, NumRefs, PY!Cardinality, Cardinality

LEMMA ReferencesFinite ==
  ASSUME PY!OwnershipAssumption
  PROVE  IsFiniteSet(Threads \X (1..(MaxHolds + 1)))
<1>1. IsFiniteSet(Threads)
  BY Zenon DEF PY!OwnershipAssumption, PY!IsFiniteSet, IsFiniteSet
<1>2. 1 \in Int /\ MaxHolds + 1 \in Int
  BY DEF PY!OwnershipAssumption
<1>3. IsFiniteSet(1..(MaxHolds + 1))
  BY <1>2, FS_Interval
<1> QED BY <1>1, <1>3, FS_Product

LEMMA NumRefsFacts ==
  ASSUME PY!OwnershipAssumption, PY!TypeOK
  PROVE  /\ NumRefs \in Nat
         /\ \A t \in Threads : PY!Counted(t) \in 0..(MaxHolds + 1)
         /\ \A t \in Threads : PY!Counted(t) > 0 => NumRefs > 0
         /\ \A t, u \in Threads : t # u /\ PY!Counted(t) > 0 /\ PY!Counted(u) > 0
                                  => NumRefs > 1
         /\ NumRefs > 0 => \E t \in Threads : PY!Counted(t) > 0
<1>. DEFINE R == PY!References
<1>1. R \in SUBSET (Threads \X (1..(MaxHolds + 1)))
  BY DEF PY!References
<1>2. IsFiniteSet(R) /\ NumRefs \in Nat
  BY <1>1, ReferencesFinite, FS_Subset, FS_CardinalityType DEF NumRefs
<1>3. \A t \in Threads : PY!Counted(t) \in 0..(MaxHolds + 1)
  BY DEF PY!Counted, PY!TypeOK, PY!OwnershipAssumption
<1>4. \A t \in Threads : PY!Counted(t) > 0 => <<t, 1>> \in R
  BY <1>3 DEF PY!References, PY!OwnershipAssumption
<1>5. NumRefs = 0 <=> R = {}
  BY <1>2, FS_EmptySet DEF NumRefs
<1>6. ASSUME NEW t \in Threads, NEW u \in Threads, t # u, PY!Counted(t) > 0, PY!Counted(u) > 0
      PROVE  NumRefs > 1
  <2>1. NumRefs # 1
    <3>. SUFFICES ASSUME NumRefs = 1 PROVE FALSE
      OBVIOUS
    <3>1. PICK x : R = {x}
      BY <1>2, FS_Singleton DEF NumRefs
    <3>2. <<t, 1>> = x /\ <<u, 1>> = x
      BY <1>4, <1>6, <3>1
    <3> QED BY <3>2, <1>6
  <2>2. NumRefs # 0
    BY <1>4, <1>5, <1>6
  <2> QED BY <1>2, <2>1, <2>2
<1>7. NumRefs > 0 => \E t \in Threads : PY!Counted(t) > 0
  <2>. SUFFICES ASSUME NumRefs > 0 PROVE \E t \in Threads : PY!Counted(t) > 0
    OBVIOUS
  <2>1. PICK x \in R : TRUE
    BY <1>2, <1>5
  <2>2. x[1] \in Threads /\ x[2] \in 1..(MaxHolds + 1) /\ x[2] <= PY!Counted(x[1])
    BY <2>1 DEF PY!References
  <2>3. PY!Counted(x[1]) > 0
    BY <1>3, <2>2
  <2> QED BY <2>2, <2>3
<1>. HIDE DEF R
<1>8. ASSUME NEW t \in Threads, PY!Counted(t) > 0 PROVE NumRefs > 0
  <2>1. R # {}
    BY <1>4, <1>8
  <2> QED BY <1>2, <1>5, <2>1
<1> QED BY <1>2, <1>3, <1>6, <1>7, <1>8

(* A step of thread t changes the references of t at most.                 *)
LEMMA NumRefsStep ==
  ASSUME PY!OwnershipAssumption, PY!TypeOK, PY!TypeOK', NEW t \in Threads,
         \A u \in Threads \ {t} : PY!Counted(u)' = PY!Counted(u)
  PROVE  /\ PY!Counted(t)' = PY!Counted(t) => NumRefs' = NumRefs
         /\ PY!Counted(t)' = PY!Counted(t) + 1 => NumRefs' = NumRefs + 1
         /\ PY!Counted(t) = PY!Counted(t)' + 1 => NumRefs' = NumRefs - 1
<1>0. /\ PY!References \in SUBSET (Threads \X (1..(MaxHolds + 1)))
      /\ PY!References' \in SUBSET (Threads \X (1..(MaxHolds + 1)))
  BY DEF PY!References
<1>1. IsFiniteSet(PY!References) /\ IsFiniteSet(PY!References')
  BY <1>0, ReferencesFinite, FS_Subset
<1>2. PY!Counted(t) \in 0..(MaxHolds + 1) /\ PY!Counted(t)' \in 0..(MaxHolds + 1)
  BY DEF PY!Counted, PY!TypeOK, PY!OwnershipAssumption
<1>3. CASE PY!Counted(t)' = PY!Counted(t)
  <2>1. PY!References' = PY!References
    BY <1>3 DEF PY!References
  <2> QED BY <1>2, <1>3, <2>1 DEF NumRefs
<1>4. CASE PY!Counted(t)' = PY!Counted(t) + 1
  <2>. DEFINE x == <<t, PY!Counted(t) + 1>>
  <2>1. PY!References' = PY!References \cup {x} /\ x \notin PY!References
    <3>1. \A y \in Threads \X (1..(MaxHolds + 1)) :
            y \in PY!References' <=> y \in PY!References \/ y = x
      <4>. SUFFICES ASSUME NEW u \in Threads, NEW i \in 1..(MaxHolds + 1)
                    PROVE  <<u, i>> \in PY!References' <=> <<u, i>> \in PY!References \/ <<u, i>> = x
        OBVIOUS
      <4>1. <<u, i>> \in PY!References <=> i <= PY!Counted(u)
        BY DEF PY!References
      <4>2. <<u, i>> \in PY!References' <=> i <= PY!Counted(u)'
        BY DEF PY!References
      <4> QED BY <4>1, <4>2, <1>2, <1>4
    <3>2. x \in Threads \X (1..(MaxHolds + 1))
      BY <1>2, <1>4
    <3>3. x \notin PY!References
      BY <1>2 DEF PY!References
    <3> QED BY <3>1, <3>2, <3>3, <1>0
  <2>2. Cardinality(PY!References \cup {x}) = Cardinality(PY!References) + 1
    BY <1>1, <2>1, FS_AddElement
  <2>3. NumRefs' = NumRefs + 1
    BY <2>1, <2>2 DEF NumRefs
  <2> QED BY <2>3, <1>2, <1>4
<1>5. CASE PY!Counted(t) = PY!Counted(t)' + 1
  <2>. DEFINE x == <<t, PY!Counted(t)>>
  <2>1. PY!References = PY!References' \cup {x} /\ x \notin PY!References'
    <3>1. \A y \in Threads \X (1..(MaxHolds + 1)) :
            y \in PY!References <=> y \in PY!References' \/ y = x
      <4>. SUFFICES ASSUME NEW u \in Threads, NEW i \in 1..(MaxHolds + 1)
                    PROVE  <<u, i>> \in PY!References <=> <<u, i>> \in PY!References' \/ <<u, i>> = x
        OBVIOUS
      <4>1. <<u, i>> \in PY!References <=> i <= PY!Counted(u)
        BY DEF PY!References
      <4>2. <<u, i>> \in PY!References' <=> i <= PY!Counted(u)'
        BY DEF PY!References
      <4> QED BY <4>1, <4>2, <1>2, <1>5
    <3>2. x \in Threads \X (1..(MaxHolds + 1))
      BY <1>2, <1>5
    <3>3. x \notin PY!References'
      BY <1>2, <1>5 DEF PY!References
    <3> QED BY <3>1, <3>2, <3>3, <1>0
  <2>2. Cardinality(PY!References' \cup {x}) = Cardinality(PY!References') + 1
    BY <1>1, <2>1, FS_AddElement
  <2>3. NumRefs' = NumRefs - 1
    BY <1>1, <2>1, <2>2, FS_CardinalityType DEF NumRefs
  <2> QED BY <2>3, <1>2, <1>5
<1> QED BY <1>3, <1>4, <1>5

(* The steps of the lock, and the making of an object.                     *)
LEMMA EnterPythonKeeps ==
  ASSUME PY!OwnershipAssumption, PY!IInv, NEW t \in Threads, PY!EnterPython(t)
  PROVE  PY!IInv'
<1>. USE DEF PY!IInv, PY!TypeOK, PY!EnterPython, PY!objectVars, PY!pyVars
<1>0. /\ NumRefs \in Nat /\ count = NumRefs + (IF owner THEN 1 ELSE 0) /\ (dead <=> count = 0)
      /\ \A u \in Threads : PY!Counted(u) > 0 => NumRefs > 0
      /\ \A u \in Threads : u # t /\ PY!Counted(t) > 0 /\ PY!Counted(u) > 0 => NumRefs > 1
  BY NumRefsFacts, CountMeans
<1>1. PY!TypeOK'
  BY <1>0 DEF PY!Labels, PY!Counted, PY!AddersMayAdd, PY!OwnershipAssumption,
     PY!LockIsHeld
<1>2. /\ \A u \in Threads \ {t} : PY!Counted(u)' = PY!Counted(u)
      /\ PY!Counted(t)' = PY!Counted(t)
  BY DEF PY!Counted
<1>3. NumRefs' = NumRefs
  BY <1>1, <1>2, NumRefsStep
<1>4. PY!CountIsExact'
  <2>1. count' = NumRefs' + (IF owner' THEN 1 ELSE 0) /\ (dead' <=> count' = 0)
    BY <1>0, <1>3 DEF PY!Counted, PY!PythonIsKept, PY!LockIsHeld, PY!AddersMayAdd
  <2> QED BY <2>1 DEF PY!CountIsExact, NumRefs, PY!Cardinality, Cardinality
<1>5. PY!LockIsHeld'
  BY DEF PY!LockIsHeld, PY!AddersMayAdd, PY!OwnershipAssumption
<1>6. PY!FlagIsCurrent'
  BY DEF PY!FlagIsCurrent, PY!LockIsHeld
<1>7. PY!AddersMayAdd'
  BY DEF PY!AddersMayAdd, PY!LockIsHeld
<1>8. PY!PythonIsKept'
  BY <1>0, <1>3 DEF PY!PythonIsKept, PY!LockIsHeld, PY!FlagIsCurrent, PY!AddersMayAdd,
     PY!Counted, PY!OwnershipAssumption
<1> QED BY <1>1, <1>4, <1>5, <1>6, <1>7, <1>8

LEMMA LeavePythonKeeps ==
  ASSUME PY!OwnershipAssumption, PY!IInv, NEW t \in Threads, PY!LeavePython(t)
  PROVE  PY!IInv'
<1>. USE DEF PY!IInv, PY!TypeOK, PY!LeavePython, PY!objectVars, PY!pyVars
<1>0. /\ NumRefs \in Nat /\ count = NumRefs + (IF owner THEN 1 ELSE 0) /\ (dead <=> count = 0)
      /\ \A u \in Threads : PY!Counted(u) > 0 => NumRefs > 0
      /\ \A u \in Threads : u # t /\ PY!Counted(t) > 0 /\ PY!Counted(u) > 0 => NumRefs > 1
  BY NumRefsFacts, CountMeans
<1>1. PY!TypeOK'
  BY <1>0 DEF PY!Labels, PY!Counted, PY!AddersMayAdd, PY!OwnershipAssumption,
     PY!LockIsHeld
<1>2. /\ \A u \in Threads \ {t} : PY!Counted(u)' = PY!Counted(u)
      /\ PY!Counted(t)' = PY!Counted(t)
  BY DEF PY!Counted
<1>3. NumRefs' = NumRefs
  BY <1>1, <1>2, NumRefsStep
<1>4. PY!CountIsExact'
  <2>1. count' = NumRefs' + (IF owner' THEN 1 ELSE 0) /\ (dead' <=> count' = 0)
    BY <1>0, <1>3 DEF PY!Counted, PY!PythonIsKept, PY!LockIsHeld, PY!AddersMayAdd
  <2> QED BY <2>1 DEF PY!CountIsExact, NumRefs, PY!Cardinality, Cardinality
<1>5. PY!LockIsHeld'
  BY DEF PY!LockIsHeld, PY!AddersMayAdd, PY!OwnershipAssumption
<1>6. PY!FlagIsCurrent'
  BY DEF PY!FlagIsCurrent, PY!LockIsHeld
<1>7. PY!AddersMayAdd'
  BY DEF PY!AddersMayAdd, PY!LockIsHeld
<1>8. PY!PythonIsKept'
  BY <1>0, <1>3 DEF PY!PythonIsKept, PY!LockIsHeld, PY!FlagIsCurrent, PY!AddersMayAdd,
     PY!Counted, PY!OwnershipAssumption
<1> QED BY <1>1, <1>4, <1>5, <1>6, <1>7, <1>8

LEMMA UnlockKeeps ==
  ASSUME PY!OwnershipAssumption, PY!IInv, NEW t \in Threads, PY!Unlock(t)
  PROVE  PY!IInv'
<1>. USE DEF PY!IInv, PY!TypeOK, PY!Unlock, PY!Goto, PY!objectVars, PY!pyVars
<1>0. /\ NumRefs \in Nat /\ count = NumRefs + (IF owner THEN 1 ELSE 0) /\ (dead <=> count = 0)
      /\ \A u \in Threads : PY!Counted(u) > 0 => NumRefs > 0
      /\ \A u \in Threads : u # t /\ PY!Counted(t) > 0 /\ PY!Counted(u) > 0 => NumRefs > 1
  BY NumRefsFacts, CountMeans
<1>1. PY!TypeOK'
  BY <1>0 DEF PY!Labels, PY!Counted, PY!AddersMayAdd, PY!OwnershipAssumption,
     PY!LockIsHeld
<1>2. /\ \A u \in Threads \ {t} : PY!Counted(u)' = PY!Counted(u)
      /\ PY!Counted(t)' = PY!Counted(t)
  BY DEF PY!Counted
<1>3. NumRefs' = NumRefs
  BY <1>1, <1>2, NumRefsStep
<1>4. PY!CountIsExact'
  <2>1. count' = NumRefs' + (IF owner' THEN 1 ELSE 0) /\ (dead' <=> count' = 0)
    BY <1>0, <1>3 DEF PY!Counted, PY!PythonIsKept, PY!LockIsHeld, PY!AddersMayAdd
  <2> QED BY <2>1 DEF PY!CountIsExact, NumRefs, PY!Cardinality, Cardinality
<1>5. PY!LockIsHeld'
  BY DEF PY!LockIsHeld, PY!AddersMayAdd, PY!OwnershipAssumption
<1>6. PY!FlagIsCurrent'
  BY DEF PY!FlagIsCurrent, PY!LockIsHeld
<1>7. PY!AddersMayAdd'
  BY DEF PY!AddersMayAdd, PY!LockIsHeld
<1>8. PY!PythonIsKept'
  BY <1>0, <1>3 DEF PY!PythonIsKept, PY!LockIsHeld, PY!FlagIsCurrent, PY!AddersMayAdd,
     PY!Counted, PY!OwnershipAssumption
<1> QED BY <1>1, <1>4, <1>5, <1>6, <1>7, <1>8

LEMMA NewKeeps ==
  ASSUME PY!OwnershipAssumption, PY!IInv, NEW t \in Threads, PY!New(t)
  PROVE  PY!IInv'
<1>. USE DEF PY!IInv, PY!TypeOK, PY!New, PY!pyVars, PY!lockVars
<1>0. /\ NumRefs \in Nat /\ count = NumRefs + (IF owner THEN 1 ELSE 0) /\ (dead <=> count = 0)
      /\ \A u \in Threads : PY!Counted(u) > 0 => NumRefs > 0
      /\ \A u \in Threads : u # t /\ PY!Counted(t) > 0 /\ PY!Counted(u) > 0 => NumRefs > 1
  BY NumRefsFacts, CountMeans
<1>a. /\ count = 0 /\ ~owner /\ \A u \in Threads : holds[u] = 0
      /\ holds' = [holds EXCEPT ![t] = 1] /\ 0 \in 0..MaxHolds /\ 1 \in 0..MaxHolds
  BY <1>0 DEF PY!Counted, PY!OwnershipAssumption, PY!PythonIsKept, PY!LockIsHeld,
     PY!FlagIsCurrent, PY!AddersMayAdd
<1>1. PY!TypeOK'
  BY <1>0, <1>a DEF PY!Labels, PY!Counted, PY!AddersMayAdd, PY!OwnershipAssumption,
     PY!LockIsHeld
<1>2. /\ \A u \in Threads \ {t} : PY!Counted(u)' = PY!Counted(u)
      /\ PY!Counted(t)' = PY!Counted(t) + 1
  BY <1>a DEF PY!Counted
<1>3. NumRefs' = NumRefs + 1
  BY <1>1, <1>2, NumRefsStep
<1>4. PY!CountIsExact'
  <2>1. count' = NumRefs' + (IF owner' THEN 1 ELSE 0) /\ (dead' <=> count' = 0)
    BY <1>0, <1>3, <1>a DEF PY!Counted, PY!PythonIsKept, PY!LockIsHeld, PY!AddersMayAdd
  <2> QED BY <2>1 DEF PY!CountIsExact, NumRefs, PY!Cardinality, Cardinality
<1>5. PY!LockIsHeld'
  BY <1>a DEF PY!LockIsHeld, PY!AddersMayAdd, PY!OwnershipAssumption
<1>6. PY!FlagIsCurrent'
  BY DEF PY!FlagIsCurrent, PY!LockIsHeld
<1>7. PY!AddersMayAdd'
  BY <1>a DEF PY!AddersMayAdd, PY!LockIsHeld
<1>8. PY!PythonIsKept'
  BY <1>0, <1>3, <1>a DEF PY!PythonIsKept, PY!LockIsHeld, PY!FlagIsCurrent,
     PY!AddersMayAdd, PY!Counted, PY!OwnershipAssumption
<1> QED BY <1>1, <1>4, <1>5, <1>6, <1>7, <1>8

(* AddRef: whoever adds has a reference, or was given the object by Python.*)
LEMMA BeginAddKeeps ==
  ASSUME PY!OwnershipAssumption, PY!IInv, NEW t \in Threads, NEW g \in {"keep", "transfer"}, PY!BeginAdd(t, g)
  PROVE  PY!IInv'
<1>. USE DEF PY!IInv, PY!TypeOK, PY!BeginAdd, PY!Goto, PY!objectVars, PY!pyVars,
        PY!lockVars
<1>0. /\ NumRefs \in Nat /\ count = NumRefs + (IF owner THEN 1 ELSE 0) /\ (dead <=> count = 0)
      /\ \A u \in Threads : PY!Counted(u) > 0 => NumRefs > 0
      /\ \A u \in Threads : u # t /\ PY!Counted(t) > 0 /\ PY!Counted(u) > 0 => NumRefs > 1
  BY NumRefsFacts, CountMeans
<1>1. PY!TypeOK'
  BY <1>0 DEF PY!Labels, PY!Counted, PY!AddersMayAdd, PY!OwnershipAssumption,
     PY!LockIsHeld
<1>2. /\ \A u \in Threads \ {t} : PY!Counted(u)' = PY!Counted(u)
      /\ PY!Counted(t)' = PY!Counted(t)
  BY DEF PY!Counted
<1>3. NumRefs' = NumRefs
  BY <1>1, <1>2, NumRefsStep
<1>4. PY!CountIsExact'
  <2>1. count' = NumRefs' + (IF owner' THEN 1 ELSE 0) /\ (dead' <=> count' = 0)
    BY <1>0, <1>3 DEF PY!Counted, PY!PythonIsKept, PY!LockIsHeld, PY!AddersMayAdd
  <2> QED BY <2>1 DEF PY!CountIsExact, NumRefs, PY!Cardinality, Cardinality
<1>5. PY!LockIsHeld'
  BY DEF PY!LockIsHeld, PY!AddersMayAdd, PY!OwnershipAssumption
<1>6. PY!FlagIsCurrent'
  BY DEF PY!FlagIsCurrent, PY!LockIsHeld
<1>7. PY!AddersMayAdd'
  BY DEF PY!AddersMayAdd, PY!LockIsHeld
<1>8. PY!PythonIsKept'
  BY <1>0, <1>3 DEF PY!PythonIsKept, PY!LockIsHeld, PY!FlagIsCurrent, PY!AddersMayAdd,
     PY!Counted, PY!OwnershipAssumption
<1> QED BY <1>1, <1>4, <1>5, <1>6, <1>7, <1>8

LEMMA AddRefKeeps ==
  ASSUME PY!OwnershipAssumption, PY!IInv, NEW t \in Threads, PY!AddRef(t)
  PROVE  PY!IInv'
<1>. USE DEF PY!IInv, PY!TypeOK, PY!AddRef, PY!Added, PY!Finish, PY!Goto, PY!pyVars
<1>0. /\ NumRefs \in Nat /\ count = NumRefs + (IF owner THEN 1 ELSE 0) /\ (dead <=> count = 0)
      /\ \A u \in Threads : PY!Counted(u) > 0 => NumRefs > 0
      /\ \A u \in Threads : u # t /\ PY!Counted(t) > 0 /\ PY!Counted(u) > 0 => NumRefs > 1
  BY NumRefsFacts, CountMeans
<1>1. PY!TypeOK'
  BY <1>0 DEF PY!Labels, PY!Counted, PY!AddersMayAdd, PY!OwnershipAssumption,
     PY!LockIsHeld
<1>2. /\ \A u \in Threads \ {t} : PY!Counted(u)' = PY!Counted(u)
      /\ (saw[t] /\ count = 1) => PY!Counted(t)' = PY!Counted(t)
      /\ (~(saw[t] /\ count = 1)) => PY!Counted(t)' = PY!Counted(t) + 1
  BY DEF PY!Counted
<1>3. /\ ((saw[t] /\ count = 1) => NumRefs' = NumRefs)
      /\ ((~(saw[t] /\ count = 1)) => NumRefs' = NumRefs + 1)
  BY <1>1, <1>2, NumRefsStep
<1>4. PY!CountIsExact'
  <2>1. count' = NumRefs' + (IF owner' THEN 1 ELSE 0) /\ (dead' <=> count' = 0)
    BY <1>0, <1>3 DEF PY!Counted, PY!PythonIsKept, PY!LockIsHeld, PY!AddersMayAdd
  <2> QED BY <2>1 DEF PY!CountIsExact, NumRefs, PY!Cardinality, Cardinality
<1>5. PY!LockIsHeld'
  BY DEF PY!LockIsHeld, PY!AddersMayAdd, PY!OwnershipAssumption
<1>6. PY!FlagIsCurrent'
  BY DEF PY!FlagIsCurrent, PY!LockIsHeld
<1>7. PY!AddersMayAdd'
  BY DEF PY!AddersMayAdd, PY!LockIsHeld
<1>8. PY!PythonIsKept'
  BY <1>0, <1>3 DEF PY!PythonIsKept, PY!LockIsHeld, PY!FlagIsCurrent, PY!AddersMayAdd,
     PY!Counted, PY!OwnershipAssumption
<1> QED BY <1>1, <1>4, <1>5, <1>6, <1>7, <1>8

LEMMA AddRefLockedKeeps ==
  ASSUME PY!OwnershipAssumption, PY!IInv, NEW t \in Threads, PY!AddRefLocked(t)
  PROVE  PY!IInv'
<1>. USE DEF PY!IInv, PY!TypeOK, PY!AddRefLocked, PY!Added, PY!Finish, PY!Goto, PY!Lock,
        PY!pyVars
<1>0. /\ NumRefs \in Nat /\ count = NumRefs + (IF owner THEN 1 ELSE 0) /\ (dead <=> count = 0)
      /\ \A u \in Threads : PY!Counted(u) > 0 => NumRefs > 0
      /\ \A u \in Threads : u # t /\ PY!Counted(t) > 0 /\ PY!Counted(u) > 0 => NumRefs > 1
  BY NumRefsFacts, CountMeans
<1>1. PY!TypeOK'
  BY <1>0 DEF PY!Labels, PY!Counted, PY!AddersMayAdd, PY!OwnershipAssumption,
     PY!LockIsHeld
<1>2. /\ \A u \in Threads \ {t} : PY!Counted(u)' = PY!Counted(u)
      /\ PY!Counted(t)' = PY!Counted(t) + 1
  BY DEF PY!Counted
<1>3. NumRefs' = NumRefs + 1
  BY <1>1, <1>2, NumRefsStep
<1>4. PY!CountIsExact'
  <2>1. count' = NumRefs' + (IF owner' THEN 1 ELSE 0) /\ (dead' <=> count' = 0)
    BY <1>0, <1>3 DEF PY!Counted, PY!PythonIsKept, PY!LockIsHeld, PY!AddersMayAdd
  <2> QED BY <2>1 DEF PY!CountIsExact, NumRefs, PY!Cardinality, Cardinality
<1>5. PY!LockIsHeld'
  BY DEF PY!LockIsHeld, PY!AddersMayAdd, PY!OwnershipAssumption
<1>6. PY!FlagIsCurrent'
  BY DEF PY!FlagIsCurrent, PY!LockIsHeld
<1>7. PY!AddersMayAdd'
  BY DEF PY!AddersMayAdd, PY!LockIsHeld
<1>8. PY!PythonIsKept'
  BY <1>0, <1>3 DEF PY!PythonIsKept, PY!LockIsHeld, PY!FlagIsCurrent, PY!AddersMayAdd,
     PY!Counted, PY!OwnershipAssumption
<1> QED BY <1>1, <1>4, <1>5, <1>6, <1>7, <1>8

LEMMA BecameSharedKeeps ==
  ASSUME PY!OwnershipAssumption, PY!IInv, NEW t \in Threads, PY!BecameShared(t)
  PROVE  PY!IInv'
<1>. USE DEF PY!IInv, PY!TypeOK, PY!BecameShared, PY!Added, PY!Finish, PY!Goto,
        PY!objectVars
<1>0. /\ NumRefs \in Nat /\ count = NumRefs + (IF owner THEN 1 ELSE 0) /\ (dead <=> count = 0)
      /\ \A u \in Threads : PY!Counted(u) > 0 => NumRefs > 0
      /\ \A u \in Threads : u # t /\ PY!Counted(t) > 0 /\ PY!Counted(u) > 0 => NumRefs > 1
  BY NumRefsFacts, CountMeans
<1>1. PY!TypeOK'
  BY <1>0 DEF PY!Labels, PY!Counted, PY!AddersMayAdd, PY!OwnershipAssumption,
     PY!LockIsHeld
<1>2. /\ \A u \in Threads \ {t} : PY!Counted(u)' = PY!Counted(u)
      /\ PY!Counted(t)' = PY!Counted(t)
  BY DEF PY!Counted
<1>3. NumRefs' = NumRefs
  BY <1>1, <1>2, NumRefsStep
<1>4. PY!CountIsExact'
  <2>1. count' = NumRefs' + (IF owner' THEN 1 ELSE 0) /\ (dead' <=> count' = 0)
    BY <1>0, <1>3 DEF PY!Counted, PY!PythonIsKept, PY!LockIsHeld, PY!AddersMayAdd
  <2> QED BY <2>1 DEF PY!CountIsExact, NumRefs, PY!Cardinality, Cardinality
<1>5. PY!LockIsHeld'
  BY DEF PY!LockIsHeld, PY!AddersMayAdd, PY!OwnershipAssumption
<1>6. PY!FlagIsCurrent'
  BY DEF PY!FlagIsCurrent, PY!LockIsHeld
<1>7. PY!AddersMayAdd'
  BY DEF PY!AddersMayAdd, PY!LockIsHeld
<1>8. PY!PythonIsKept'
  BY <1>0, <1>3 DEF PY!PythonIsKept, PY!LockIsHeld, PY!FlagIsCurrent, PY!AddersMayAdd,
     PY!Counted, PY!OwnershipAssumption
<1> QED BY <1>1, <1>4, <1>5, <1>6, <1>7, <1>8

(* RemoveRef: the count is at least one, and with __owner's it is two.     *)
LEMMA BeginDropKeeps ==
  ASSUME PY!OwnershipAssumption, PY!IInv, NEW t \in Threads, PY!BeginDrop(t)
  PROVE  PY!IInv'
<1>. USE DEF PY!IInv, PY!TypeOK, PY!BeginDrop, PY!Goto, PY!objectVars, PY!pyVars,
        PY!lockVars
<1>0. /\ NumRefs \in Nat /\ count = NumRefs + (IF owner THEN 1 ELSE 0) /\ (dead <=> count = 0)
      /\ \A u \in Threads : PY!Counted(u) > 0 => NumRefs > 0
      /\ \A u \in Threads : u # t /\ PY!Counted(t) > 0 /\ PY!Counted(u) > 0 => NumRefs > 1
  BY NumRefsFacts, CountMeans
<1>1. PY!TypeOK'
  BY <1>0 DEF PY!Labels, PY!Counted, PY!AddersMayAdd, PY!OwnershipAssumption,
     PY!LockIsHeld
<1>2. /\ \A u \in Threads \ {t} : PY!Counted(u)' = PY!Counted(u)
      /\ PY!Counted(t)' = PY!Counted(t)
  BY DEF PY!Counted
<1>3. NumRefs' = NumRefs
  BY <1>1, <1>2, NumRefsStep
<1>4. PY!CountIsExact'
  <2>1. count' = NumRefs' + (IF owner' THEN 1 ELSE 0) /\ (dead' <=> count' = 0)
    BY <1>0, <1>3 DEF PY!Counted, PY!PythonIsKept, PY!LockIsHeld, PY!AddersMayAdd
  <2> QED BY <2>1 DEF PY!CountIsExact, NumRefs, PY!Cardinality, Cardinality
<1>5. PY!LockIsHeld'
  BY DEF PY!LockIsHeld, PY!AddersMayAdd, PY!OwnershipAssumption
<1>6. PY!FlagIsCurrent'
  BY DEF PY!FlagIsCurrent, PY!LockIsHeld
<1>7. PY!AddersMayAdd'
  BY DEF PY!AddersMayAdd, PY!LockIsHeld
<1>8. PY!PythonIsKept'
  BY <1>0, <1>3 DEF PY!PythonIsKept, PY!LockIsHeld, PY!FlagIsCurrent, PY!AddersMayAdd,
     PY!Counted, PY!OwnershipAssumption
<1> QED BY <1>1, <1>4, <1>5, <1>6, <1>7, <1>8

LEMMA RemoveRefKeeps ==
  ASSUME PY!OwnershipAssumption, PY!IInv, NEW t \in Threads, PY!RemoveRef(t)
  PROVE  PY!IInv'
<1>. USE DEF PY!IInv, PY!TypeOK, PY!RemoveRef, PY!Dropped, PY!Finish, PY!Goto, PY!pyVars
<1>0. /\ NumRefs \in Nat /\ count = NumRefs + (IF owner THEN 1 ELSE 0) /\ (dead <=> count = 0)
      /\ \A u \in Threads : PY!Counted(u) > 0 => NumRefs > 0
      /\ \A u \in Threads : u # t /\ PY!Counted(t) > 0 /\ PY!Counted(u) > 0 => NumRefs > 1
  BY NumRefsFacts, CountMeans
<1>a. PY!Counted(t) > 0 /\ count \in Nat \ {0} /\ count - 1 \in Nat
  BY <1>0 DEF PY!Counted, PY!OwnershipAssumption, PY!PythonIsKept, PY!LockIsHeld,
     PY!FlagIsCurrent, PY!AddersMayAdd
<1>1. PY!TypeOK'
  BY <1>0, <1>a DEF PY!Labels, PY!Counted, PY!AddersMayAdd, PY!OwnershipAssumption,
     PY!LockIsHeld
<1>2. /\ \A u \in Threads \ {t} : PY!Counted(u)' = PY!Counted(u)
      /\ (saw[t] /\ count = 2) => PY!Counted(t)' = PY!Counted(t)
      /\ (~(saw[t] /\ count = 2)) => PY!Counted(t) = PY!Counted(t)' + 1
  BY <1>a DEF PY!Counted
<1>3. /\ ((saw[t] /\ count = 2) => NumRefs' = NumRefs)
      /\ ((~(saw[t] /\ count = 2)) => NumRefs' = NumRefs - 1)
  BY <1>1, <1>2, NumRefsStep
<1>4. PY!CountIsExact'
  <2>1. count' = NumRefs' + (IF owner' THEN 1 ELSE 0) /\ (dead' <=> count' = 0)
    <3>1. count' = NumRefs' + (IF owner THEN 1 ELSE 0)
      BY <1>0, <1>3, <1>a, <1>2
    <3>2. owner' = owner /\ (dead' <=> count' = 0)
      BY <1>0, <1>a
    <3> QED BY <3>1, <3>2
  <2> QED BY <2>1 DEF PY!CountIsExact, NumRefs, PY!Cardinality, Cardinality
<1>5. PY!LockIsHeld'
  BY <1>a DEF PY!LockIsHeld, PY!AddersMayAdd, PY!OwnershipAssumption
<1>6. PY!FlagIsCurrent'
  BY DEF PY!FlagIsCurrent, PY!LockIsHeld
<1>7. PY!AddersMayAdd'
  BY <1>a DEF PY!AddersMayAdd, PY!LockIsHeld
<1>8. PY!PythonIsKept'
  <2>0. /\ owner' = owner /\ listens' = listens /\ pyAlive' = pyAlive /\ gil' = gil
        /\ acquired' = acquired /\ pyRefs' = pyRefs /\ ~dead /\ pyPc[t] = "drop"
        /\ \A u \in Threads \ {t} : pyPc'[u] = pyPc[u]
        /\ (owner => NumRefs + 1 = count) /\ (~owner => NumRefs = count)
        /\ NumRefs > 0 /\ saw[t] = listens
    BY <1>0, <1>a DEF PY!FlagIsCurrent
  <2>1. CASE saw[t] /\ count = 2
    <3>1. count' = count /\ dead' = dead /\ pyPc'[t] = "dropLock"
      BY <2>1
    <3> QED BY <2>0, <2>1, <3>1 DEF PY!PythonIsKept
  <2>2. CASE count = 1
    <3>0. ~owner
      BY <2>0, <2>2, <1>0
    <3>1. dead' /\ pyPc'[t] = "die"
      <4>1. PY!Dropped(t, 0)
        BY <2>2
      <4> QED BY <4>1
    <3> QED BY <3>0, <2>0, <2>2, <3>1 DEF PY!PythonIsKept
  <2>3. CASE count > 2 \/ (count = 2 /\ ~saw[t])
    <3>1. count' = count - 1 /\ ~dead' /\ pyPc'[t] \in {"idle", "unlock"}
      BY <2>0, <2>3, <1>a
    <3> QED BY <2>0, <2>3, <3>1, <1>a DEF PY!PythonIsKept
  <2> QED BY <1>a, <2>1, <2>2, <2>3
<1> QED BY <1>1, <1>4, <1>5, <1>6, <1>7, <1>8

LEMMA RemoveRefLockedKeeps ==
  ASSUME PY!OwnershipAssumption, PY!IInv, NEW t \in Threads, PY!RemoveRefLocked(t)
  PROVE  PY!IInv'
<1>. USE DEF PY!IInv, PY!TypeOK, PY!RemoveRefLocked, PY!Dropped, PY!Finish, PY!Goto,
        PY!Lock, PY!pyVars
<1>0. /\ NumRefs \in Nat /\ count = NumRefs + (IF owner THEN 1 ELSE 0) /\ (dead <=> count = 0)
      /\ \A u \in Threads : PY!Counted(u) > 0 => NumRefs > 0
      /\ \A u \in Threads : u # t /\ PY!Counted(t) > 0 /\ PY!Counted(u) > 0 => NumRefs > 1
  BY NumRefsFacts, CountMeans
<1>a. PY!Counted(t) > 0 /\ count \in Nat \ {0} /\ count - 1 \in Nat /\ count > 1
  BY <1>0 DEF PY!Counted, PY!OwnershipAssumption, PY!PythonIsKept, PY!LockIsHeld,
     PY!FlagIsCurrent, PY!AddersMayAdd
<1>1. PY!TypeOK'
  BY <1>0, <1>a DEF PY!Labels, PY!Counted, PY!AddersMayAdd, PY!OwnershipAssumption,
     PY!LockIsHeld
<1>2. /\ \A u \in Threads \ {t} : PY!Counted(u)' = PY!Counted(u)
      /\ PY!Counted(t) = PY!Counted(t)' + 1
  BY <1>a DEF PY!Counted
<1>3. NumRefs' = NumRefs - 1
  BY <1>1, <1>2, NumRefsStep
<1>4. PY!CountIsExact'
  <2>1. count' = NumRefs' + (IF owner' THEN 1 ELSE 0) /\ (dead' <=> count' = 0)
    <3>1. count' = NumRefs' + (IF owner THEN 1 ELSE 0)
      BY <1>0, <1>3, <1>a, <1>2
    <3>2. owner' = owner /\ (dead' <=> count' = 0)
      BY <1>0, <1>a
    <3> QED BY <3>1, <3>2
  <2> QED BY <2>1 DEF PY!CountIsExact, NumRefs, PY!Cardinality, Cardinality
<1>5. PY!LockIsHeld'
  BY <1>a DEF PY!LockIsHeld, PY!AddersMayAdd, PY!OwnershipAssumption
<1>6. PY!FlagIsCurrent'
  BY DEF PY!FlagIsCurrent, PY!LockIsHeld
<1>7. PY!AddersMayAdd'
  BY <1>a DEF PY!AddersMayAdd, PY!LockIsHeld
<1>8. PY!PythonIsKept'
  BY <1>0, <1>3, <1>a DEF PY!PythonIsKept, PY!LockIsHeld, PY!FlagIsCurrent,
     PY!AddersMayAdd, PY!Counted, PY!OwnershipAssumption
<1> QED BY <1>1, <1>4, <1>5, <1>6, <1>7, <1>8

LEMMA BecameUniqueKeeps ==
  ASSUME PY!OwnershipAssumption, PY!IInv, NEW t \in Threads, PY!BecameUnique(t)
  PROVE  PY!IInv'
<1>. USE DEF PY!IInv, PY!TypeOK, PY!BecameUnique, PY!FreePython, PY!Finish, PY!Goto
<1>0. /\ NumRefs \in Nat /\ count = NumRefs + (IF owner THEN 1 ELSE 0) /\ (dead <=> count = 0)
      /\ \A u \in Threads : PY!Counted(u) > 0 => NumRefs > 0
      /\ \A u \in Threads : u # t /\ PY!Counted(t) > 0 /\ PY!Counted(u) > 0 => NumRefs > 1
  BY NumRefsFacts, CountMeans
<1>1. PY!TypeOK'
  BY <1>0 DEF PY!Labels, PY!Counted, PY!AddersMayAdd, PY!OwnershipAssumption,
     PY!LockIsHeld
<1>2. /\ \A u \in Threads \ {t} : PY!Counted(u)' = PY!Counted(u)
      /\ (owner' = owner) => PY!Counted(t)' = PY!Counted(t)
      /\ (owner /\ ~owner') => PY!Counted(t)' = PY!Counted(t) + 1
  BY DEF PY!Counted
<1>3. /\ ((owner' = owner) => NumRefs' = NumRefs)
      /\ ((owner /\ ~owner') => NumRefs' = NumRefs + 1)
  BY <1>1, <1>2, NumRefsStep
<1>4. PY!CountIsExact'
  <2>1. count' = NumRefs' + (IF owner' THEN 1 ELSE 0) /\ (dead' <=> count' = 0)
    BY <1>0, <1>3 DEF PY!Counted, PY!PythonIsKept, PY!LockIsHeld, PY!AddersMayAdd
  <2> QED BY <2>1 DEF PY!CountIsExact, NumRefs, PY!Cardinality, Cardinality
<1>5. PY!LockIsHeld'
  BY DEF PY!LockIsHeld, PY!AddersMayAdd, PY!OwnershipAssumption
<1>6. PY!FlagIsCurrent'
  BY DEF PY!FlagIsCurrent, PY!LockIsHeld
<1>7. PY!AddersMayAdd'
  BY DEF PY!AddersMayAdd, PY!LockIsHeld
<1>8. PY!PythonIsKept'
  BY <1>0, <1>3 DEF PY!PythonIsKept, PY!LockIsHeld, PY!FlagIsCurrent, PY!AddersMayAdd,
     PY!Counted, PY!OwnershipAssumption
<1> QED BY <1>1, <1>4, <1>5, <1>6, <1>7, <1>8

(* The destruction: no thread has a reference, and nobody adds one.        *)
LEMMA WeakBaseDiedKeeps ==
  ASSUME PY!OwnershipAssumption, PY!IInv, NEW t \in Threads, PY!WeakBaseDied(t)
  PROVE  PY!IInv'
<1>. USE DEF PY!IInv, PY!TypeOK, PY!WeakBaseDied, PY!FreePython, PY!Finish, PY!Goto,
        PY!Lock
<1>0. /\ NumRefs \in Nat /\ count = NumRefs + (IF owner THEN 1 ELSE 0) /\ (dead <=> count = 0)
      /\ \A u \in Threads : PY!Counted(u) > 0 => NumRefs > 0
      /\ \A u \in Threads : u # t /\ PY!Counted(t) > 0 /\ PY!Counted(u) > 0 => NumRefs > 1
  BY NumRefsFacts, CountMeans
<1>a. dead /\ ~owner /\ owner' = owner /\ \A u \in Threads : holds[u] = 0
  <2>1. dead /\ ~owner /\ NumRefs = 0
    BY <1>0 DEF PY!PythonIsKept
  <2>2. \A u \in Threads : PY!Counted(u) \in Nat /\ ~(PY!Counted(u) > 0)
    BY <1>0, <2>1, NumRefsFacts
  <2>3. \A u \in Threads : holds[u] = 0
    BY <2>2 DEF PY!Counted
  <2>4. owner' = owner
    BY <2>1
  <2> QED BY <2>1, <2>3, <2>4
<1>1. PY!TypeOK'
  BY <1>0, <1>a DEF PY!Labels, PY!Counted, PY!AddersMayAdd, PY!OwnershipAssumption,
     PY!LockIsHeld
<1>2. /\ \A u \in Threads \ {t} : PY!Counted(u)' = PY!Counted(u)
      /\ PY!Counted(t)' = PY!Counted(t)
  BY <1>a DEF PY!Counted
<1>3. NumRefs' = NumRefs
  BY <1>1, <1>2, NumRefsStep
<1>4. PY!CountIsExact'
  <2>1. count' = NumRefs' + (IF owner' THEN 1 ELSE 0) /\ (dead' <=> count' = 0)
    BY <1>0, <1>3, <1>a DEF PY!Counted, PY!PythonIsKept, PY!LockIsHeld, PY!AddersMayAdd
  <2> QED BY <2>1 DEF PY!CountIsExact, NumRefs, PY!Cardinality, Cardinality
<1>5. PY!LockIsHeld'
  BY <1>a DEF PY!LockIsHeld, PY!AddersMayAdd, PY!OwnershipAssumption
<1>6. PY!FlagIsCurrent'
  BY DEF PY!FlagIsCurrent, PY!LockIsHeld
<1>7. PY!AddersMayAdd'
  BY <1>a DEF PY!AddersMayAdd, PY!LockIsHeld
<1>8. PY!PythonIsKept'
  BY <1>0, <1>3, <1>a DEF PY!PythonIsKept, PY!LockIsHeld, PY!FlagIsCurrent,
     PY!AddersMayAdd, PY!Counted, PY!OwnershipAssumption
<1> QED BY <1>1, <1>4, <1>5, <1>6, <1>7, <1>8

(* AddRefIfNonzero.                                                        *)
LEMMA BeginTryKeeps ==
  ASSUME PY!OwnershipAssumption, PY!IInv, NEW t \in Threads, PY!BeginTry(t)
  PROVE  PY!IInv'
<1>. USE DEF PY!IInv, PY!TypeOK, PY!BeginTry, PY!Goto, PY!objectVars, PY!pyVars,
        PY!lockVars
<1>0. /\ NumRefs \in Nat /\ count = NumRefs + (IF owner THEN 1 ELSE 0) /\ (dead <=> count = 0)
      /\ \A u \in Threads : PY!Counted(u) > 0 => NumRefs > 0
      /\ \A u \in Threads : u # t /\ PY!Counted(t) > 0 /\ PY!Counted(u) > 0 => NumRefs > 1
  BY NumRefsFacts, CountMeans
<1>1. PY!TypeOK'
  BY <1>0 DEF PY!Labels, PY!Counted, PY!AddersMayAdd, PY!OwnershipAssumption,
     PY!LockIsHeld
<1>2. /\ \A u \in Threads \ {t} : PY!Counted(u)' = PY!Counted(u)
      /\ PY!Counted(t)' = PY!Counted(t)
  BY DEF PY!Counted
<1>3. NumRefs' = NumRefs
  BY <1>1, <1>2, NumRefsStep
<1>4. PY!CountIsExact'
  <2>1. count' = NumRefs' + (IF owner' THEN 1 ELSE 0) /\ (dead' <=> count' = 0)
    BY <1>0, <1>3 DEF PY!Counted, PY!PythonIsKept, PY!LockIsHeld, PY!AddersMayAdd
  <2> QED BY <2>1 DEF PY!CountIsExact, NumRefs, PY!Cardinality, Cardinality
<1>5. PY!LockIsHeld'
  BY DEF PY!LockIsHeld, PY!AddersMayAdd, PY!OwnershipAssumption
<1>6. PY!FlagIsCurrent'
  BY DEF PY!FlagIsCurrent, PY!LockIsHeld
<1>7. PY!AddersMayAdd'
  BY DEF PY!AddersMayAdd, PY!LockIsHeld
<1>8. PY!PythonIsKept'
  BY <1>0, <1>3 DEF PY!PythonIsKept, PY!LockIsHeld, PY!FlagIsCurrent, PY!AddersMayAdd,
     PY!Counted, PY!OwnershipAssumption
<1> QED BY <1>1, <1>4, <1>5, <1>6, <1>7, <1>8

LEMMA AddRefIfNonzeroKeeps ==
  ASSUME PY!OwnershipAssumption, PY!IInv, NEW t \in Threads, PY!AddRefIfNonzero(t)
  PROVE  PY!IInv'
<1>. USE DEF PY!IInv, PY!TypeOK, PY!AddRefIfNonzero, PY!Added, PY!Finish, PY!Goto,
        PY!pyVars
<1>0. /\ NumRefs \in Nat /\ count = NumRefs + (IF owner THEN 1 ELSE 0) /\ (dead <=> count = 0)
      /\ \A u \in Threads : PY!Counted(u) > 0 => NumRefs > 0
      /\ \A u \in Threads : u # t /\ PY!Counted(t) > 0 /\ PY!Counted(u) > 0 => NumRefs > 1
  BY NumRefsFacts, CountMeans
<1>1. PY!TypeOK'
  BY <1>0 DEF PY!Labels, PY!Counted, PY!AddersMayAdd, PY!OwnershipAssumption,
     PY!LockIsHeld
<1>2. /\ \A u \in Threads \ {t} : PY!Counted(u)' = PY!Counted(u)
      /\ (count' = count) => PY!Counted(t)' = PY!Counted(t)
      /\ (count' = count + 1) => PY!Counted(t)' = PY!Counted(t) + 1
  BY DEF PY!Counted
<1>3. /\ ((count' = count) => NumRefs' = NumRefs)
      /\ ((count' = count + 1) => NumRefs' = NumRefs + 1)
  BY <1>1, <1>2, NumRefsStep
<1>4. PY!CountIsExact'
  <2>1. count' = NumRefs' + (IF owner' THEN 1 ELSE 0) /\ (dead' <=> count' = 0)
    BY <1>0, <1>3 DEF PY!Counted, PY!PythonIsKept, PY!LockIsHeld, PY!AddersMayAdd
  <2> QED BY <2>1 DEF PY!CountIsExact, NumRefs, PY!Cardinality, Cardinality
<1>5. PY!LockIsHeld'
  BY DEF PY!LockIsHeld, PY!AddersMayAdd, PY!OwnershipAssumption
<1>6. PY!FlagIsCurrent'
  BY DEF PY!FlagIsCurrent, PY!LockIsHeld
<1>7. PY!AddersMayAdd'
  BY DEF PY!AddersMayAdd, PY!LockIsHeld
<1>8. PY!PythonIsKept'
  BY <1>0, <1>3 DEF PY!PythonIsKept, PY!LockIsHeld, PY!FlagIsCurrent, PY!AddersMayAdd,
     PY!Counted, PY!OwnershipAssumption
<1> QED BY <1>1, <1>4, <1>5, <1>6, <1>7, <1>8

LEMMA AddRefIfNonzeroLockedKeeps ==
  ASSUME PY!OwnershipAssumption, PY!IInv, NEW t \in Threads, PY!AddRefIfNonzeroLocked(t)
  PROVE  PY!IInv'
<1>. USE DEF PY!IInv, PY!TypeOK, PY!AddRefIfNonzeroLocked, PY!Added, PY!Finish, PY!Goto,
        PY!Lock
<1>0. /\ NumRefs \in Nat /\ count = NumRefs + (IF owner THEN 1 ELSE 0) /\ (dead <=> count = 0)
      /\ \A u \in Threads : PY!Counted(u) > 0 => NumRefs > 0
      /\ \A u \in Threads : u # t /\ PY!Counted(t) > 0 /\ PY!Counted(u) > 0 => NumRefs > 1
  BY NumRefsFacts, CountMeans
<1>1. PY!TypeOK'
  BY <1>0 DEF PY!Labels, PY!Counted, PY!AddersMayAdd, PY!OwnershipAssumption,
     PY!LockIsHeld
<1>2. /\ \A u \in Threads \ {t} : PY!Counted(u)' = PY!Counted(u)
      /\ (count' = count) => PY!Counted(t)' = PY!Counted(t)
      /\ (count' = count + 1) => PY!Counted(t)' = PY!Counted(t) + 1
  BY DEF PY!Counted
<1>3. /\ ((count' = count) => NumRefs' = NumRefs)
      /\ ((count' = count + 1) => NumRefs' = NumRefs + 1)
  BY <1>1, <1>2, NumRefsStep
<1>4. PY!CountIsExact'
  <2>1. count' = NumRefs' + (IF owner' THEN 1 ELSE 0) /\ (dead' <=> count' = 0)
    BY <1>0, <1>3 DEF PY!Counted, PY!PythonIsKept, PY!LockIsHeld, PY!AddersMayAdd
  <2> QED BY <2>1 DEF PY!CountIsExact, NumRefs, PY!Cardinality, Cardinality
<1>5. PY!LockIsHeld'
  BY DEF PY!LockIsHeld, PY!AddersMayAdd, PY!OwnershipAssumption
<1>6. PY!FlagIsCurrent'
  BY DEF PY!FlagIsCurrent, PY!LockIsHeld
<1>7. PY!AddersMayAdd'
  BY DEF PY!AddersMayAdd, PY!LockIsHeld
<1>8. PY!PythonIsKept'
  BY <1>0, <1>3 DEF PY!PythonIsKept, PY!LockIsHeld, PY!FlagIsCurrent, PY!AddersMayAdd,
     PY!Counted, PY!OwnershipAssumption
<1> QED BY <1>1, <1>4, <1>5, <1>6, <1>7, <1>8

LEMMA StoreTwoKeeps ==
  ASSUME PY!OwnershipAssumption, PY!IInv, NEW t \in Threads, PY!StoreTwo(t)
  PROVE  PY!IInv'
<1>. USE DEF PY!IInv, PY!TypeOK, PY!StoreTwo, PY!Added, PY!Finish, PY!Goto, PY!pyVars
<1>0. /\ NumRefs \in Nat /\ count = NumRefs + (IF owner THEN 1 ELSE 0) /\ (dead <=> count = 0)
      /\ \A u \in Threads : PY!Counted(u) > 0 => NumRefs > 0
      /\ \A u \in Threads : u # t /\ PY!Counted(t) > 0 /\ PY!Counted(u) > 0 => NumRefs > 1
  BY NumRefsFacts, CountMeans
<1>1. PY!TypeOK'
  BY <1>0 DEF PY!Labels, PY!Counted, PY!AddersMayAdd, PY!OwnershipAssumption,
     PY!LockIsHeld
<1>2. /\ \A u \in Threads \ {t} : PY!Counted(u)' = PY!Counted(u)
      /\ PY!Counted(t)' = PY!Counted(t) + 1
  BY DEF PY!Counted
<1>3. NumRefs' = NumRefs + 1
  BY <1>1, <1>2, NumRefsStep
<1>4. PY!CountIsExact'
  <2>1. count' = NumRefs' + (IF owner' THEN 1 ELSE 0) /\ (dead' <=> count' = 0)
    BY <1>0, <1>3 DEF PY!Counted, PY!PythonIsKept, PY!LockIsHeld, PY!AddersMayAdd
  <2> QED BY <2>1 DEF PY!CountIsExact, NumRefs, PY!Cardinality, Cardinality
<1>5. PY!LockIsHeld'
  BY DEF PY!LockIsHeld, PY!AddersMayAdd, PY!OwnershipAssumption
<1>6. PY!FlagIsCurrent'
  BY DEF PY!FlagIsCurrent, PY!LockIsHeld
<1>7. PY!AddersMayAdd'
  BY DEF PY!AddersMayAdd, PY!LockIsHeld
<1>8. PY!PythonIsKept'
  BY <1>0, <1>3 DEF PY!PythonIsKept, PY!LockIsHeld, PY!FlagIsCurrent, PY!AddersMayAdd,
     PY!Counted, PY!OwnershipAssumption
<1> QED BY <1>1, <1>4, <1>5, <1>6, <1>7, <1>8

(* The transfers of ownership, which keep the lock from end to end.        *)
LEMMA ReturnToPythonKeeps ==
  ASSUME PY!OwnershipAssumption, PY!IInv, NEW t \in Threads, PY!ReturnToPython(t)
  PROVE  PY!IInv'
<1>. USE DEF PY!IInv, PY!TypeOK, PY!ReturnToPython, PY!Goto, PY!lockVars
<1>0. /\ NumRefs \in Nat /\ count = NumRefs + (IF owner THEN 1 ELSE 0) /\ (dead <=> count = 0)
      /\ \A u \in Threads : PY!Counted(u) > 0 => NumRefs > 0
      /\ \A u \in Threads : u # t /\ PY!Counted(t) > 0 /\ PY!Counted(u) > 0 => NumRefs > 1
  BY NumRefsFacts, CountMeans
<1>1. PY!TypeOK'
  BY <1>0 DEF PY!Labels, PY!Counted, PY!AddersMayAdd, PY!OwnershipAssumption,
     PY!LockIsHeld
<1>2. /\ \A u \in Threads \ {t} : PY!Counted(u)' = PY!Counted(u)
      /\ PY!Counted(t)' = PY!Counted(t)
  BY DEF PY!Counted
<1>3. NumRefs' = NumRefs
  BY <1>1, <1>2, NumRefsStep
<1>4. PY!CountIsExact'
  <2>1. count' = NumRefs' + (IF owner' THEN 1 ELSE 0) /\ (dead' <=> count' = 0)
    BY <1>0, <1>3 DEF PY!Counted, PY!PythonIsKept, PY!LockIsHeld, PY!AddersMayAdd
  <2> QED BY <2>1 DEF PY!CountIsExact, NumRefs, PY!Cardinality, Cardinality
<1>5. PY!LockIsHeld'
  BY DEF PY!LockIsHeld, PY!AddersMayAdd, PY!OwnershipAssumption
<1>6. PY!FlagIsCurrent'
  <2>1. PY!Counted(t) > 0 /\ ~dead /\ pyPc[t] = "idle" /\ gil = t
    BY <1>0 DEF PY!Counted, PY!LockIsHeld, PY!OwnershipAssumption
  <2>2. owner \/ ~listens
    BY <2>1 DEF PY!PythonIsKept
  <2> QED BY <2>2 DEF PY!FlagIsCurrent
<1>7. PY!AddersMayAdd'
  BY DEF PY!AddersMayAdd, PY!LockIsHeld
<1>8. PY!PythonIsKept'
  <2>0. /\ pyPc[t] = "idle" /\ gil = t /\ gil' = gil /\ count > 0 /\ ~dead /\ dead' = dead
        /\ pyAlive' /\ pyRefs' > 0 /\ owner' /\ listens' = listens
        /\ acquired' = (acquired \/ ~pyAlive) /\ pyRefs' \in Nat
    BY <1>0 DEF PY!Counted, PY!LockIsHeld, PY!OwnershipAssumption
  <2>1. CASE owner
    <3>1. count' = count /\ pyPc' = pyPc /\ pyAlive /\ acquired' = acquired
      BY <2>1, <2>0 DEF PY!PythonIsKept
    <3> QED BY <2>0, <2>1, <3>1 DEF PY!PythonIsKept
  <2>2. CASE ~owner
    <3>1. ~listens
      BY <2>0, <2>2 DEF PY!PythonIsKept
    <3>2. acquired'
      BY <2>0, <2>2, <3>1 DEF PY!PythonIsKept
    <3>3. pyPc'[t] = "insert" /\ \A u \in Threads \ {t} : pyPc'[u] = pyPc[u]
      BY <2>2
    <3> QED BY <2>0, <2>2, <3>1, <3>2, <3>3 DEF PY!PythonIsKept
  <2> QED BY <2>1, <2>2
<1> QED BY <1>1, <1>4, <1>5, <1>6, <1>7, <1>8

LEMMA PyInsertKeeps ==
  ASSUME PY!OwnershipAssumption, PY!IInv, NEW t \in Threads, PY!Insert(t)
  PROVE  PY!IInv'
<1>. USE DEF PY!IInv, PY!TypeOK, PY!Insert, PY!SetListens, PY!Goto, PY!pyVars,
        PY!lockVars
<1>0. /\ NumRefs \in Nat /\ count = NumRefs + (IF owner THEN 1 ELSE 0) /\ (dead <=> count = 0)
      /\ \A u \in Threads : PY!Counted(u) > 0 => NumRefs > 0
      /\ \A u \in Threads : u # t /\ PY!Counted(t) > 0 /\ PY!Counted(u) > 0 => NumRefs > 1
  BY NumRefsFacts, CountMeans
<1>1. PY!TypeOK'
  BY <1>0 DEF PY!Labels, PY!Counted, PY!AddersMayAdd, PY!OwnershipAssumption,
     PY!LockIsHeld
<1>2. /\ \A u \in Threads \ {t} : PY!Counted(u)' = PY!Counted(u)
      /\ PY!Counted(t)' = PY!Counted(t)
  BY DEF PY!Counted
<1>3. NumRefs' = NumRefs
  BY <1>1, <1>2, NumRefsStep
<1>4. PY!CountIsExact'
  <2>1. count' = NumRefs' + (IF owner' THEN 1 ELSE 0) /\ (dead' <=> count' = 0)
    BY <1>0, <1>3 DEF PY!Counted, PY!PythonIsKept, PY!LockIsHeld, PY!AddersMayAdd
  <2> QED BY <2>1 DEF PY!CountIsExact, NumRefs, PY!Cardinality, Cardinality
<1>5. PY!LockIsHeld'
  BY DEF PY!LockIsHeld, PY!AddersMayAdd, PY!OwnershipAssumption
<1>6. PY!FlagIsCurrent'
  BY DEF PY!FlagIsCurrent, PY!LockIsHeld
<1>7. PY!AddersMayAdd'
  BY DEF PY!AddersMayAdd, PY!LockIsHeld
<1>8. PY!PythonIsKept'
  BY <1>0, <1>3 DEF PY!PythonIsKept, PY!LockIsHeld, PY!FlagIsCurrent, PY!AddersMayAdd,
     PY!Counted, PY!OwnershipAssumption
<1> QED BY <1>1, <1>4, <1>5, <1>6, <1>7, <1>8

LEMMA PyEraseKeeps ==
  ASSUME PY!OwnershipAssumption, PY!IInv, NEW t \in Threads, PY!Erase(t)
  PROVE  PY!IInv'
<1>. USE DEF PY!IInv, PY!TypeOK, PY!Erase, PY!SetListens, PY!Goto, PY!pyVars,
        PY!lockVars
<1>0. /\ NumRefs \in Nat /\ count = NumRefs + (IF owner THEN 1 ELSE 0) /\ (dead <=> count = 0)
      /\ \A u \in Threads : PY!Counted(u) > 0 => NumRefs > 0
      /\ \A u \in Threads : u # t /\ PY!Counted(t) > 0 /\ PY!Counted(u) > 0 => NumRefs > 1
  BY NumRefsFacts, CountMeans
<1>1. PY!TypeOK'
  BY <1>0 DEF PY!Labels, PY!Counted, PY!AddersMayAdd, PY!OwnershipAssumption,
     PY!LockIsHeld
<1>2. /\ \A u \in Threads \ {t} : PY!Counted(u)' = PY!Counted(u)
      /\ PY!Counted(t)' = PY!Counted(t)
  BY DEF PY!Counted
<1>3. NumRefs' = NumRefs
  BY <1>1, <1>2, NumRefsStep
<1>4. PY!CountIsExact'
  <2>1. count' = NumRefs' + (IF owner' THEN 1 ELSE 0) /\ (dead' <=> count' = 0)
    BY <1>0, <1>3 DEF PY!Counted, PY!PythonIsKept, PY!LockIsHeld, PY!AddersMayAdd
  <2> QED BY <2>1 DEF PY!CountIsExact, NumRefs, PY!Cardinality, Cardinality
<1>5. PY!LockIsHeld'
  BY DEF PY!LockIsHeld, PY!AddersMayAdd, PY!OwnershipAssumption
<1>6. PY!FlagIsCurrent'
  BY DEF PY!FlagIsCurrent, PY!LockIsHeld
<1>7. PY!AddersMayAdd'
  BY DEF PY!AddersMayAdd, PY!LockIsHeld
<1>8. PY!PythonIsKept'
  BY <1>0, <1>3 DEF PY!PythonIsKept, PY!LockIsHeld, PY!FlagIsCurrent, PY!AddersMayAdd,
     PY!Counted, PY!OwnershipAssumption
<1> QED BY <1>1, <1>4, <1>5, <1>6, <1>7, <1>8

LEMMA DeleteOwnerKeeps ==
  ASSUME PY!OwnershipAssumption, PY!IInv, NEW t \in Threads, PY!DeleteOwner(t)
  PROVE  PY!IInv'
<1>. USE DEF PY!IInv, PY!TypeOK, PY!DeleteOwner, PY!Dropped, PY!Finish, PY!Goto,
        PY!pyVars
<1>0. /\ NumRefs \in Nat /\ count = NumRefs + (IF owner THEN 1 ELSE 0) /\ (dead <=> count = 0)
      /\ \A u \in Threads : PY!Counted(u) > 0 => NumRefs > 0
      /\ \A u \in Threads : u # t /\ PY!Counted(t) > 0 /\ PY!Counted(u) > 0 => NumRefs > 1
  BY NumRefsFacts, CountMeans
<1>a. PY!Counted(t) > 0 /\ owner /\ count \in Nat \ {0, 1} /\ count - 1 \in Nat \ {0}
  BY <1>0 DEF PY!Counted, PY!OwnershipAssumption, PY!PythonIsKept, PY!LockIsHeld,
     PY!FlagIsCurrent, PY!AddersMayAdd
<1>1. PY!TypeOK'
  BY <1>0, <1>a DEF PY!Labels, PY!Counted, PY!AddersMayAdd, PY!OwnershipAssumption,
     PY!LockIsHeld
<1>2. /\ \A u \in Threads \ {t} : PY!Counted(u)' = PY!Counted(u)
      /\ PY!Counted(t)' = PY!Counted(t)
  BY <1>a DEF PY!Counted
<1>3. NumRefs' = NumRefs
  BY <1>1, <1>2, NumRefsStep
<1>4. PY!CountIsExact'
  <2>1. count' = NumRefs' + (IF owner' THEN 1 ELSE 0) /\ (dead' <=> count' = 0)
    BY <1>0, <1>3, <1>a DEF PY!Counted, PY!PythonIsKept, PY!LockIsHeld, PY!AddersMayAdd
  <2> QED BY <2>1 DEF PY!CountIsExact, NumRefs, PY!Cardinality, Cardinality
<1>5. PY!LockIsHeld'
  BY <1>a DEF PY!LockIsHeld, PY!AddersMayAdd, PY!OwnershipAssumption
<1>6. PY!FlagIsCurrent'
  BY DEF PY!FlagIsCurrent, PY!LockIsHeld
<1>7. PY!AddersMayAdd'
  BY <1>a DEF PY!AddersMayAdd, PY!LockIsHeld
<1>8. PY!PythonIsKept'
  <2>0. /\ pyPc[t] = "disown" /\ owner /\ ~listens /\ gil = t /\ ~dead
        /\ ~owner' /\ ~listens' /\ ~dead'
        /\ pyAlive' = pyAlive /\ acquired' = acquired /\ pyRefs' = pyRefs
        /\ pyPc'[t] \in {"idle", "unlock"} /\ \A u \in Threads \ {t} : pyPc'[u] = pyPc[u]
    BY <1>0, <1>a DEF PY!LockIsHeld, PY!FlagIsCurrent
  <2>1. acquired /\ pyAlive
    BY <2>0 DEF PY!PythonIsKept
  <2>2. \A u \in Threads \ {t} : pyPc[u] \notin {"acquire", "release", "store", "die"}
    BY <2>0 DEF PY!LockIsHeld, PY!PythonIsKept
  <2> QED BY <2>0, <2>1, <2>2 DEF PY!PythonIsKept
<1> QED BY <1>1, <1>4, <1>5, <1>6, <1>7, <1>8

(* Python code forgets the object.                                         *)
LEMMA PyDecRefKeeps ==
  ASSUME PY!OwnershipAssumption, PY!IInv, NEW t \in Threads, PY!PyDecRef(t)
  PROVE  PY!IInv'
<1>. USE DEF PY!IInv, PY!TypeOK, PY!PyDecRef, PY!FreePython, PY!Finish, PY!Goto
<1>0. /\ NumRefs \in Nat /\ count = NumRefs + (IF owner THEN 1 ELSE 0) /\ (dead <=> count = 0)
      /\ \A u \in Threads : PY!Counted(u) > 0 => NumRefs > 0
      /\ \A u \in Threads : u # t /\ PY!Counted(t) > 0 /\ PY!Counted(u) > 0 => NumRefs > 1
  BY NumRefsFacts, CountMeans
<1>a. pyRefs - 1 \in 0..MaxPyRefs
  BY <1>0 DEF PY!Counted, PY!OwnershipAssumption, PY!PythonIsKept, PY!LockIsHeld,
     PY!FlagIsCurrent, PY!AddersMayAdd
<1>1. PY!TypeOK'
  BY <1>0, <1>a DEF PY!Labels, PY!Counted, PY!AddersMayAdd, PY!OwnershipAssumption,
     PY!LockIsHeld
<1>2. /\ \A u \in Threads \ {t} : PY!Counted(u)' = PY!Counted(u)
      /\ (owner' = owner) => PY!Counted(t)' = PY!Counted(t)
      /\ (owner /\ ~owner') => PY!Counted(t)' = PY!Counted(t) + 1
  BY <1>a DEF PY!Counted
<1>3. /\ ((owner' = owner) => NumRefs' = NumRefs)
      /\ ((owner /\ ~owner') => NumRefs' = NumRefs + 1)
  BY <1>1, <1>2, NumRefsStep
<1>4. PY!CountIsExact'
  <2>1. count' = NumRefs' + (IF owner' THEN 1 ELSE 0) /\ (dead' <=> count' = 0)
    <3>1. count' = count /\ dead' = dead
      OBVIOUS
    <3>2. owner' = owner \/ (owner /\ ~owner')
      OBVIOUS
    <3>3. CASE owner' = owner
      BY <1>0, <1>3, <3>1, <3>3
    <3>4. CASE owner /\ ~owner'
      BY <1>0, <1>3, <3>1, <3>4
    <3> QED BY <3>2, <3>3, <3>4
  <2> QED BY <2>1 DEF PY!CountIsExact, NumRefs, PY!Cardinality, Cardinality
<1>5. PY!LockIsHeld'
  BY <1>a DEF PY!LockIsHeld, PY!AddersMayAdd, PY!OwnershipAssumption
<1>6. PY!FlagIsCurrent'
  BY DEF PY!FlagIsCurrent, PY!LockIsHeld
<1>7. PY!AddersMayAdd'
  BY <1>a DEF PY!AddersMayAdd, PY!LockIsHeld
<1>8. PY!PythonIsKept'
  BY <1>0, <1>3, <1>a DEF PY!PythonIsKept, PY!LockIsHeld, PY!FlagIsCurrent,
     PY!AddersMayAdd, PY!Counted, PY!OwnershipAssumption
<1> QED BY <1>1, <1>4, <1>5, <1>6, <1>7, <1>8

(* There is no reference at first, and every step is one of these.         *)
LEMMA PythonInit ==
  ASSUME PY!OwnershipAssumption, PY!Init PROVE PY!IInv
<1>. USE DEF PY!Init
<1>1. PY!TypeOK
  <2>1. /\ count \in Nat /\ pyRefs \in 0..MaxPyRefs /\ holds \in [Threads -> 0..MaxHolds]
        /\ gil \in Threads \cup {None} /\ python \subseteq Threads
    BY DEF PY!OwnershipAssumption
  <2>2. pyPc \in [Threads -> PY!Labels] /\ goal \in [Threads -> {"keep", "transfer"}]
    BY DEF PY!Labels
  <2>3. /\ listens \in BOOLEAN /\ dead \in BOOLEAN /\ owner \in BOOLEAN
        /\ pyAlive \in BOOLEAN /\ acquired \in BOOLEAN /\ saw \in [Threads -> BOOLEAN]
    OBVIOUS
  <2> QED BY <2>1, <2>2, <2>3 DEF PY!TypeOK
<1>2. NumRefs = 0
  <2>1. \A t \in Threads : ~(PY!Counted(t) > 0)
    BY DEF PY!Counted
  <2> QED BY <1>1, <2>1, NumRefsFacts
<1>3. PY!CountIsExact
  BY <1>2, CountMeans
<1> QED BY <1>1, <1>3 DEF PY!IInv, PY!LockIsHeld, PY!FlagIsCurrent, PY!AddersMayAdd,
                          PY!PythonIsKept

LEMMA PythonStep ==
  ASSUME PY!OwnershipAssumption, PY!IInv, [PY!Next]_PY!vars PROVE PY!IInv'
<1>1. CASE UNCHANGED PY!vars
  BY <1>1, PythonStutters
<1>2. CASE PY!Next
  <2>1. PICK t \in Threads : PY!Step(t)
    BY <1>2 DEF PY!Next
  <2>2. CASE \/ PY!EnterPython(t) \/ PY!LeavePython(t) \/ PY!Unlock(t) \/ PY!New(t)
             \/ \E g \in {"keep", "transfer"} : PY!BeginAdd(t, g)
             \/ PY!AddRef(t) \/ PY!AddRefLocked(t) \/ PY!BecameShared(t)
    BY <2>2, EnterPythonKeeps, LeavePythonKeeps, UnlockKeeps, NewKeeps, BeginAddKeeps,
       AddRefKeeps, AddRefLockedKeeps, BecameSharedKeeps
  <2>3. CASE \/ PY!BeginDrop(t) \/ PY!RemoveRef(t) \/ PY!RemoveRefLocked(t)
             \/ PY!BecameUnique(t) \/ PY!WeakBaseDied(t)
    BY <2>3, BeginDropKeeps, RemoveRefKeeps, RemoveRefLockedKeeps, BecameUniqueKeeps,
       WeakBaseDiedKeeps
  <2>4. CASE \/ PY!BeginTry(t) \/ PY!AddRefIfNonzero(t) \/ PY!AddRefIfNonzeroLocked(t)
             \/ PY!StoreTwo(t) \/ PY!ReturnToPython(t) \/ PY!Insert(t) \/ PY!Erase(t)
             \/ PY!DeleteOwner(t) \/ PY!PyDecRef(t)
    BY <2>4, BeginTryKeeps, AddRefIfNonzeroKeeps, AddRefIfNonzeroLockedKeeps, StoreTwoKeeps,
       ReturnToPythonKeeps, PyInsertKeeps, PyEraseKeeps, DeleteOwnerKeeps, PyDecRefKeeps
  <2> QED BY <2>1, <2>2, <2>3, <2>4 DEF PY!Step
<1> QED BY <1>1, <1>2

LEMMA PythonIsPart ==
  ASSUME SharedNext PROVE [PY!Next]_PY!vars
BY DEF SharedNext, StacksMove, TokensMove, NodesMove, NoticesMove, ChangesMove,
       PythonMoves, VulkanMoves, RenameMoves, CachesMove, pythonVars, PY!vars,
       PY!objectVars, PY!pyVars, PY!lockVars

LEMMA PythonInvariant == SharedSpec => []PY!IInv
<1>1. SharedInit => PY!IInv
  BY SharedAssumptions, PythonInit DEF SharedAssumptions, SharedInit
<1>2. PY!IInv /\ [SharedNext]_<<part, vars, tokenVars, nodeVars,
         noticeVars, changeVars, pythonVars, vulkanVars, renameVars, cacheVars>>
      => PY!IInv'
  BY SharedAssumptions, PythonIsPart, PythonStep
     DEF SharedAssumptions, pythonVars, PY!vars, PY!objectVars, PY!pyVars, PY!lockVars
<1> QED BY <1>1, <1>2, PTL DEF SharedSpec

(***************************************************************************)
(* With any threads and any bounds, and a flag that nobody sets while      *)
(* another thread counts: the count is that of the references, nobody has  *)
(* one to a destroyed object, and the Python object is kept exactly as     *)
(* long as C++ shares the object or has been given it.                     *)
(***************************************************************************)
THEOREM PythonObjectsAreKept == SharedSpec => []KeptWhileShared
<1>1. PY!OwnershipAssumption
  BY SharedAssumptions DEF SharedAssumptions
<1>2. ASSUME PY!IInv PROVE KeptWhileShared
  <2>. USE <1>2 DEF PY!IInv
  <2>1. /\ NumRefs \in Nat /\ count = NumRefs + (IF owner THEN 1 ELSE 0) /\ (dead <=> count = 0)
        /\ \A t \in Threads : PY!Counted(t) \in 0..(MaxHolds + 1)
        /\ \A t \in Threads : PY!Counted(t) > 0 => NumRefs > 0
        /\ NumRefs > 0 => \E t \in Threads : PY!Counted(t) > 0
    BY <1>1, NumRefsFacts, CountMeans
  <2>2. dead => count = 0 /\ ~owner /\ NumRefs = 0
    BY <2>1
  <2>3. NumRefs = 0 => \A t \in Threads : holds[t] = 0
    BY <2>1 DEF PY!Counted, PY!TypeOK
  <2>4. PY!NeverResurrected
    BY <2>2, <2>3 DEF PY!NeverResurrected, PY!CountIsExact
  <2>5. PY!KeptWhileShared
    <3>. SUFFICES ASSUME PY!AllIdle
                  PROVE  /\ acquired = (pyAlive /\ ~dead /\ (owner => count > 1))
                         /\ (\A t \in Threads : holds[t] = 0) /\ pyRefs = 0 => dead /\ ~pyAlive
      BY DEF PY!KeptWhileShared
    <3>1. \A t \in Threads : pyPc[t] = "idle" /\ PY!Counted(t) = holds[t]
      BY DEF PY!AllIdle, PY!Counted, PY!TypeOK
    <3>2. /\ owner => pyAlive /\ listens /\ ~dead /\ (acquired <=> count > 1)
          /\ ~owner /\ ~dead => (acquired <=> pyAlive)
          /\ dead => ~acquired
      BY <2>2, <3>1 DEF PY!PythonIsKept
    <3>3. acquired = (pyAlive /\ ~dead /\ (owner => count > 1))
      BY <3>2 DEF PY!TypeOK
    <3>4. ASSUME \A t \in Threads : holds[t] = 0, pyRefs = 0 PROVE dead /\ ~pyAlive
      <4>1. NumRefs = 0
        BY <2>1, <3>1, <3>4
      <4>2. ~pyAlive
        BY <2>1, <3>2, <3>4, <4>1 DEF PY!PythonIsKept, PY!TypeOK
      <4> QED BY <2>1, <4>1, <4>2 DEF PY!PythonIsKept
    <3> QED BY <3>3, <3>4
  <2> QED BY <2>4, <2>5 DEF KeptWhileShared
<1> QED BY <1>2, PythonInvariant, PTL

-----------------------------------------------------------------------------
(***************************************************************************)
(* The tables, whose invariants SharedTables_proofs has.                   *)
(***************************************************************************)
LEMMA NodesArePart ==
  ASSUME SharedNext PROVE [PN!Next]_PN!vars
BY DEF SharedNext, StacksMove, TokensMove, NodesMove, NoticesMove, ChangesMove,
       PythonMoves, VulkanMoves, RenameMoves, CachesMove, nodeVars, PN!vars

LEMMA TokensArePart ==
  ASSUME SharedNext PROVE [TK!Next]_TK!vars
BY DEF SharedNext, StacksMove, TokensMove, NodesMove, NoticesMove, ChangesMove,
       PythonMoves, VulkanMoves, RenameMoves, CachesMove, tokenVars, TK!vars,
       TK!repVars

LEMMA StacksArePart ==
  ASSUME SharedNext PROVE [Next]_vars
BY DEF SharedNext, StacksMove, TokensMove, NodesMove, NoticesMove, ChangesMove,
       PythonMoves, VulkanMoves, RenameMoves, CachesMove

sharedVars == <<part, vars, tokenVars, nodeVars, noticeVars, changeVars, pythonVars,
                vulkanVars, renameVars, cacheVars>>

LEMMA PartsAreSpecs == SharedSpec => Spec /\ TK!Spec /\ PN!Spec
<1>1. SharedInit => Init /\ TK!Init /\ PN!Init
  BY DEF SharedInit
<1>2. [SharedNext]_sharedVars => [Next]_vars
  BY StacksArePart DEF sharedVars
<1>3. [SharedNext]_sharedVars => [TK!Next]_TK!vars
  <2>1. UNCHANGED tokenVars => UNCHANGED TK!vars
    BY DEF tokenVars, TK!vars, TK!repVars
  <2> QED BY <2>1, TokensArePart DEF sharedVars
<1>4. [SharedNext]_sharedVars => [PN!Next]_PN!vars
  <2>1. UNCHANGED nodeVars => UNCHANGED PN!vars
    BY DEF nodeVars, PN!vars
  <2> QED BY <2>1, NodesArePart DEF sharedVars
<1> QED BY <1>1, <1>2, <1>3, <1>4, PTL
        DEF SharedSpec, sharedVars, Spec, TK!Spec, PN!Spec

LEMMA PathNodeInvariant == SharedSpec => [](PN!IInv /\ PN!PathsAreKept)
<1>1. PN!PathNodeAssumption
  BY SharedAssumptions DEF SharedAssumptions
<1>2. PN!Init => PN!IInv /\ PN!PathsAreKept
  BY <1>1, NodeInitInvariant, PathsInit
<1>3. PN!IInv /\ PN!PathsAreKept /\ [PN!Next]_PN!vars
        => (PN!IInv /\ PN!PathsAreKept)'
  BY <1>1, NodeNextInvariant, PathsStep
<1> QED BY <1>2, <1>3, PartsAreSpecs, PTL DEF PN!Spec

LEMMA TokenInvariant == SharedSpec => [](TK!IInv /\ TK!RepsAreExact)
<1>1. TK!TokenAssumption
  BY SharedAssumptions DEF SharedAssumptions
<1>2. TK!Spec => []TK!IInv
  BY <1>1, TokensInvariant
<1> QED BY <1>2, CountsAreExact, PartsAreSpecs, PTL

LEMMA NoticesArePart ==
  ASSUME SharedNext PROVE [NR!Next]_NR!vars
BY DEF SharedNext, StacksMove, TokensMove, NodesMove, NoticesMove, ChangesMove,
       PythonMoves, VulkanMoves, RenameMoves, CachesMove, noticeVars, NR!vars

LEMMA NoticesInvariant == SharedSpec => []NR!IInv
<1>1. SharedInit => NR!IInv
  BY SharedAssumptions, NoticesInit DEF SharedAssumptions, SharedInit
<1>2. NR!IInv /\ [SharedNext]_sharedVars => NR!IInv'
  <2>1. UNCHANGED noticeVars => UNCHANGED NR!vars
    BY DEF noticeVars, NR!vars
  <2> QED BY <2>1, SharedAssumptions, NoticesArePart, NoticesStep
             DEF SharedAssumptions, sharedVars
<1> QED BY <1>1, <1>2, PTL DEF SharedSpec, sharedVars

(***************************************************************************)
(* However many threads send, and whatever the listeners they call send,   *)
(* register and revoke in turn, no deliverer is freed while a walk could   *)
(* reach it, and the lists hold what is registered; a call that revokes    *)
(* finds its deliverer freed only if the listener or the sender was gone,  *)
(* or the deliverer was deactivated already.                               *)
(***************************************************************************)
THEOREM NothingIsFreedInUse == SharedSpec => []NothingFreedInUse
<1>1. NR!IInv => NothingFreedInUse
  BY NoticesReach DEF NothingFreedInUse
<1> QED BY <1>1, NoticesInvariant, PTL

(* Every list calls the listeners it must call, and each of them once.     *)
THEOREM NoticesAreDeliveredOnce == SharedSpec => []DeliveredOnce
<1>1. NR!IInv => DeliveredOnce
  BY NoticesReach DEF DeliveredOnce
<1> QED BY <1>1, NoticesInvariant, PTL

(***************************************************************************)
(* The tables and counts of every part are exact, whichever of them moves. *)
(***************************************************************************)
THEOREM SharedTablesExact ==
  ASSUME Racing \subseteq {"erase"}, EditPhases \subseteq {"layer"}
  PROVE  SharedSpec => []TablesAreExact
<1>1. PN!IInv /\ PN!PathsAreKept => PN!NodesAreExact
  BY DEF PN!IInv, PN!PathsAreKept, PN!NodesAreExact, PN!TokensAreFresh
<1>2. /\ IInv /\ PN!IInv /\ PN!PathsAreKept /\ TK!IInv /\ TK!RepsAreExact
      /\ NR!IInv /\ CM!IInv /\ PY!IInv /\ HG!IInv /\ RN!IInv /\ SC!IInv
      => TablesAreExact
  BY <1>1 DEF TablesAreExact
<1> QED BY <1>2, Invariant, PartsAreSpecs, PathNodeInvariant, TokenInvariant,
           NoticesInvariant, ChangesInvariant, PythonInvariant, GarbageInvariant,
           RenameInvariant, StageCacheInvariant, PTL

(* Whoever asks for a string's representation, or a path's node, while it  *)
(* is in use, shares it.                                                   *)
THEOREM ObjectsShared == SharedSpec => ObjectsAreShared
<1>1. TK!TokenAssumption /\ PN!PathNodeAssumption
  BY SharedAssumptions DEF SharedAssumptions
<1>2. TK!Spec => TK!ImplementsSharing
  BY <1>1, TokensAreShared
<1>3. PN!Spec => PN!ImplementsSharing
  BY <1>1, NodesAreShared
<1> QED BY <1>2, <1>3, PartsAreSpecs, PTL DEF ObjectsAreShared

=============================================================================
