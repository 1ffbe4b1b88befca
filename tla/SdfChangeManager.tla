-------------------------- MODULE SdfChangeManager --------------------------
(***************************************************************************)
(* The change manager of sdf (pxr/usd/sdf/changeManager.cpp) and the way a *)
(* UsdStage listens to it (pxr/usd/usd/stage.cpp).                         *)
(*                                                                         *)
(* An edit is made inside a change block.  Each thread has a list of       *)
(* changes of its own; closing its outermost block sends a round of        *)
(* notices: to the listeners of each layer, then, under a serial number    *)
(* common to all threads, to everybody, then to the stages of each layer.  *)
(* A listener runs on the stack of the thread that sends, with no block    *)
(* open, so an edit it makes is a round nested in the one it hears.  A     *)
(* stage recomposes once for a round and remembers its serial number; of a *)
(* number smaller than that it concludes that two threads edit its layers, *)
(* and ignores the round.                                                  *)
(*                                                                         *)
(* A change is the index of its layer in the sequence of the changes made; *)
(* what was changed is left out.                                           *)
(***************************************************************************)
EXTENDS Integers, Sequences, FiniteSets

CONSTANTS Threads,
          Layers,
          Stages,
          Editor,       \* Editor[l]: the thread that edits layer l
          Uses,         \* Uses[s]: the layers composed in stage s
          EditPhases,   \* the notices whose listeners edit layers
          MaxChanges    \* bound on the changes made

Phases == {"layer", "global", "stages"}

(***************************************************************************)
(* The threading rule of usd: the layers of one stage are edited by one    *)
(* thread at a time, here by one thread.                                   *)
(***************************************************************************)
ThreadingAssumption ==
    /\ Editor \in [Layers -> Threads]
    /\ Uses \in [Stages -> SUBSET Layers]
    /\ \A s \in Stages : \A k, l \in Uses[s] : Editor[k] = Editor[l]

(* Of the constants; the modules that give them values assume it.          *)
BoundsAssumption ==
    /\ EditPhases \subseteq Phases /\ MaxChanges \in Nat
    /\ IsFiniteSet(Layers)

VARIABLES alive,       \* layers that exist
          made,        \* the layer of each change, in the order they were made
          block,       \* block[t]: t has a change block open
          changes,     \* changes[t]: t's list of [layer, ids], in order
          removes,     \* removes[t]: layers with a spec to remove if inert
          rounds,      \* rounds[t]: the rounds t is sending, innermost last
          serial,      \* the serial number of the next round
          lastSerial,  \* lastSerial[s]: the last round stage s has processed
          seen,        \* seen[s]: the changes stage s has processed
          alarms       \* stages that reported a threading violation

vars == <<alive, made, block, changes, removes, rounds, serial, lastSerial,
          seen, alarms>>

Entry == [layer : Layers, ids : SUBSET (1..MaxChanges)]

Round == [phase : Phases, list : Seq(Entry), pos : Nat,
          left : SUBSET Stages, serial : Nat]

TypeOK == /\ alive \subseteq Layers
          /\ made \in Seq(Layers) /\ Len(made) <= MaxChanges
          /\ block \in [Threads -> BOOLEAN]
          /\ changes \in [Threads -> Seq(Entry)]
          /\ removes \in [Threads -> SUBSET Layers]
          /\ rounds \in [Threads -> Seq(Round)]
          /\ serial \in Nat \ {0}
          /\ lastSerial \in [Stages -> Nat]
          /\ seen \in [Stages -> SUBSET (1..MaxChanges)]
          /\ alarms \subseteq Stages

Init == /\ alive = Layers
        /\ made = <<>>
        /\ block = [t \in Threads |-> FALSE]
        /\ changes = [t \in Threads |-> <<>>]
        /\ removes = [t \in Threads |-> {}]
        /\ rounds = [t \in Threads |-> <<>>]
        /\ serial = 1
        /\ lastSerial = [s \in Stages |-> 0]
        /\ seen = [s \in Stages |-> {}]
        /\ alarms = {}

-----------------------------------------------------------------------------
(***************************************************************************)
(* Edits.                                                                  *)
(***************************************************************************)

Top(t) == rounds[t][Len(rounds[t])]

(***************************************************************************)
(* The list with change i of layer l added to the entry of l, which is     *)
(* made at the end when there is none.                                     *)
(***************************************************************************)
GetListFor(list, l, i) ==
    IF \E k \in DOMAIN list : list[k].layer = l
    THEN [k \in DOMAIN list |->
             IF list[k].layer = l
             THEN [list[k] EXCEPT !.ids = @ \cup {i}] ELSE list[k]]
    ELSE Append(list, [layer |-> l, ids |-> {i}])

(***************************************************************************)
(* Code of thread t opens its outermost block: its own code, or a listener *)
(* that has been told of something.  An inner block does nothing.          *)
(***************************************************************************)
OpenChangeBlock(t) ==
    /\ ~block[t] /\ Len(made) < MaxChanges
    /\ rounds[t] # <<>> => Top(t).phase \in EditPhases /\ Top(t).pos > 0
    /\ block' = [block EXCEPT ![t] = TRUE]
    /\ UNCHANGED <<alive, made, changes, removes, rounds, serial, lastSerial,
                   seen, alarms>>

(***************************************************************************)
(* One of the layer's editing functions, in a block.                       *)
(***************************************************************************)
DidChange(t, l) ==
    /\ block[t] /\ l \in alive /\ Editor[l] = t /\ Len(made) < MaxChanges
    /\ made' = Append(made, l)
    /\ changes' = [changes EXCEPT ![t] = GetListFor(@, l, Len(made) + 1)]
    /\ UNCHANGED <<alive, block, removes, rounds, serial, lastSerial, seen,
                   alarms>>

(***************************************************************************)
(* A spec of layer l is to be removed at the end of the block, if it is    *)
(* inert then.                                                             *)
(***************************************************************************)
RemoveSpecIfInert(t, l) ==
    /\ block[t] /\ l \in alive /\ Editor[l] = t
    /\ removes' = [removes EXCEPT ![t] = @ \cup {l}]
    /\ UNCHANGED <<alive, made, block, changes, rounds, serial, lastSerial,
                   seen, alarms>>

(***************************************************************************)
(* The last owner of a layer releases it: never its own listeners, and not *)
(* while t edits it.                                                       *)
(***************************************************************************)
LayerExpires(t, l) ==
    /\ l \in alive /\ Editor[l] = t /\ rounds[t] = <<>> /\ l \notin removes[t]
    /\ alive' = alive \ {l}
    /\ UNCHANGED <<made, block, changes, removes, rounds, serial, lastSerial,
                   seen, alarms>>

(***************************************************************************)
(* The specs that prove inert are removed while the block is still open:   *)
(* they are the layers of gone, at most one of them here.                  *)
(***************************************************************************)
ProcessRemoveIfInert(t, gone) ==
    IF gone = {} THEN changes[t] ELSE GetListFor(changes[t],
                                                 CHOOSE l \in gone : TRUE,
                                                 Len(made) + 1)

(***************************************************************************)
(* The entries of the layers that still exist, in their order: upTo[k] are *)
(* those of the first k.                                                   *)
(***************************************************************************)
Existing(list) ==
    LET upTo[k \in 0..Len(list)] ==
          IF k = 0 THEN <<>>
          ELSE IF list[k].layer \in alive THEN Append(upTo[k - 1], list[k])
          ELSE upTo[k - 1]
    IN  upTo[Len(list)]

(***************************************************************************)
(* The round that the end of a block starts.                               *)
(***************************************************************************)
NewRound(list) ==
    [phase |-> "layer", list |-> list, pos |-> 0, left |-> {}, serial |-> 0]

(***************************************************************************)
(* The outermost block ends: the removals join the changes, the block is   *)
(* closed, and what was changed in layers that still exist is moved out of *)
(* the thread's list into a round of notices.                              *)
(***************************************************************************)
CloseChangeBlock(t) ==
    \E gone \in SUBSET removes[t] :
        LET list == Existing(ProcessRemoveIfInert(t, gone)) IN
        /\ block[t]
        /\ Cardinality(gone) <= 1 /\ Len(made) + Cardinality(gone) <= MaxChanges
        /\ made' = IF gone = {} THEN made
                   ELSE Append(made, CHOOSE l \in gone : TRUE)
        /\ removes' = [removes EXCEPT ![t] = {}]
        /\ changes' = [changes EXCEPT ![t] = <<>>]
        /\ block' = [block EXCEPT ![t] = FALSE]
        /\ rounds' = IF list = <<>> THEN rounds
                     ELSE [rounds EXCEPT ![t] = Append(@, NewRound(list))]
        /\ UNCHANGED <<alive, serial, lastSerial, seen, alarms>>

-----------------------------------------------------------------------------
(***************************************************************************)
(* A round of notices.  A step tells one listener; before the next step    *)
(* the listener may have edited.                                           *)
(***************************************************************************)

CanSend(t) == rounds[t] # <<>> /\ ~block[t]

SetTop(t, r) == rounds' = [rounds EXCEPT ![t][Len(rounds[t])] = r]

Listeners(l) == {s \in Stages : l \in Uses[s]}

(***************************************************************************)
(* The notices of one layer: its dirtiness, its metadata, its identifier.  *)
(***************************************************************************)
SendNoticesForChangeList(t) ==
    /\ CanSend(t) /\ Top(t).phase = "layer" /\ Top(t).pos < Len(Top(t).list)
    /\ SetTop(t, [Top(t) EXCEPT !.pos = @ + 1])
    /\ UNCHANGED <<alive, made, block, changes, removes, serial, lastSerial,
                   seen, alarms>>

(***************************************************************************)
(* The round takes its serial number and LayersDidChange is sent.          *)
(***************************************************************************)
SendLayersDidChange(t) ==
    /\ CanSend(t) /\ Top(t).phase = "layer" /\ Top(t).pos = Len(Top(t).list)
    /\ SetTop(t, [Top(t) EXCEPT !.phase = "global", !.serial = serial])
    /\ serial' = serial + 1
    /\ UNCHANGED <<alive, made, block, changes, removes, lastSerial, seen,
                   alarms>>

(***************************************************************************)
(* LayersDidChangeSentPerLayer is sent to the stages of the next layer.    *)
(***************************************************************************)
SendPerLayer(t) ==
    LET r == Top(t)
        next == IF r.phase = "global" THEN 1 ELSE r.pos + 1
    IN /\ CanSend(t) /\ r.phase \in {"global", "stages"} /\ r.left = {}
       /\ next <= Len(r.list)
       /\ SetTop(t, [r EXCEPT !.phase = "stages", !.pos = next,
                              !.left = Listeners(r.list[next].layer)])
       /\ UNCHANGED <<alive, made, block, changes, removes, serial,
                      lastSerial, seen, alarms>>

(***************************************************************************)
(* Mutant: only the changes of the layer that the notice is for.           *)
(***************************************************************************)
RoundChangesOfLayer(r, s) == r.list[r.pos].ids

RoundChanges(r, s) ==
    UNION {r.list[k].ids : k \in {j \in DOMAIN r.list :
                                     r.list[j].layer \in Uses[s]}}

(***************************************************************************)
(* Stage s is told of the layer.  It has processed the round already, or   *)
(* the round is older than the last one it processed and it complains, or  *)
(* it processes the changes of all its layers in the round.                *)
(***************************************************************************)
HandleLayersDidChange(t, s) ==
    LET r == Top(t) IN
    /\ CanSend(t) /\ s \in r.left
    /\ SetTop(t, [r EXCEPT !.left = @ \ {s}])
    /\ \/ /\ r.serial = lastSerial[s]
          /\ UNCHANGED <<lastSerial, seen, alarms>>
       \/ /\ r.serial < lastSerial[s]
          /\ alarms' = alarms \cup {s}
          /\ UNCHANGED <<lastSerial, seen>>
       \/ /\ r.serial > lastSerial[s]
          /\ lastSerial' = [lastSerial EXCEPT ![s] = r.serial]
          /\ seen' = [seen EXCEPT ![s] = @ \cup RoundChanges(r, s)]
          /\ UNCHANGED alarms
    /\ UNCHANGED <<alive, made, block, changes, removes, serial>>

(***************************************************************************)
(* The round is over; its list is kept for its storage only, and emptied.  *)
(***************************************************************************)
EndRound(t) ==
    /\ CanSend(t) /\ Top(t).phase = "stages"
    /\ Top(t).pos = Len(Top(t).list) /\ Top(t).left = {}
    /\ rounds' = [rounds EXCEPT ![t] = SubSeq(@, 1, Len(@) - 1)]
    /\ UNCHANGED <<alive, made, block, changes, removes, serial, lastSerial,
                   seen, alarms>>

Next == \E t \in Threads :
          \/ OpenChangeBlock(t) \/ CloseChangeBlock(t)
          \/ \E l \in Layers : \/ DidChange(t, l) \/ RemoveSpecIfInert(t, l)
                               \/ LayerExpires(t, l)
          \/ SendNoticesForChangeList(t) \/ SendLayersDidChange(t)
          \/ SendPerLayer(t) \/ EndRound(t)
          \/ \E s \in Stages : HandleLayersDidChange(t, s)

Spec == Init /\ [][Next]_vars

-----------------------------------------------------------------------------
(***************************************************************************)
(* Properties.                                                             *)
(***************************************************************************)

Idle(t) == ~block[t] /\ rounds[t] = <<>>

(***************************************************************************)
(* Whenever a thread is outside every block and round, each stage has      *)
(* processed every change the thread made to a layer of the stage that     *)
(* still exists: no change is left in a list, lost when a listener edits,  *)
(* or ignored because its round's number is out of order.                  *)
(***************************************************************************)
StagesKeepUp ==
    \A s \in Stages : \A i \in DOMAIN made :
        Idle(Editor[made[i]]) /\ made[i] \in Uses[s] \cap alive =>
            i \in seen[s]

(***************************************************************************)
(* The inductive invariant, when only the listeners of a layer edit.       *)
(***************************************************************************)
Holds(list, i) ==
    \E k \in DOMAIN list : list[k].layer = made[i] /\ i \in list[k].ids

(* Round r has yet to tell stage s of change i.                            *)
WillTell(r, s, i) ==
    \E k \in DOMAIN r.list :
        /\ r.list[k].layer = made[i] /\ i \in r.list[k].ids
        /\ r.phase = "stages" => k > r.pos \/ (k = r.pos /\ s \in r.left)

(* A thread's list and rounds are of its own layers, and it keeps a list   *)
(* only while its block is open.                                           *)
ThreadsKeepToTheirs ==
    \A t \in Threads :
        /\ \A k \in DOMAIN changes[t] : Editor[changes[t][k].layer] = t
        /\ \A l \in removes[t] : Editor[l] = t
        /\ ~block[t] => changes[t] = <<>> /\ removes[t] = {}
        /\ \A j \in DOMAIN rounds[t] :
               \A k \in DOMAIN rounds[t][j].list :
                   Editor[rounds[t][j].list[k].layer] = t

(* Only the innermost round of a thread, with no block open, is past its   *)
(* first phase.                                                            *)
RoundsNest ==
    \A t \in Threads : \A j \in DOMAIN rounds[t] :
        LET r == rounds[t][j] IN
        /\ r.pos <= Len(r.list)
        /\ r.phase # "layer" => j = Len(rounds[t]) /\ ~block[t]
        /\ r.phase = "stages" =>
               r.pos > 0 /\ r.left \subseteq Listeners(r.list[r.pos].layer)
        /\ r.phase # "stages" => r.left = {}

(* A stage has processed no round that is younger than one it is told of,  *)
(* and knows the number only of rounds it has processed.                   *)
SerialsInOrder ==
    /\ \A s \in Stages : lastSerial[s] < serial
    /\ \A t \in Threads : \A j \in DOMAIN rounds[t] :
           LET r == rounds[t][j] IN
           r.phase # "layer" =>
               /\ r.serial < serial
               /\ \A s \in Stages : (\E l \in Uses[s] : Editor[l] = t) =>
                      /\ lastSerial[s] <= r.serial
                      /\ lastSerial[s] = r.serial => RoundChanges(r, s) \subseteq seen[s]

(* Every change of a layer that exists is on its way until it is processed.*)
NoChangeIsLost ==
    \A s \in Stages : \A i \in DOMAIN made :
        made[i] \in Uses[s] \cap alive =>
            \/ i \in seen[s]
            \/ Holds(changes[Editor[made[i]]], i)
            \/ \E j \in DOMAIN rounds[Editor[made[i]]] :
                  WillTell(rounds[Editor[made[i]]][j], s, i)

IInv == /\ TypeOK /\ ThreadsKeepToTheirs /\ RoundsNest /\ SerialsInOrder
        /\ NoChangeIsLost

(***************************************************************************)
(* A stage whose layers are all edited by one thread never reports a       *)
(* violation of the threading rule.                                        *)
(***************************************************************************)
NoFalseAlarm == alarms = {}
=============================================================================
