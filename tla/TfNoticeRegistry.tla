--------------------------- MODULE TfNoticeRegistry ---------------------------
(***************************************************************************)
(* Tf_NoticeRegistry: lists of deliverers that threads walk without a lock *)
(* while others prepend to them, and while listeners that are being called *)
(* send, register and revoke in turn.  A user count says when nobody walks *)
(* and deliverers may be freed; until then they are only deactivated.      *)
(*                                                                         *)
(* Every notice walks the same lists, those of its type and its bases, in  *)
(* order.  What a lock protects is one step.  A call is a frame on the     *)
(* stack of its thread, the innermost last.  To use a weak pointer whose   *)
(* object is gone is a fatal error, which ends the process.  Probes and    *)
(* blocks are left out.                                                    *)
(***************************************************************************)
EXTENDS Naturals, FiniteSets, Sequences

CONSTANTS
  Threads,
  Deliverers,
  NumLists,    \* the lists a notice walks
  None,
  MaxDepth     \* calls on a thread's stack, a bound

(* Of the constants; the modules that give them values assume it.          *)
NoticeAssumption ==
  /\ NumLists \in Nat \ {0} /\ MaxDepth \in Nat \ {0}
  /\ None \notin Deliverers /\ IsFiniteSet(Deliverers) /\ IsFiniteSet(Threads)

VARIABLES
  lists,       \* the lists of deliverers
  state,       \* of a deliverer: not registered yet, allocated, or freed
  keyed,       \* the deliverers whose keys have been returned
  active, marked,   \* _active and _markedForRemoval
  expired,     \* the deliverers whose listener or sender is gone
  userCount,
  deadEntries,
  calls        \* each thread's stack of calls, the innermost last

vars == <<lists, state, keyed, active, marked, expired, userCount,
          deadEntries, calls>>

Walked == 1..NumLists

Labels == {"head", "check", "invoke", "handler", "bury", "next",
           "prepend", "leave", "key", "valid", "revoke", "fatal"}

Frames == [pc : Labels,
           list : 0..NumLists,                \* the list a send walks,
           at : Deliverers \cup {None},       \* its iterator or a call's argument
           due : SUBSET Deliverers,           \* whom the list had to call,
           got : SUBSET Deliverers]           \* and whom it has called

TypeOK ==
  /\ lists \in [Walked -> Seq(Deliverers)]
  /\ state \in [Deliverers -> {"new", "allocated", "freed"}]
  /\ keyed \subseteq Deliverers /\ expired \subseteq Deliverers
  /\ deadEntries \subseteq Deliverers
  /\ active \in [Deliverers -> BOOLEAN] /\ marked \in [Deliverers -> BOOLEAN]
  /\ userCount \in Nat
  /\ calls \in [Threads -> Seq(Frames)]

Init ==
  /\ lists = [l \in Walked |-> << >>]
  /\ state = [d \in Deliverers |-> "new"]
  /\ keyed = {}
  /\ active = [d \in Deliverers |-> TRUE]
  /\ marked = [d \in Deliverers |-> FALSE]
  /\ expired = {}
  /\ userCount = 0
  /\ deadEntries = {}
  /\ calls = [t \in Threads |-> << >>]

Top(t) == calls[t][Len(calls[t])]
In(t, label) == calls[t] # << >> /\ Top(t).pc = label

Frame(label, l, d) ==
  [pc |-> label, list |-> l, at |-> d, due |-> {}, got |-> {}]

Push(t, f) == calls' = [calls EXCEPT ![t] = Append(@, f)]
Become(t, f) == calls' = [calls EXCEPT ![t][Len(calls[t])] = f]
Return(t) == calls' = [calls EXCEPT ![t] = SubSeq(@, 1, Len(@) - 1)]

(* A thread makes a call at top level, or from the listener it is calling. *)
MayCall(t) ==
  /\ Len(calls[t]) < MaxDepth
  /\ calls[t] = << >> \/ In(t, "handler")

(***************************************************************************)
(* _Register(deliverer)                                                    *)
(***************************************************************************)
BeginRegister(t, d) ==       \* _IncrementUserCount(1)
  /\ MayCall(t) /\ state[d] = "new"
  /\ \A u \in Threads : \A i \in DOMAIN calls[u] : calls[u][i].at # d
  /\ userCount' = userCount + 1
  /\ Push(t, Frame("prepend", 0, d))
  /\ UNCHANGED <<lists, state, keyed, active, marked, expired, deadEntries>>

(* Mutant: the deliverer is put at the end of the list.                    *)
AppendDeliverer(t) ==
  LET d == Top(t).at IN
  /\ In(t, "prepend")
  /\ \E l \in Walked : lists' = [lists EXCEPT ![l] = Append(@, d)]
  /\ state' = [state EXCEPT ![d] = "allocated"]
  /\ Become(t, [Top(t) EXCEPT !.pc = "leave"])
  /\ UNCHANGED <<keyed, active, marked, expired, userCount, deadEntries>>

Prepend(t) ==
  LET d == Top(t).at IN
  /\ In(t, "prepend")
  /\ \E l \in Walked : lists' = [lists EXCEPT ![l] = <<d>> \o @]
  /\ state' = [state EXCEPT ![d] = "allocated"]
  /\ Become(t, [Top(t) EXCEPT !.pc = "leave"])
  /\ UNCHANGED <<keyed, active, marked, expired, userCount, deadEntries>>

EndRegister(t) ==            \* _IncrementUserCount(-1)
  /\ In(t, "leave")
  /\ userCount' = userCount - 1
  /\ Become(t, [Top(t) EXCEPT !.pc = "key"])
  /\ UNCHANGED <<lists, state, keyed, active, marked, expired, deadEntries>>

ReturnKey(t) ==              \* TfCreateWeakPtr(deliverer)
  /\ In(t, "key")
  /\ keyed' = keyed \cup {Top(t).at}
  /\ Return(t)
  /\ UNCHANGED <<lists, state, active, marked, expired, userCount, deadEntries>>

(***************************************************************************)
(* TfNotice::Revoke(key) tests the key without the lock: that its weak     *)
(* pointer has not expired, and then, through that pointer, that the       *)
(* deliverer is active.  _Revoke frees or deactivates with the lock.  The  *)
(* owner of a key revokes it, in one call at a time; nothing keeps the     *)
(* listener or the sender until then.                                      *)
(***************************************************************************)
Without(list, ds) ==
  LET upTo[k \in 0..Len(list)] ==
        IF k = 0 THEN << >>
        ELSE IF list[k] \notin ds THEN Append(upTo[k - 1], list[k])
        ELSE upTo[k - 1]
  IN  upTo[Len(list)]

Free(ds) ==                  \* _FreeDeliverer for each of ds
  /\ lists' = [l \in Walked |-> Without(lists[l], ds)]
  /\ state' = [d \in Deliverers |-> IF d \in ds THEN "freed" ELSE state[d]]

Revoking == {"valid", "revoke"}

BeginRevoke(t, d) ==         \* if (!key): its pointer has not expired
  /\ MayCall(t)
  /\ d \in keyed /\ state[d] = "allocated"
  /\ \A u \in Threads : \A i \in DOMAIN calls[u] :
       calls[u][i].pc \in Revoking => calls[u][i].at # d
  /\ Push(t, Frame("valid", 0, d))
  /\ UNCHANGED <<lists, state, keyed, active, marked, expired, userCount,
                 deadEntries>>

KeyIsValid(t) ==             \* _deliverer->_IsActive()
  /\ In(t, "valid") /\ state[Top(t).at] = "allocated"
  /\ IF active[Top(t).at] THEN Become(t, [Top(t) EXCEPT !.pc = "revoke"])
     ELSE Return(t)
  /\ UNCHANGED <<lists, state, keyed, active, marked, expired, userCount,
                 deadEntries>>

RevokeFreeing(t) ==          \* nobody walks; already freed, there is nothing to do
  /\ In(t, "revoke") /\ userCount = 0
  /\ Free({Top(t).at})
  /\ Return(t)
  /\ UNCHANGED <<keyed, active, marked, expired, userCount, deadEntries>>

RevokeDeactivating(t) ==
  LET d == Top(t).at IN
  /\ In(t, "revoke") /\ userCount > 0 /\ state[d] = "allocated"
  /\ active' = [active EXCEPT ![d] = FALSE]
  /\ Return(t)
  /\ UNCHANGED <<lists, state, keyed, marked, expired, userCount, deadEntries>>

(* The deliverer was freed meanwhile, and its weak pointer is used.        *)
FatalError(t) ==
  /\ In(t, "valid") \/ (In(t, "revoke") /\ userCount > 0)
  /\ state[Top(t).at] = "freed"
  /\ Become(t, [Top(t) EXCEPT !.pc = "fatal"])
  /\ UNCHANGED <<lists, state, keyed, active, marked, expired, userCount,
                 deadEntries>>

(***************************************************************************)
(* _Send(notice): the lists in order, each from the head it has when it is *)
(* its turn.                                                               *)
(***************************************************************************)
BeginSend(t) ==              \* _IncrementUserCount(1)
  /\ MayCall(t)
  /\ userCount' = userCount + 1
  /\ Push(t, Frame("head", 1, None))
  /\ UNCHANGED <<lists, state, keyed, active, marked, expired, deadEntries>>

AtNext(f, d) ==              \* the iterator is at d, or at the end
  [f EXCEPT !.at = d, !.pc = IF d = None THEN "next" ELSE "check"]

GetHead(t) ==
  LET f == Top(t)
      s == lists[f.list] IN
  /\ In(t, "head")
  /\ Become(t, AtNext([f EXCEPT !.got = {},
                         !.due = {d \in Deliverers : /\ active[d] /\ d \notin expired
                                              /\ \E i \in DOMAIN s : s[i] = d}],
                      IF s = << >> THEN None ELSE Head(s)))
  /\ UNCHANGED <<lists, state, keyed, active, marked, expired, userCount,
                 deadEntries>>

After(f) ==                  \* ++i
  LET s == lists[f.list]
      i == CHOOSE j \in DOMAIN s : s[j] = f.at
  IN IF i = Len(s) THEN None ELSE s[i + 1]

CheckActive(t) ==
  /\ In(t, "check")
  /\ Become(t, [Top(t) EXCEPT
                  !.pc = IF active[Top(t).at] THEN "invoke" ELSE "bury"])
  /\ UNCHANGED <<lists, state, keyed, active, marked, expired, userCount,
                 deadEntries>>

SendToListener(t) ==         \* the listener's method begins to run
  /\ In(t, "invoke") /\ Top(t).at \notin expired
  /\ Become(t, [Top(t) EXCEPT !.pc = "handler", !.got = @ \cup {Top(t).at}])
  /\ UNCHANGED <<lists, state, keyed, active, marked, expired, userCount,
                 deadEntries>>

SendToExpired(t) ==
  /\ In(t, "invoke") /\ Top(t).at \in expired
  /\ Become(t, [Top(t) EXCEPT !.pc = "bury"])
  /\ UNCHANGED <<lists, state, keyed, active, marked, expired, userCount,
                 deadEntries>>

ListenerReturns(t) ==
  /\ In(t, "handler")
  /\ Become(t, AtNext(Top(t), After(Top(t))))
  /\ UNCHANGED <<lists, state, keyed, active, marked, expired, userCount,
                 deadEntries>>

Bury(t) ==                   \* under _userCountMutex
  LET d == Top(t).at IN
  /\ In(t, "bury")
  /\ IF marked[d] THEN UNCHANGED <<active, marked, deadEntries>>
     ELSE /\ active' = [active EXCEPT ![d] = FALSE]
          /\ marked' = [marked EXCEPT ![d] = TRUE]
          /\ deadEntries' = deadEntries \cup {d}
  /\ Become(t, AtNext(Top(t), After(Top(t))))
  /\ UNCHANGED <<lists, state, keyed, expired, userCount>>

NextList(t) ==
  /\ In(t, "next") /\ Top(t).list < NumLists
  /\ Become(t, [Top(t) EXCEPT !.pc = "head", !.list = @ + 1])
  /\ UNCHANGED <<lists, state, keyed, active, marked, expired, userCount,
                 deadEntries>>

(* Mutant: other walks that are under way do not matter.                   *)
EndSendFreeing(t) ==
  /\ In(t, "next") /\ Top(t).list = NumLists
  /\ Free(deadEntries) /\ deadEntries' = {}
  /\ userCount' = userCount - 1
  /\ Return(t)
  /\ UNCHANGED <<keyed, active, marked, expired>>

EndSend(t) ==                \* under _userCountMutex
  /\ In(t, "next") /\ Top(t).list = NumLists
  /\ IF userCount = 1
     THEN Free(deadEntries) /\ deadEntries' = {}
     ELSE UNCHANGED <<lists, state, deadEntries>>
  /\ userCount' = userCount - 1
  /\ Return(t)
  /\ UNCHANGED <<keyed, active, marked, expired>>

(***************************************************************************)
(* A listener or a sender is destroyed.  The caller of Register, who names *)
(* both, keeps them until it returns.                                      *)
(***************************************************************************)
Expire(d) ==
  /\ d \in keyed /\ d \notin expired
  /\ expired' = expired \cup {d}
  /\ UNCHANGED <<lists, state, keyed, active, marked, userCount, deadEntries,
                 calls>>

Send(t) ==
  \/ GetHead(t) \/ CheckActive(t) \/ SendToListener(t) \/ SendToExpired(t)
  \/ ListenerReturns(t) \/ Bury(t) \/ NextList(t) \/ EndSend(t)

Register(t) ==
  \/ \E d \in Deliverers : BeginRegister(t, d)
  \/ Prepend(t) \/ EndRegister(t) \/ ReturnKey(t)

Revoke(t) ==
  \/ \E d \in Deliverers : BeginRevoke(t, d)
  \/ KeyIsValid(t) \/ RevokeFreeing(t) \/ RevokeDeactivating(t) \/ FatalError(t)

Next ==
  /\ \A t \in Threads : ~In(t, "fatal")
  /\ \/ \E t \in Threads : BeginSend(t) \/ Send(t) \/ Register(t) \/ Revoke(t)
     \/ \E d \in Deliverers : Expire(d)

Spec == Init /\ [][Next]_vars

-----------------------------------------------------------------------------
(***************************************************************************)
(* Properties.                                                             *)
(***************************************************************************)
AllFrames == UNION {{calls[t][i] : i \in DOMAIN calls[t]} : t \in Threads}

Walking == {"check", "invoke", "handler", "bury"}

(* The lists hold exactly the deliverers that are allocated, each once.    *)
ListsAreExact ==
  /\ \A l, m \in Walked : \A i \in DOMAIN lists[l], j \in DOMAIN lists[m] :
       lists[l][i] = lists[m][j] => l = m /\ i = j
  /\ \A d \in Deliverers :
       state[d] = "allocated" <=>
         \E l \in Walked : \E i \in DOMAIN lists[l] : lists[l][i] = d

(* Not to be called any more: deactivated, or its listener or sender gone. *)
Dying(d) == ~active[d] \/ d \in expired

(* A dead entry that is allocated is waiting to be freed, once.            *)
DeadEntriesAreExact ==
  /\ deadEntries \subseteq {d \in Deliverers : marked[d]}
  /\ \A d \in Deliverers : marked[d] /\ state[d] = "allocated" => d \in deadEntries

(***************************************************************************)
(* No deliverer is freed while a walk could reach it, or before its key is *)
(* returned: every iterator is at an element of its list, the lists hold   *)
(* exactly the deliverers that are allocated, each once, and those that    *)
(* walks have buried wait to be freed.  A call that revokes may find its   *)
(* deliverer freed, and end in the fatal error; but only when the listener *)
(* or the sender was gone, or the deliverer was deactivated already.       *)
(***************************************************************************)
NothingFreedInUse ==
  /\ \A f \in AllFrames :
       f.pc \in Walking => \E i \in DOMAIN lists[f.list] : lists[f.list][i] = f.at
  /\ ListsAreExact
  /\ DeadEntriesAreExact
  /\ \A f \in AllFrames :
       /\ f.pc = "key" => state[f.at] = "allocated"
       /\ f.pc \in Revoking /\ state[f.at] = "freed" => Dying(f.at)
       /\ f.pc = "fatal" => Dying(f.at)

(***************************************************************************)
(* A list calls every listener that was registered when the walk began and *)
(* stays so, calls none that was registered later, and calls none twice,   *)
(* whatever listeners and other threads send, register and revoke.         *)
(***************************************************************************)
DeliveredOnce ==
  \A f \in AllFrames :
    /\ f.got \subseteq f.due
    /\ f.pc \in {"check", "invoke"} => f.at \notin f.got
    /\ f.pc = "next" =>
         \A d \in f.due : active[d] /\ d \notin expired => d \in f.got

(***************************************************************************)
(* The inductive invariant.                                                *)
(***************************************************************************)

(* Only the innermost call of a thread is not a listener that runs.        *)
CallsNest ==
  \A t \in Threads :
    /\ Len(calls[t]) <= MaxDepth
    /\ \A i \in DOMAIN calls[t] : i < Len(calls[t]) => calls[t][i].pc = "handler"

(* Those who may hold an iterator, or change a list, are counted.          *)
Uncounted == Revoking \cup {"key", "fatal"}

Users == {x \in Threads \X (1..MaxDepth) :
            /\ x[2] \in DOMAIN calls[x[1]]
            /\ calls[x[1]][x[2]].pc \notin Uncounted}

UsersAreCounted == userCount = Cardinality(Users)

(* What is known of a deliverer; it is marked when it is buried.           *)
DeliverersLive ==
  /\ DeadEntriesAreExact
  /\ \A d \in Deliverers :
       /\ marked[d] => ~active[d]
       /\ d \in keyed => state[d] # "new"
       /\ d \notin keyed => active[d] /\ d \notin expired

(* A deliverer is registered, or revoked, by one call.                     *)
Owning == Revoking \cup {"prepend", "leave", "key"}

OneOwner ==
  \A t, u \in Threads : \A i \in DOMAIN calls[t], j \in DOMAIN calls[u] :
    /\ calls[t][i].pc \in Owning /\ calls[u][j].pc \in Owning
    /\ calls[t][i].at = calls[u][j].at
    => t = u /\ i = j

(* The walk of f is at place i of its list: it has called nobody from      *)
(* there on, all that it may call there are due, and all that it must call *)
(* and has not are there.                                                  *)
IsAt(f, i) ==
  LET s == lists[f.list] IN
  /\ i \in DOMAIN s /\ s[i] = f.at
  /\ \A j \in DOMAIN s : j >= i =>
       /\ s[j] \in f.got => j = i /\ f.pc = "handler"
       /\ active[s[j]] /\ s[j] \notin expired => s[j] \in f.due
  /\ \A d \in f.due : active[d] /\ d \notin expired =>
       d \in f.got \/ \E j \in DOMAIN s : j >= i /\ s[j] = d

FrameIsSound(f) ==
  /\ f.pc \in Walking \cup {"head", "next"} => f.list \in Walked
  /\ f.pc \notin {"head", "next"} => f.at \in Deliverers
  /\ f.got \subseteq f.due
  /\ f.pc \in Walking => \E i \in DOMAIN lists[f.list] : IsAt(f, i)
  /\ f.pc = "invoke" => f.at \in f.due \cup expired
  /\ f.pc = "handler" => f.at \in f.got
  /\ f.pc = "bury" => Dying(f.at)
  /\ f.pc = "next" =>
       \A d \in f.due : active[d] /\ d \notin expired => d \in f.got
  /\ f.pc = "prepend" => state[f.at] = "new"
  /\ f.pc \in {"leave", "key"} => state[f.at] = "allocated" /\ f.at \notin keyed
  /\ f.pc \in Revoking \cup {"fatal"} =>
       f.at \in keyed /\ (state[f.at] = "freed" => Dying(f.at))
  /\ f.pc = "fatal" => state[f.at] = "freed"

FramesAreSound == \A f \in AllFrames : FrameIsSound(f)

IInv == /\ TypeOK /\ CallsNest /\ UsersAreCounted /\ ListsAreExact
        /\ DeliverersLive /\ OneOwner /\ FramesAreSound
=============================================================================
