----------------------------- MODULE UsdStageCache -----------------------------
(***************************************************************************)
(* UsdStageCache: RequestStage finds a stage, or waits for the request of  *)
(* another thread that is about to make one, or becomes such a request,    *)
(* which lives on its thread's stack and to which others subscribe their   *)
(* mailboxes.  A stage is made without the lock.                           *)
(*                                                                         *)
(* A section of a cache's mutex is one step, but for swap, which takes two *)
(* mutexes one after the other.  A pending request is named by its thread, *)
(* and a stage by the request it was made for.                             *)
(***************************************************************************)
EXTENDS Naturals, FiniteSets, Sequences, SequencesExt

CONSTANTS
  Threads, Caches,
  Requests,    \* what may be asked for
  Satisfies,   \* <<r, p>>: a request r is satisfied by what p makes
  Racing,      \* what clients do to caches while requests run
  None

(* Of the constants; the modules that give them values assume it.          *)
StageCacheAssumption ==
  /\ Satisfies \subseteq Requests \X Requests
  /\ \A r \in Requests : <<r, r>> \in Satisfies
  /\ Racing \subseteq {"erase", "clear", "assign", "swap"}
  /\ None \notin Threads \cup Caches \cup Requests

VARIABLES
  stages,      \* how many stages made for a request each cache has
  pending,     \* pendingRequests of each cache
  mutex,       \* the thread that has a cache's mutex between two steps
  pc, cache, want,   \* the call of RequestStage a thread is in
  stage,       \* the stage it has made, or its mailbox has
  state,       \* of its mailbox: 0, 1 subscribed, 2 delivered
  subscribed,  \* the mailboxes subscribed to its request
  other        \* the cache that a thread swaps with

implVars == <<stages, pending>>
callVars == <<cache, want, stage, state, subscribed>>
vars == <<implVars, mutex, pc, callVars, other>>

Labels == {"idle", "request", "manufacture", "insert", "deliver", "wait",
           "swap"}

TypeOK ==
  /\ stages \in [Caches -> [Requests -> Nat]]
  /\ pending \in [Caches -> Seq(Threads)]
  /\ mutex \in [Caches -> Threads \cup {None}]
  /\ pc \in [Threads -> Labels]
  /\ cache \in [Threads -> Caches \cup {None}]
  /\ want \in [Threads -> Requests \cup {None}]
  /\ stage \in [Threads -> Requests \cup {None}]
  /\ state \in [Threads -> 0..2]
  /\ subscribed \in [Threads -> SUBSET Threads]
  /\ other \in [Threads -> Caches \cup {None}]

Init ==
  /\ stages = [c \in Caches |-> [r \in Requests |-> 0]]
  /\ pending = [c \in Caches |-> << >>]
  /\ mutex = [c \in Caches |-> None]
  /\ pc = [t \in Threads |-> "idle"]
  /\ cache = [t \in Threads |-> None]
  /\ want = [t \in Threads |-> None]
  /\ stage = [t \in Threads |-> None]
  /\ state = [t \in Threads |-> 0]
  /\ subscribed = [t \in Threads |-> {}]
  /\ other = [t \in Threads |-> None]

Goto(t, label) == pc' = [pc EXCEPT ![t] = label]

(* RequestStage returns; what the client does with the stage is not seen. *)
Return(t) ==
  /\ Goto(t, "idle")
  /\ cache' = [cache EXCEPT ![t] = None]
  /\ want' = [want EXCEPT ![t] = None]
  /\ subscribed' = [subscribed EXCEPT ![t] = {}]

(***************************************************************************)
(* RequestStage                                                            *)
(***************************************************************************)
Swapping == {t \in Threads : pc[t] = "swap"}

Call(t) ==
  /\ pc[t] = "idle" /\ (Swapping = {} \/ "swap" \in Racing)
  /\ \E c \in Caches : cache' = [cache EXCEPT ![t] = c]
  /\ \E r \in Requests : want' = [want EXCEPT ![t] = r]
  /\ Goto(t, "request")
  /\ UNCHANGED <<implVars, mutex, stage, state, subscribed, other>>

Locks(t) == pc[t] = "request" /\ mutex[cache[t]] = None

Hits(t) ==
  {r \in Requests : stages[cache[t]][r] > 0 /\ <<want[t], r>> \in Satisfies}

Satisfying(t) ==     \* the place of the first pending request that will do, or 0
  SelectInSeq(pending[cache[t]], LAMBDA u : <<want[t], want[u]>> \in Satisfies)

FindStage(t) ==
  /\ Locks(t) /\ Hits(t) # {}
  /\ Return(t)
  /\ UNCHANGED <<implVars, mutex, stage, state, other>>

Subscribe(t) ==
  /\ Locks(t) /\ Hits(t) = {} /\ Satisfying(t) # 0
  /\ subscribed' =
       [subscribed EXCEPT ![pending[cache[t]][Satisfying(t)]] = @ \cup {t}]
  /\ state' = [state EXCEPT ![t] = 1]
  /\ Goto(t, "wait")
  /\ UNCHANGED <<implVars, mutex, cache, want, stage, other>>

(* Mutant: requests that would do are not looked at.                       *)
BecomePendingRegardless(t) ==
  /\ Locks(t) /\ Hits(t) = {}
  /\ pending' = [pending EXCEPT ![cache[t]] = Append(@, t)]
  /\ Goto(t, "manufacture")
  /\ UNCHANGED <<stages, mutex, callVars, other>>

BecomePending(t) ==
  /\ Locks(t) /\ Hits(t) = {} /\ Satisfying(t) = 0
  /\ pending' = [pending EXCEPT ![cache[t]] = Append(@, t)]
  /\ Goto(t, "manufacture")
  /\ UNCHANGED <<stages, mutex, callVars, other>>

Manufacture(t) ==
  /\ pc[t] = "manufacture"
  /\ \/ stage' = [stage EXCEPT ![t] = want[t]] /\ Goto(t, "insert")
     \/ Goto(t, "deliver") /\ UNCHANGED stage    \* it fails
  /\ UNCHANGED <<implVars, mutex, cache, want, state, subscribed, other>>

Insert(t) ==
  LET c == cache[t] IN
  /\ pc[t] = "insert" /\ mutex[c] = None
  /\ stages' = [stages EXCEPT ![c][stage[t]] = @ + 1]
  /\ Goto(t, "deliver")
  /\ UNCHANGED <<pending, mutex, callVars, other>>

(* Mutant: a failure is not delivered.                                     *)
DeliverSuccess(t) ==
  LET c == cache[t]
      served == IF stage[t] = None THEN {} ELSE subscribed[t] IN
  /\ pc[t] = "deliver" /\ mutex[c] = None
  /\ stage' = [u \in Threads |-> IF u = t THEN None
                                 ELSE IF u \in served THEN stage[t] ELSE stage[u]]
  /\ state' = [u \in Threads |-> IF u \in served THEN 2 ELSE state[u]]
  /\ pending' = [pending EXCEPT ![c] = RemoveFirst(@, t)]
  /\ Return(t)
  /\ UNCHANGED <<stages, mutex, other>>

Deliver(t) ==
  LET c == cache[t] IN
  /\ pc[t] = "deliver" /\ mutex[c] = None
  /\ stage' = [u \in Threads |-> IF u = t THEN None
                                 ELSE IF u \in subscribed[t] THEN stage[t]
                                 ELSE stage[u]]
  /\ state' = [u \in Threads |-> IF u \in subscribed[t] THEN 2 ELSE state[u]]
  /\ pending' = [pending EXCEPT ![c] = RemoveFirst(@, t)]
  /\ Return(t)
  /\ UNCHANGED <<stages, mutex, other>>

Wait(t) ==
  /\ pc[t] = "wait" /\ state[t] # 1
  /\ stage' = [stage EXCEPT ![t] = None]
  /\ state' = [state EXCEPT ![t] = 0]
  /\ Return(t)
  /\ UNCHANGED <<implVars, mutex, other>>

(***************************************************************************)
(* What clients do to caches besides: some of it while requests run, all   *)
(* of it when none does.                                                   *)
(***************************************************************************)
May(operation) ==
  operation \in Racing \/ \A t \in Threads : pc[t] = "idle"

Erase(c, r) ==
  /\ May("erase")
  /\ mutex[c] = None /\ stages[c][r] > 0
  /\ stages' = [stages EXCEPT ![c][r] = @ - 1]
  /\ UNCHANGED <<pending, mutex, pc, callVars, other>>

Clear(c) ==          \* the stages go, and the pending requests with them
  /\ May("clear")
  /\ mutex[c] = None
  /\ stages' = [stages EXCEPT ![c] = [r \in Requests |-> 0]]
  /\ pending' = [pending EXCEPT ![c] = << >>]
  /\ UNCHANGED <<mutex, pc, callVars, other>>

(* The copy is made under one mutex and swapped in under the other; nobody *)
(* else sees it between the two.                                           *)
Assign(c, d) ==
  /\ May("assign")
  /\ c # d /\ mutex[c] = None /\ mutex[d] = None
  /\ stages' = [stages EXCEPT ![c] = stages[d]]
  /\ pending' = [pending EXCEPT ![c] = pending[d]]
  /\ UNCHANGED <<mutex, pc, callVars, other>>

BeginSwap(t) ==      \* the lock of this
  /\ May("swap")
  /\ pc[t] = "idle"
  /\ \E c, d \in Caches :
       /\ c # d /\ mutex[c] = None
       /\ mutex' = [mutex EXCEPT ![c] = t]
       /\ cache' = [cache EXCEPT ![t] = c]
       /\ other' = [other EXCEPT ![t] = d]
  /\ Goto(t, "swap")
  /\ UNCHANGED <<implVars, want, stage, state, subscribed>>

EndSwap(t) ==        \* and that of other
  LET c == cache[t]
      d == other[t] IN
  /\ pc[t] = "swap" /\ mutex[d] = None
  /\ stages' = [stages EXCEPT ![c] = stages[d], ![d] = stages[c]]
  /\ pending' = [pending EXCEPT ![c] = pending[d], ![d] = pending[c]]
  /\ mutex' = [mutex EXCEPT ![c] = None]
  /\ other' = [other EXCEPT ![t] = None]
  /\ Return(t)
  /\ UNCHANGED <<stage, state>>

Proceed(t) ==
  \/ FindStage(t) \/ Subscribe(t) \/ BecomePending(t)
  \/ Manufacture(t) \/ Insert(t) \/ Deliver(t) \/ Wait(t)
  \/ EndSwap(t)

Next ==
  \/ \E t \in Threads : Call(t) \/ Proceed(t) \/ BeginSwap(t)
  \/ \E c \in Caches : Clear(c) \/ \E r \in Requests : Erase(c, r)
  \/ \E c, d \in Caches : Assign(c, d)

Spec == Init /\ [][Next]_vars

-----------------------------------------------------------------------------
(***************************************************************************)
(* "There is no race and the stage is created only once": of what one      *)
(* request asks for there is at most one stage in a cache or in the making *)
(* for it, and a thread gets a stage of what it has asked for.             *)
(***************************************************************************)
Making(c, r) ==
  {t \in Threads : cache[t] = c /\ want[t] = r /\ pc[t] \in {"manufacture", "insert"}}

CreatedOnce ==
  /\ \A c \in Caches, r \in Requests :
       Cardinality(Making(c, r)) + stages[c][r] <= 1
  /\ \A t \in Threads : stage[t] # None => <<want[t], stage[t]>> \in Satisfies

(***************************************************************************)
(* A thread that waits for another's request is subscribed to one that     *)
(* still runs, or has its stage or its failure: no wakeup is lost.         *)
(***************************************************************************)
WaitersAreServed ==
  \A t \in Threads : pc[t] = "wait" /\ state[t] # 2 =>
    /\ state[t] = 1
    /\ \E u \in Threads : /\ pc[u] \in {"manufacture", "insert", "deliver"}
                         /\ t \in subscribed[u] /\ <<want[t], want[u]>> \in Satisfies

(***************************************************************************)
(* What the steps preserve together, as long as clients race with requests *)
(* by erasing stages only.  A pending request is one that runs, for this   *)
(* cache: others subscribe to it, and it lives on the stack of its thread. *)
(***************************************************************************)
Running == {t \in Threads : pc[t] \in {"manufacture", "insert", "deliver"}}

PendingRequestsRun ==
  /\ \A c \in Caches : \A i \in DOMAIN pending[c] :
       /\ pending[c][i] \in Running /\ cache[pending[c][i]] = c
       /\ \A j \in DOMAIN pending[c] : pending[c][i] = pending[c][j] => i = j
  /\ \A t \in Running : \E i \in DOMAIN pending[cache[t]] : pending[cache[t]][i] = t

(* A thread is in the call that its variables describe, and alone in a swap. *)
CallsAreWhole ==
  \A t \in Threads :
    /\ cache[t] = None <=> pc[t] = "idle"
    /\ want[t] = None <=> pc[t] \in {"idle", "swap"}
    /\ pc[t] = "swap" =>
         other[t] \in Caches /\ \A u \in Threads \ {t} : pc[u] = "idle"

(* Of what one request asks for there is a stage or one in the making.     *)
MadeOnce ==
  \A c \in Caches, r \in Requests :
    /\ stages[c][r] <= 1
    /\ \A t \in Making(c, r) : stages[c][r] = 0 /\ \A u \in Making(c, r) : t = u

(* Subscribed mailboxes are of waiting threads that the request satisfies. *)
SubscribersWait ==
  /\ \A u \in Threads : \A t \in subscribed[u] :
       /\ u \in Running /\ pc[t] = "wait" /\ state[t] = 1
       /\ <<want[t], want[u]>> \in Satisfies
  /\ \A t \in Threads :
       IF pc[t] # "wait" THEN state[t] = 0
       ELSE \/ state[t] = 2
            \/ state[t] = 1 /\ \E u \in Threads : t \in subscribed[u]

(* To one request only.                                                    *)
SubscribedOnce ==
  \A u, v \in Threads : u # v => subscribed[u] \cap subscribed[v] = {}

(* A stage is what its thread has asked for.                               *)
StagesAreWanted ==
  \A t \in Threads :
    /\ pc[t] = "insert" => stage[t] # None
    /\ stage[t] # None =>
         \/ pc[t] \in {"insert", "deliver"} /\ stage[t] = want[t]
         \/ pc[t] = "wait" /\ state[t] = 2 /\ <<want[t], stage[t]>> \in Satisfies

IInv ==
  /\ TypeOK /\ PendingRequestsRun /\ CallsAreWhole /\ MadeOnce
  /\ SubscribersWait /\ SubscribedOnce /\ StagesAreWanted
=============================================================================
