--------------------------- MODULE TfTokenRegistry ---------------------------
(***************************************************************************)
(* TfToken and Tf_TokenRegistry.  A token points to the registry's one     *)
(* representation of its string and remembers, in a bit beside the         *)
(* pointer, whether it believes the representation to be counted.  The     *)
(* registry looks up, inserts and erases under the lock of a set of        *)
(* strings; a token that is copied or destroyed reads and changes the      *)
(* count outside it.                                                       *)
(*                                                                         *)
(* What a lock protects is one step, and so is each access outside it.     *)
(* Threads do not appear: a token object is used by one thread at a time,  *)
(* but may be copied from while others copy from it.  Copy assignment is a *)
(* copy, the destruction of the old value and a move.                      *)
(***************************************************************************)
EXTENDS Naturals, FiniteSets

CONSTANTS
  Strings,
  Tokens,      \* the token objects
  Reps,        \* the addresses of representations
  None         \* no token, representation or string

(* Of the constants; the modules that give them values assume it.          *)
TokenAssumption ==
  /\ None \notin Tokens /\ None \notin Reps /\ None \notin Strings
  /\ IsFiniteSet(Tokens)

VARIABLES
  table,       \* the sets of the registry: string -> representation
  str,         \* the string of an allocated representation
  refCount,    \* _refCount
  isCounted,   \* _isCounted
  rep,         \* each token's pointer
  bit,         \* each token's bit: it believes its rep is counted
  text,        \* the string each token was made from
  pc,          \* where the copy or the destruction of a token is
  source       \* what a token is being copied from

repVars == <<table, str, refCount, isCounted>>
vars == <<table, str, refCount, isCounted, rep, bit, text, pc, source>>

Labels == {"idle", "addRef", "increment", "removeRef", "load", "decrement",
           "destroy"}

TypeOK ==
  /\ table \in [Strings -> Reps \cup {None}]
  /\ str \in [Reps -> Strings \cup {None}]
  /\ refCount \in [Reps -> Nat]
  /\ isCounted \in [Reps -> BOOLEAN]
  /\ rep \in [Tokens -> Reps \cup {None}]
  /\ bit \in [Tokens -> BOOLEAN]
  /\ text \in [Tokens -> Strings \cup {None}]
  /\ pc \in [Tokens -> Labels]
  /\ source \in [Tokens -> Tokens \cup {None}]

Init ==
  /\ table = [s \in Strings |-> None]
  /\ str = [r \in Reps |-> None]
  /\ refCount = [r \in Reps |-> 0]
  /\ isCounted = [r \in Reps |-> FALSE]
  /\ rep = [t \in Tokens |-> None]
  /\ bit = [t \in Tokens |-> FALSE]
  /\ text = [t \in Tokens |-> None]
  /\ pc = [t \in Tokens |-> "idle"]
  /\ source = [t \in Tokens |-> None]

Empty(t) == pc[t] = "idle" /\ rep[t] = None
Held(t)  == pc[t] = "idle" /\ rep[t] # None

(* No copy of t is under way, so t may be moved from or destroyed. *)
NotCopied(t) == \A u \in Tokens : source[u] # t

Point(t, r, counted, s) ==
  /\ rep' = [rep EXCEPT ![t] = r]
  /\ bit' = [bit EXCEPT ![t] = counted]
  /\ text' = [text EXCEPT ![t] = s]

Goto(t, label) == pc' = [pc EXCEPT ![t] = label]

(***************************************************************************)
(* TfToken(s) and TfToken(s, Immortal): _GetPtrImpl, all under the lock.   *)
(***************************************************************************)
GetCounted(t, s) ==       \* found, and counted
  LET r == table[s] IN
  /\ Empty(t) /\ r # None /\ isCounted[r]
  /\ refCount' = [refCount EXCEPT ![r] = @ + 1]
  /\ Point(t, r, TRUE, s)
  /\ UNCHANGED <<table, str, isCounted, pc, source>>

MakeImmortal(t, s) ==     \* found, and no longer counted
  LET r == table[s] IN
  /\ Empty(t) /\ r # None /\ isCounted[r]
  /\ isCounted' = [isCounted EXCEPT ![r] = FALSE]
  /\ Point(t, r, FALSE, s)
  /\ UNCHANGED <<table, str, refCount, pc, source>>

GetImmortal(t, s) ==      \* found, and not counted
  /\ Empty(t) /\ table[s] # None /\ ~isCounted[table[s]]
  /\ Point(t, table[s], FALSE, s)
  /\ UNCHANGED <<repVars, pc, source>>

Insert(t, s, immortal) == \* not found
  /\ Empty(t) /\ table[s] = None
  /\ \E r \in Reps :
       /\ str[r] = None
       /\ str' = [str EXCEPT ![r] = s]
       /\ table' = [table EXCEPT ![s] = r]
       /\ isCounted' = [isCounted EXCEPT ![r] = ~immortal]
       /\ refCount' = [refCount EXCEPT ![r] = IF immortal THEN @ ELSE 1]
       /\ Point(t, r, ~immortal, s)
  /\ UNCHANGED <<pc, source>>

(* TfToken::Find(s) is GetCounted or GetImmortal, or finds nothing.        *)

(***************************************************************************)
(* The copy constructor takes the pointer and the bit, and _AddRef counts  *)
(* if the bit and the representation say so: IncrementIfCounted reads one  *)
(* and adds to the other outside the lock.                                 *)
(***************************************************************************)
Copy(t, u) ==
  /\ Empty(t) /\ Held(u)
  /\ Point(t, rep[u], bit[u], text[u])
  /\ IF bit[u]
     THEN Goto(t, "addRef") /\ source' = [source EXCEPT ![t] = u]
     ELSE UNCHANGED <<pc, source>>
  /\ UNCHANGED repVars

AddRefNotCounted(t) ==    \* the belief is wrong
  /\ pc[t] = "addRef" /\ ~isCounted[rep[t]]
  /\ bit' = [bit EXCEPT ![t] = FALSE]
  /\ Goto(t, "idle") /\ source' = [source EXCEPT ![t] = None]
  /\ UNCHANGED <<repVars, rep, text>>

AddRefCounted(t) ==
  /\ pc[t] = "addRef" /\ isCounted[rep[t]]
  /\ Goto(t, "increment")
  /\ UNCHANGED <<repVars, rep, bit, text, source>>

Increment(t) ==
  /\ pc[t] = "increment"
  /\ refCount' = [refCount EXCEPT ![rep[t]] = @ + 1]
  /\ Goto(t, "idle") /\ source' = [source EXCEPT ![t] = None]
  /\ UNCHANGED <<table, str, isCounted, rep, bit, text>>

(* The move constructor: rhs becomes the empty token.                      *)
Move(t, u) ==
  /\ Empty(t) /\ Held(u) /\ NotCopied(u)
  /\ rep' = [rep EXCEPT ![t] = rep[u], ![u] = None]
  /\ bit' = [bit EXCEPT ![t] = bit[u], ![u] = FALSE]
  /\ text' = [text EXCEPT ![t] = text[u], ![u] = None]
  /\ UNCHANGED <<repVars, pc, source>>

(***************************************************************************)
(* The destructor: _RemoveRef, and then the token is gone.                 *)
(***************************************************************************)
Gone(t) == Point(t, None, FALSE, None) /\ Goto(t, "idle")

Destruct(t) ==
  /\ Held(t) /\ NotCopied(t)
  /\ IF bit[t]
     THEN Goto(t, "removeRef") /\ UNCHANGED <<rep, bit, text>>
     ELSE Gone(t)
  /\ UNCHANGED <<repVars, source>>

RemoveRefNotCounted(t) ==
  /\ pc[t] = "removeRef" /\ ~isCounted[rep[t]]
  /\ Gone(t)
  /\ UNCHANGED <<repVars, source>>

RemoveRefCounted(t) ==
  /\ pc[t] = "removeRef" /\ isCounted[rep[t]]
  /\ Goto(t, "load")
  /\ UNCHANGED <<repVars, rep, bit, text, source>>

LoadCount(t) ==           \* a count of one is likely to need the lock
  /\ pc[t] = "load"
  /\ Goto(t, IF refCount[rep[t]] = 1 THEN "destroy" ELSE "decrement")
  /\ UNCHANGED <<repVars, rep, bit, text, source>>

Decrement(t) ==           \* deliberately racy: this may reach zero
  /\ pc[t] = "decrement"
  /\ refCount' = [refCount EXCEPT ![rep[t]] = @ - 1]
  /\ Gone(t)
  /\ UNCHANGED <<table, str, isCounted, source>>

(* Mutant: the count that was loaded without the lock is believed.         *)
DestroyRep(t) ==
  LET r == rep[t] IN
  /\ pc[t] = "destroy"
  /\ IF ~isCounted[r] THEN UNCHANGED repVars
     ELSE /\ refCount' = [refCount EXCEPT ![r] = 0]
          /\ table' = [table EXCEPT ![str[r]] = None]
          /\ str' = [str EXCEPT ![r] = None]
          /\ UNCHANGED isCounted
  /\ Gone(t)
  /\ UNCHANGED source

(* _PossiblyDestroyRep, all under the lock.                                *)
PossiblyDestroyRep(t) ==
  LET r == rep[t] IN
  /\ pc[t] = "destroy"
  /\ IF ~isCounted[r] THEN UNCHANGED repVars
     ELSE /\ refCount' = [refCount EXCEPT ![r] = @ - 1]
          /\ UNCHANGED isCounted
          /\ IF refCount[r] # 1 THEN UNCHANGED <<table, str>>
             ELSE /\ table' = [table EXCEPT ![str[r]] = None]
                  /\ str' = [str EXCEPT ![r] = None]
  /\ Gone(t)
  /\ UNCHANGED source

Step(t) ==
  \/ \E s \in Strings :
       \/ GetCounted(t, s)
       \/ MakeImmortal(t, s)
       \/ GetImmortal(t, s)
       \/ \E immortal \in BOOLEAN : Insert(t, s, immortal)
  \/ \E u \in Tokens : Copy(t, u) \/ Move(t, u)
  \/ AddRefNotCounted(t) \/ AddRefCounted(t) \/ Increment(t)
  \/ Destruct(t)
  \/ RemoveRefNotCounted(t) \/ RemoveRefCounted(t)
  \/ LoadCount(t) \/ Decrement(t) \/ PossiblyDestroyRep(t)

Next == \E t \in Tokens : Step(t)

Spec == Init /\ [][Next]_vars

-----------------------------------------------------------------------------
(***************************************************************************)
(* Interning.  Every token, also one that is being copied or destroyed,    *)
(* points to the representation the registry has for its string: equal     *)
(* strings have equal pointers, and no pointer dangles.  A count that      *)
(* reaches zero outside the lock, a lookup between that and the erasure,   *)
(* and a representation that becomes immortal meanwhile do not break it.   *)
(***************************************************************************)
Interned ==
  \A t \in Tokens : rep[t] # None =>
    table[text[t]] = rep[t] /\ str[rep[t]] = text[t]

(***************************************************************************)
(* A counted representation has exactly the count of the tokens that have  *)
(* counted themselves and not begun to be uncounted.                       *)
(***************************************************************************)
Counting(t) == pc[t] \notin {"addRef", "increment"}

CountIsExact ==
  \A r \in Reps :
    str[r] # None /\ isCounted[r] =>
      refCount[r] = Cardinality({t \in Tokens : rep[t] = r /\ Counting(t)})

(***************************************************************************)
(* The registry's data are those of its tokens.                            *)
(***************************************************************************)
RepsAreExact == TypeOK /\ Interned /\ CountIsExact

(***************************************************************************)
(* Why: who is being copied holds on to the representation, a token that   *)
(* does not believe in a count is right, and a representation that is no   *)
(* longer counted has still as many counts as tokens that might remove     *)
(* theirs.                                                                 *)
(***************************************************************************)
SourcesHold ==
  \A t \in Tokens :
    /\ pc[t] # "idle" => rep[t] # None /\ bit[t]
    /\ source[t] # None <=> ~Counting(t)
    /\ source[t] # None =>
         Held(source[t]) /\ bit[source[t]] /\ rep[source[t]] = rep[t]

BeliefsAreSafe ==
  \A t \in Tokens : rep[t] # None /\ ~bit[t] => ~isCounted[rep[t]]

EntriesAreReps ==
  /\ \A s \in Strings : table[s] # None => str[table[s]] = s
  /\ \A t \in Tokens : rep[t] # None => text[t] # None

Believers(r) == {t \in Tokens : rep[t] = r /\ bit[t] /\ Counting(t)}

CountsCover ==
  \A r \in Reps : str[r] # None =>
    /\ refCount[r] >= Cardinality(Believers(r))
    /\ isCounted[r] => refCount[r] = Cardinality(Believers(r))

IInv ==    \* inductive
  /\ TokenAssumption /\ TypeOK /\ Interned
  /\ SourcesHold /\ BeliefsAreSafe /\ EntriesAreReps /\ CountsCover

(***************************************************************************)
(* The representations of a string are shared: while tokens of the string  *)
(* are in use there is one, the same for all of them, however they come    *)
(* and go.                                                                 *)
(***************************************************************************)
Sharing == INSTANCE SharedObjects WITH
  Users <- Tokens, Objects <- Reps, Keys <- Strings,
  ref <- rep,
  key <- [r \in Reps |->
            IF \E t \in Tokens : rep[t] = r THEN str[r] ELSE None]

ImplementsSharing == Sharing!Spec

(***************************************************************************)
(* Immortal tokens stay: the representation of a string that was made      *)
(* immortal is never erased, whoever still believes in its count.          *)
(***************************************************************************)
ImmortalStays ==
  [][\A s \in Strings : table[s] # None /\ ~isCounted[table[s]]
                          => table'[s] = table[s]]_vars
=============================================================================
