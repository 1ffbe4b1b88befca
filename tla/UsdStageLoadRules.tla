-------------------------- MODULE UsdStageLoadRules --------------------------
(***************************************************************************)
(* UsdStageLoadRules: which payloads a stage loads.  A rule for a path is  *)
(* about the prims below it that no deeper rule is about; `rules' is the   *)
(* sorted vector, as a function of the paths that have a rule.  The order  *)
(* of paths matters only in that what is below a path follows it.          *)
(***************************************************************************)
EXTENDS Naturals, FiniteSets, SequencesExt

CONSTANTS
  Paths,      \* paths that may have rules, each with its parents: sequences of positive names
  Batches     \* the sets of paths given to LoadAndUnload

LoadRulesAssumption ==
  /\ <<>> \in Paths /\ Paths \subseteq Seq(Nat \ {0})
  /\ \A p \in Paths \ {<<>>} : Front(p) \in Paths
  /\ Batches \subseteq SUBSET Paths

VARIABLES
  rules,     \* _rules
  asked      \* history: the paths that the calls asked to be loaded

RuleKinds == {"All", "Only", "None"}

(* Every path stands for its prim, and one child for all that is below it  *)
(* and that no rule names.                                                 *)
Scope == Paths \cup {Append(p, 0) : p \in Paths}

Below(paths, p)  == {q \in paths : IsPrefix(p, q)}
Above(paths, p)  == {q \in paths : IsPrefix(q, p)}
Longest(paths)   == CHOOSE p \in paths : \A q \in paths : Len(q) =< Len(p)
StrictlyBelow(r, p) == Below(DOMAIN r, p) \ {p}

(* The rules below p that are below no other of them.                      *)
NextBelow(r, p) ==
  {q \in StrictlyBelow(r, p) : Above(StrictlyBelow(r, p), q) = {q}}

GetEffectiveRuleForPath(r, p) ==
  LET above   == Above(DOMAIN r, p)
      closest == Longest(above)
  IN  CASE above = {} \/ r[closest] = "All"     -> "All"
        [] closest = p /\ r[closest] = "Only"   -> "Only"
        [] OTHER -> IF \E q \in NextBelow(r, p) : r[q] # "None" THEN "Only" ELSE "None"

IsLoaded(r, p) == GetEffectiveRuleForPath(r, p) # "None"

IsLoadedWithAllDescendants(r, p) ==
  LET above == Above(DOMAIN r, p)
  IN  /\ above # {} => r[Longest(above)] = "All"
      /\ \A q \in Below(DOMAIN r, p) : r[q] = "All"

IsLoadedWithNoDescendants(r, p) ==
  /\ p \in DOMAIN r /\ r[p] = "Only"
  /\ \A q \in StrictlyBelow(r, p) : r[q] = "None"

(* Mutant: the rules below are kept.                                       *)
ReplacedAlone(r, S, rule) ==
  [q \in DOMAIN r \cup S |-> IF q \in S THEN rule ELSE r[q]]

(* Each path of S in turn gets the rule, in place of those below it.       *)
Replaced(r, S, rule) ==
  LET rest == {q \in DOMAIN r : Above(S, q) = {}}
  IN  [q \in rest \cup S |-> IF q \in S THEN rule ELSE r[q]]

(* A rule goes when the closest one above that stays is the same; above    *)
(* all of them everything is loaded.                                       *)
Minimized(r) ==
  LET s == IF <<>> \in DOMAIN r /\ r[<<>>] = "All"
             THEN Restrict(r, DOMAIN r \ {<<>>}) ELSE r
      kept[p \in DOMAIN s] ==
        LET above == {q \in Above(DOMAIN s, p) \ {p} : kept[q]}
        IN  s[p] # (IF above = {} THEN "All" ELSE s[Longest(above)])
  IN  IF Cardinality(DOMAIN s) =< 1 THEN s ELSE Restrict(s, {p \in DOMAIN s : kept[p]})

(* What a call asks of the paths it is about.                              *)
Asks(about, p, rule) ==
  asked' = (asked \ about) \cup {q \in about : rule = "All" \/ (rule = "Only" /\ q = p)}

(* The paths a rule for p is about among other rules.                      *)
ClosestTo(r, p) == {q \in Below(Scope, p) : Longest(Above(DOMAIN r \cup {p}, q)) = p}

Said(r) ==
  LET loaded(q) == LET above == Above(DOMAIN r, q)
                   IN  \/ above = {} \/ r[Longest(above)] = "All"
                       \/ q \in DOMAIN r /\ r[q] = "Only"
  IN  {q \in Scope : loaded(q)}

-----------------------------------------------------------------------------
LoadAll  == <<>>
LoadNone == [p \in {<<>>} |-> "None"]

(* How the stage is opened.                                                *)
Init == rules \in {LoadAll, LoadNone} /\ asked = Said(rules)

LoadWithDescendants(p) ==
  rules' = Replaced(rules, {p}, "All") /\ Asks(Below(Scope, p), p, "All")

LoadWithoutDescendants(p) ==
  rules' = Replaced(rules, {p}, "Only") /\ Asks(Below(Scope, p), p, "Only")

Unload(p) ==
  rules' = Replaced(rules, {p}, "None") /\ Asks(Below(Scope, p), p, "None")

LoadAndUnload(loadSet, unloadSet, policy) ==
  LET unloaded == UNION {Below(Scope, p) : p \in unloadSet}
      below    == UNION {Below(Scope, p) : p \in loadSet}
  IN  /\ rules' = Replaced(Replaced(rules, unloadSet, "None"), loadSet, policy)
      /\ asked' = ((asked \ unloaded) \ below) \cup
                    (IF policy = "All" THEN below ELSE loadSet)

AddRule(p, rule) ==
  /\ rules' = [q \in DOMAIN rules \cup {p} |-> IF q = p THEN rule ELSE rules[q]]
  /\ Asks(ClosestTo(rules, p), p, rule)

SetRules(new) == rules' = new /\ asked' = Said(new)

(* What the remaining rules say may differ from what the rules said.       *)
Minimize == rules' = Minimized(rules) /\ asked' = Said(rules')

Next ==
  \/ \E p \in Paths :
       \/ LoadWithDescendants(p) \/ LoadWithoutDescendants(p) \/ Unload(p)
       \/ \E rule \in RuleKinds : AddRule(p, rule)
  \/ \E loadSet, unloadSet \in Batches, policy \in {"All", "Only"} :
       LoadAndUnload(loadSet, unloadSet, policy)
  \/ \E new \in {LoadAll, LoadNone} : SetRules(new)
  \/ Minimize

Spec == Init /\ [][Next]_<<rules, asked>>

(* The calls of a stage about one path, which leave rules alone that       *)
(* already have the desired effect.                                        *)
IsNoOp(p, rule) ==
  CASE rule = "All"  -> IsLoadedWithAllDescendants(rules, p)
    [] rule = "Only" -> IsLoadedWithNoDescendants(rules, p)
    [] rule = "None" -> GetEffectiveRuleForPath(rules, p) = "None"

StageLoad(p) ==
  \/ ~IsNoOp(p, "All") /\ LoadWithDescendants(p)
  \/ ~IsNoOp(p, "Only") /\ LoadWithoutDescendants(p)

StageUnload(p) == ~IsNoOp(p, "None") /\ Unload(p)

StageSpec ==
  Init /\ [][\E p \in Paths : StageLoad(p) \/ StageUnload(p)]_<<rules, asked>>

-----------------------------------------------------------------------------
(* After any calls, what was asked for is loaded, what is loaded was asked *)
(* for or is above what was, and the two queries that let the stage skip a *)
(* call answer for everything below a path.                                *)
LoadedAsAsked ==
  \A p \in Scope :
    LET below == Below(Scope, p)
    IN  /\ p \in asked => IsLoaded(rules, p)
        /\ IsLoaded(rules, p) => below \cap asked # {}
        /\ IsLoadedWithAllDescendants(rules, p) <=> below \subseteq asked
        /\ IsLoadedWithNoDescendants(rules, p) =>
             IsLoaded(rules, p) /\ \A q \in below \ {p} : ~IsLoaded(rules, q)

(* Loading a path loads the prims above it too: "path, all its ancestors,  *)
(* and all its descendants shall be loaded".                               *)
LoadsAncestors ==
  [][\A p \in Paths :
       LoadWithDescendants(p) =>
         \A q \in Above(Paths, p) \ {<<>>} : IsLoaded(rules', q)]_rules
=============================================================================
