------------------------- MODULE StageContents_proofs -------------------------
(***************************************************************************)
(* Proofs about what a stage is made of.                                   *)
(*                                                                         *)
(* UsdStageLoadRules: rules added in batches and in any order load what    *)
(* was asked for, for any paths.                                           *)
(*                                                                         *)
(* UsdStagePopulationMask: masks set, united and intersected in any order  *)
(* answer every query for exactly the subtrees wanted, for any paths.      *)
(*                                                                         *)
(* SdfListOp: composing opinions in any order is applying them in turn.    *)
(***************************************************************************)
EXTENDS StageContents, StageData_proofs

-----------------------------------------------------------------------------
(***************************************************************************)
(* The load rules.                                                         *)
(***************************************************************************)

LEMMA RuleScope ==
  /\ RulePaths \subseteq RU!Scope
  /\ \A p \in RU!Scope : p \in Seq(Nat)
  /\ \A p \in RulePaths : Append(p, 0) \in RU!Scope
  /\ \A p \in RulePaths : Append(p, 0) \notin RulePaths
<1>1. RulePaths \subseteq Seq(Nat \ {0})
  BY ContentsAssumptions DEF RU!LoadRulesAssumption
<1>2. \A p \in RulePaths : p \in Seq(Nat \ {0}) /\ p \in Seq(Nat) /\ Append(p, 0) \in Seq(Nat)
  BY <1>1
<1>3. ASSUME NEW p \in RulePaths, Append(p, 0) \in RulePaths PROVE FALSE
  <2>1. Append(p, 0) \in Seq(Nat \ {0})
    BY <1>2, <1>3
  <2>2. p \in Seq(Nat)
    BY <1>2
  <2>3. Len(Append(p, 0)) = Len(p) + 1 /\ Append(p, 0)[Len(p) + 1] = 0 /\ Len(p) \in Nat
    BY <2>2
  <2>4. PICK q : q = Append(p, 0)
    OBVIOUS
  <2>5. q[Len(q)] \in Nat \ {0}
    BY <2>1, <2>3, <2>4
  <2> QED  BY <2>3, <2>4, <2>5
<1> QED  BY <1>2, <1>3 DEF RU!Scope

(* Prefixes are ordered, and those of one path in a line.                  *)
LEMMA IsPrefixIs ==
  ASSUME NEW a \in Seq(Nat), NEW b \in Seq(Nat)
  PROVE  RU!IsPrefix(a, b) <=> Len(a) <= Len(b) /\ \A i \in 1..Len(a) : a[i] = b[i]
<1>1. ASSUME Len(a) <= Len(b)
      PROVE  SubSeq(b, 1, Len(a)) = a <=> \A i \in 1..Len(a) : a[i] = b[i]
  <2>1. /\ SubSeq(b, 1, Len(a)) \in Seq(Nat) /\ Len(SubSeq(b, 1, Len(a))) = Len(a)
        /\ \A i \in 1..Len(a) : SubSeq(b, 1, Len(a))[i] = b[i]
    <3>1. PICK n : n = Len(a)
      OBVIOUS
    <3>2. n \in Nat /\ n <= Len(b) /\ Len(b) \in Nat
      BY <1>1, <3>1
    <3>3. SubSeq(b, 1, n) \in Seq(Nat)
      BY <3>2
    <3>4. Len(SubSeq(b, 1, n)) = n
      BY <3>2
    <3>5. ASSUME NEW i \in 1..n PROVE SubSeq(b, 1, n)[i] = b[i]
      <4>1. SubSeq(b, 1, n)[i] = b[1 + i - 1]
        BY <3>2
      <4> QED  BY <3>2, <4>1
    <3> QED  BY <3>1, <3>3, <3>4, <3>5
  <2>2. PICK c : c = SubSeq(b, 1, Len(a))
    OBVIOUS
  <2>3. (\A i \in 1..Len(a) : c[i] = a[i]) => c = a
    BY <2>1, <2>2
  <2> QED  BY <2>1, <2>2, <2>3
<1>2. SubSeq(a, 1, Len(a)) = a
  OBVIOUS
<1> QED  BY <1>1, <1>2 DEF RU!IsPrefix

LEMMA PrefixOrder ==
  ASSUME NEW a \in Seq(Nat), NEW b \in Seq(Nat), NEW c \in Seq(Nat)
  PROVE  /\ RU!IsPrefix(a, a)
         /\ RU!IsPrefix(a, b) /\ RU!IsPrefix(b, c) => RU!IsPrefix(a, c)
         /\ RU!IsPrefix(a, b) /\ RU!IsPrefix(b, a) => a = b
         /\ RU!IsPrefix(a, c) /\ RU!IsPrefix(b, c) /\ Len(a) <= Len(b) => RU!IsPrefix(a, b)
<1>1. RU!IsPrefix(a, a)
  BY IsPrefixIs
<1>2. RU!IsPrefix(a, b) /\ RU!IsPrefix(b, c) => RU!IsPrefix(a, c)
  <2> SUFFICES ASSUME RU!IsPrefix(a, b), RU!IsPrefix(b, c) PROVE RU!IsPrefix(a, c)
    OBVIOUS
  <2>1. /\ Len(a) <= Len(b) /\ \A i \in 1..Len(a) : a[i] = b[i]
        /\ Len(b) <= Len(c) /\ \A i \in 1..Len(b) : b[i] = c[i]
    BY IsPrefixIs
  <2>2. Len(a) \in Nat /\ Len(b) \in Nat /\ Len(c) \in Nat
    OBVIOUS
  <2>3. Len(a) <= Len(c) /\ \A i \in 1..Len(a) : a[i] = c[i]
    BY <2>1, <2>2
  <2> QED  BY <2>3, IsPrefixIs
<1>3. RU!IsPrefix(a, b) /\ RU!IsPrefix(b, a) => a = b
  <2> SUFFICES ASSUME RU!IsPrefix(a, b), RU!IsPrefix(b, a) PROVE a = b
    OBVIOUS
  <2>1. /\ Len(a) <= Len(b) /\ \A i \in 1..Len(a) : a[i] = b[i]
        /\ Len(b) <= Len(a)
    BY IsPrefixIs
  <2>2. Len(a) \in Nat /\ Len(b) \in Nat
    OBVIOUS
  <2>3. Len(a) = Len(b)
    BY <2>1, <2>2
  <2>4. PICK n : n = Len(a)
    OBVIOUS
  <2>5. \A i \in 1..n : a[i] = b[i]
    BY <2>1, <2>4
  <2>6. a = [i \in 1..n |-> a[i]] /\ b = [i \in 1..n |-> b[i]]
    BY <2>3, <2>4
  <2>7. [i \in 1..n |-> a[i]] = [i \in 1..n |-> b[i]]
    BY <2>5
  <2> QED  BY <2>6, <2>7
<1>4. RU!IsPrefix(a, c) /\ RU!IsPrefix(b, c) /\ Len(a) <= Len(b) => RU!IsPrefix(a, b)
  BY IsPrefixIs
<1> QED  BY <1>1, <1>2, <1>3, <1>4

LEMMA LongestIs ==
  ASSUME NEW P \in SUBSET RulePaths, NEW x \in RU!Scope, RU!Above(P, x) # {}
  PROVE  /\ RU!Longest(RU!Above(P, x)) \in P
         /\ RU!IsPrefix(RU!Longest(RU!Above(P, x)), x)
         /\ \A a \in P : RU!IsPrefix(a, x) => RU!IsPrefix(a, RU!Longest(RU!Above(P, x)))
<1> DEFINE A == RU!Above(P, x)
           Less == {ss \in Nat \X Nat : ss[1] < ss[2]}
           Rests == {Len(x) - Len(a) : a \in A}
<1>1. x \in Seq(Nat) /\ \A a \in A : a \in Seq(Nat) /\ RU!IsPrefix(a, x) /\ a \in P
  BY RuleScope DEF RU!Above
<1>2. \A a \in A : Len(x) - Len(a) \in Nat
  BY <1>1, IsPrefixIs
<1>3. Rests \subseteq Nat /\ Rests # {}
  BY <1>2
<1>4. IsWellFoundedOn(Less, Nat)
  BY NatLessThanWellFounded DEF OpToRel
<1>5. PICK m \in Rests : \A n \in Rests : ~(<<n, m>> \in Less)
  BY <1>3, <1>4, WFMin
<1>6. PICK l \in A : m = Len(x) - Len(l)
  OBVIOUS
<1>7. \A a \in A : Len(a) <= Len(l)
  <2> SUFFICES ASSUME NEW a \in A PROVE Len(a) <= Len(l)
    OBVIOUS
  <2>1. Len(x) - Len(a) \in Rests
    OBVIOUS
  <2>2. ~(Len(x) - Len(a) < Len(x) - Len(l))
    BY <1>2, <1>5, <1>6, <2>1
  <2>3. Len(a) \in Nat /\ Len(l) \in Nat /\ Len(x) \in Nat
    BY <1>1
  <2> QED  BY <2>2, <2>3
<1>8. PICK c : c = RU!Longest(A)
  OBVIOUS
<1>9. c \in A /\ \A a \in A : Len(a) <= Len(c)
  BY <1>7, <1>8 DEF RU!Longest
<1>10. \A a \in A : RU!IsPrefix(a, c)
  BY <1>1, <1>9, PrefixOrder
<1>11. \A a \in P : RU!IsPrefix(a, x) => a \in A
  BY DEF RU!Above
<1> QED  BY <1>1, <1>8, <1>9, <1>10, <1>11

LEMMA LongestIsOnly ==
  ASSUME NEW P \in SUBSET RulePaths, NEW x \in RU!Scope, NEW c \in P, RU!IsPrefix(c, x),
         \A a \in P : RU!IsPrefix(a, x) => RU!IsPrefix(a, c)
  PROVE  RU!Above(P, x) # {} /\ RU!Longest(RU!Above(P, x)) = c
<1>1. c \in RU!Above(P, x)
  BY DEF RU!Above
<1>2. PICK d : d = RU!Longest(RU!Above(P, x))
  OBVIOUS
<1>3. d \in P /\ RU!IsPrefix(d, x) /\ RU!IsPrefix(c, d)
  BY <1>1, <1>2, LongestIs
<1>4. c \in Seq(Nat) /\ d \in Seq(Nat)
  BY <1>3, RuleScope
<1> QED  BY <1>1, <1>2, <1>3, <1>4, PrefixOrder

IsRules(r) == DOMAIN r \subseteq RulePaths /\ r \in [DOMAIN r -> RU!RuleKinds]

LEMMA SaidIs ==
  ASSUME NEW r, NEW x \in RU!Scope
  PROVE  x \in RU!Said(r) <=>
           \/ RU!Above(DOMAIN r, x) = {}
           \/ r[RU!Longest(RU!Above(DOMAIN r, x))] = "All"
           \/ x \in DOMAIN r /\ r[x] = "Only"
BY DEF RU!Said

(* A path that has a rule is the closest to itself, and to the child that  *)
(* stands for everything that no rule names.                               *)
LEMMA ClosestToItself ==
  ASSUME NEW r, IsRules(r), NEW p \in DOMAIN r
  PROVE  /\ p \in RU!Scope /\ p \in Seq(Nat) /\ Append(p, 0) \in RU!Below(RU!Scope, p)
         /\ Append(p, 0) \notin DOMAIN r
         /\ RU!Above(DOMAIN r, p) # {} /\ RU!Longest(RU!Above(DOMAIN r, p)) = p
         /\ RU!Above(DOMAIN r, Append(p, 0)) # {}
         /\ RU!Longest(RU!Above(DOMAIN r, Append(p, 0))) = p
<1>1. p \in RU!Scope /\ p \in RulePaths /\ p \in Seq(Nat)
  BY RuleScope DEF IsRules
<1>2. PICK x : x = Append(p, 0)
  OBVIOUS
<1>3. x \in RU!Scope /\ x \in Seq(Nat) /\ x \notin DOMAIN r
  BY <1>1, <1>2, RuleScope DEF IsRules
<1>4. Len(x) = Len(p) + 1 /\ (\A i \in 1..Len(p) : x[i] = p[i]) /\ Len(p) \in Nat
  BY <1>1, <1>2
<1>5. RU!IsPrefix(p, x)
  <2>1. Len(p) <= Len(x) /\ \A i \in 1..Len(p) : p[i] = x[i]
    BY <1>4
  <2> QED  BY <1>1, <1>3, <2>1, IsPrefixIs
<1>6. ASSUME NEW a \in DOMAIN r, RU!IsPrefix(a, x) PROVE RU!IsPrefix(a, p)
  <2>1. a \in Seq(Nat) /\ a # x
    BY <1>3, RuleScope DEF IsRules
  <2>2. Len(a) <= Len(x) /\ \A i \in 1..Len(a) : a[i] = x[i]
    BY <1>3, <1>6, <2>1, IsPrefixIs
  <2>3. Len(a) # Len(x)
    <3>1. ASSUME Len(a) = Len(x) PROVE a = x
      BY <1>3, <2>1, <2>2, <3>1
    <3> QED  BY <2>1, <3>1
  <2>4. Len(a) <= Len(p) /\ Len(a) \in Nat
    BY <1>4, <2>1, <2>2, <2>3
  <2> QED  BY <1>1, <1>3, <1>5, <1>6, <2>1, <2>4, PrefixOrder
<1>7. RU!IsPrefix(p, p)
  BY <1>1, PrefixOrder
<1>8. DOMAIN r \in SUBSET RulePaths
  BY DEF IsRules
<1> QED
  BY <1>1, <1>2, <1>3, <1>5, <1>6, <1>7, <1>8, LongestIsOnly DEF RU!Below

(* What the rules say is what the queries find.                            *)
LEMMA QueriesAnswer ==
  ASSUME IsRules(rules), asked = RU!Said(rules)
  PROVE  RU!LoadedAsAsked
<1> SUFFICES ASSUME NEW p \in RU!Scope
             PROVE  LET below == RU!Below(RU!Scope, p)
                    IN  /\ p \in asked => RU!IsLoaded(rules, p)
                        /\ RU!IsLoaded(rules, p) => below \cap asked # {}
                        /\ RU!IsLoadedWithAllDescendants(rules, p) <=> below \subseteq asked
                        /\ RU!IsLoadedWithNoDescendants(rules, p) =>
                             /\ RU!IsLoaded(rules, p)
                             /\ \A q \in below \ {p} : ~RU!IsLoaded(rules, q)
  BY DEF RU!LoadedAsAsked
<1> DEFINE below == RU!Below(RU!Scope, p)
<1>1. PICK r : r = rules
  OBVIOUS
<1>2. PICK D : D = DOMAIN r
  OBVIOUS
<1>3. D \in SUBSET RulePaths /\ IsRules(r) /\ \A d \in D : r[d] \in {"All", "Only", "None"}
  BY <1>1, <1>2 DEF IsRules, RU!RuleKinds
<1>4. p \in Seq(Nat) /\ p \in below
  BY RuleScope, PrefixOrder DEF RU!Below
<1>5. \A d \in D : d \in RU!Scope /\ d \in Seq(Nat)
  BY <1>3, RuleScope
<1>6. ASSUME NEW x \in RU!Scope
      PROVE  x \in asked <=> \/ RU!Above(D, x) = {}
                             \/ r[RU!Longest(RU!Above(D, x))] = "All"
                             \/ x \in D /\ r[x] = "Only"
  BY <1>1, <1>2, SaidIs
<1>7. p \in asked => RU!IsLoaded(rules, p)
  <2> SUFFICES ASSUME p \in asked PROVE RU!IsLoaded(r, p)
    BY <1>1
  <2>1. CASE RU!Above(D, p) = {} \/ r[RU!Longest(RU!Above(D, p))] = "All"
    BY <1>2, <2>1 DEF RU!IsLoaded, RU!GetEffectiveRuleForPath
  <2>2. CASE p \in D /\ r[p] = "Only"
    <3>1. RU!Longest(RU!Above(D, p)) = p
      BY <1>2, <1>3, <2>2, ClosestToItself
    <3> QED  BY <1>2, <2>2, <3>1 DEF RU!IsLoaded, RU!GetEffectiveRuleForPath
  <2> QED  BY <1>6, <2>1, <2>2
<1>8. RU!IsLoaded(rules, p) => below \cap asked # {}
  <2> SUFFICES ASSUME RU!IsLoaded(r, p) PROVE \E q \in below : q \in asked
    BY <1>1
  <2>1. CASE RU!Above(D, p) = {} \/ r[RU!Longest(RU!Above(D, p))] = "All"
    BY <1>4, <1>6, <2>1
  <2>2. CASE /\ RU!Above(D, p) # {} /\ RU!Longest(RU!Above(D, p)) = p
             /\ r[RU!Longest(RU!Above(D, p))] = "Only"
    <3>1. p \in D
      BY <1>3, <2>2, LongestIs
    <3> QED  BY <1>4, <1>6, <2>2, <3>1
  <2>3. CASE /\ RU!Above(D, p) # {}
             /\ r[RU!Longest(RU!Above(D, p))] # "All"
             /\ ~(RU!Longest(RU!Above(D, p)) = p /\ r[RU!Longest(RU!Above(D, p))] = "Only")
    <3>1. \E q \in RU!NextBelow(r, p) : r[q] # "None"
      BY <1>2, <2>3 DEF RU!IsLoaded, RU!GetEffectiveRuleForPath
    <3>2. PICK q \in D : RU!IsPrefix(p, q) /\ r[q] # "None"
      BY <1>2, <3>1 DEF RU!NextBelow, RU!StrictlyBelow, RU!Below
    <3>3. RU!Longest(RU!Above(D, q)) = q /\ q \in RU!Scope
      BY <1>2, <1>3, ClosestToItself
    <3>4. q \in asked
      BY <1>3, <1>6, <3>2, <3>3
    <3> QED  BY <3>2, <3>3, <3>4 DEF RU!Below
  <2> QED  BY <2>1, <2>2, <2>3
<1>9. RU!IsLoadedWithAllDescendants(rules, p) => below \subseteq asked
  <2> SUFFICES ASSUME RU!IsLoadedWithAllDescendants(r, p), NEW x \in RU!Scope,
                      RU!IsPrefix(p, x), RU!Above(D, x) # {}
               PROVE  r[RU!Longest(RU!Above(D, x))] = "All"
    BY <1>1, <1>6 DEF RU!Below
  <2>1. PICK c : c = RU!Longest(RU!Above(D, x))
    OBVIOUS
  <2>2. c \in D /\ RU!IsPrefix(c, x) /\ \A a \in D : RU!IsPrefix(a, x) => RU!IsPrefix(a, c)
    BY <1>3, <2>1, LongestIs
  <2>3. c \in Seq(Nat) /\ x \in Seq(Nat)
    BY <1>5, <2>2, RuleScope
  <2>4. CASE RU!IsPrefix(p, c)
    BY <1>2, <2>1, <2>2, <2>4 DEF RU!IsLoadedWithAllDescendants, RU!Below
  <2>5. CASE RU!IsPrefix(c, p)
    <3>1. RU!Above(D, p) # {} /\ RU!Longest(RU!Above(D, p)) = c
      <4>1. ASSUME NEW a \in D, RU!IsPrefix(a, p) PROVE RU!IsPrefix(a, c)
        <5>1. RU!IsPrefix(a, x)
          BY <1>4, <1>5, <2>3, <4>1, PrefixOrder
        <5> QED  BY <2>2, <5>1
      <4> QED  BY <1>3, <2>2, <2>5, <4>1, LongestIsOnly
    <3> QED  BY <1>2, <2>1, <3>1 DEF RU!IsLoadedWithAllDescendants
  <2>6. RU!IsPrefix(p, c) \/ RU!IsPrefix(c, p)
    <3>1. Len(p) \in Nat /\ Len(c) \in Nat
      BY <1>4, <2>3
    <3>2. Len(p) <= Len(c) \/ Len(c) <= Len(p)
      BY <3>1
    <3> QED  BY <1>4, <2>2, <2>3, <3>2, PrefixOrder
  <2> QED  BY <2>1, <2>4, <2>5, <2>6
<1>10. below \subseteq asked => RU!IsLoadedWithAllDescendants(rules, p)
  <2> SUFFICES ASSUME below \subseteq asked
               PROVE  RU!IsLoadedWithAllDescendants(r, p)
    BY <1>1
  <2>1. ASSUME NEW q \in D, RU!IsPrefix(p, q) PROVE r[q] = "All"
    <3>1. PICK x : x = Append(q, 0)
      OBVIOUS
    <3>2. /\ x \in RU!Scope /\ RU!IsPrefix(q, x) /\ x \notin D
          /\ RU!Above(D, x) # {} /\ RU!Longest(RU!Above(D, x)) = q
      BY <1>2, <1>3, <3>1, ClosestToItself DEF RU!Below
    <3>3. x \in Seq(Nat) /\ q \in Seq(Nat)
      BY <1>5, <3>2, RuleScope
    <3>4. x \in asked
      BY <1>4, <2>1, <3>2, <3>3, PrefixOrder DEF RU!Below
    <3> QED  BY <1>6, <3>2, <3>4
  <2>2. RU!Above(D, p) # {} => r[RU!Longest(RU!Above(D, p))] = "All"
    <3>1. CASE p \in D
      <4>1. RU!Longest(RU!Above(D, p)) = p
        BY <1>2, <1>3, <3>1, ClosestToItself
      <4> QED  BY <1>4, <2>1, <3>1, <4>1, PrefixOrder
    <3>2. CASE p \notin D
      BY <1>4, <1>6, <3>2
    <3> QED  BY <3>1, <3>2
  <2> QED  BY <1>2, <2>1, <2>2 DEF RU!IsLoadedWithAllDescendants, RU!Below
<1>11. ASSUME RU!IsLoadedWithNoDescendants(r, p)
       PROVE  RU!IsLoaded(r, p) /\ \A q \in below \ {p} : ~RU!IsLoaded(r, q)
  <2>1. /\ p \in D /\ r[p] = "Only"
        /\ \A q \in D : RU!IsPrefix(p, q) /\ q # p => r[q] = "None"
    BY <1>2, <1>11 DEF RU!IsLoadedWithNoDescendants, RU!StrictlyBelow, RU!Below
  <2>2. RU!Longest(RU!Above(D, p)) = p /\ RU!Above(D, p) # {}
    BY <1>2, <1>3, <2>1, ClosestToItself
  <2>3. RU!IsLoaded(r, p)
    BY <1>2, <2>1, <2>2 DEF RU!IsLoaded, RU!GetEffectiveRuleForPath
  <2>4. ASSUME NEW q \in below \ {p} PROVE ~RU!IsLoaded(r, q)
    <3>1. q \in RU!Scope /\ RU!IsPrefix(p, q) /\ q # p /\ q \in Seq(Nat)
      BY <2>4, RuleScope DEF RU!Below
    <3>2. RU!Above(D, q) # {}
      BY <2>1, <3>1 DEF RU!Above
    <3>3. PICK c : c = RU!Longest(RU!Above(D, q))
      OBVIOUS
    <3>4. c \in D /\ RU!IsPrefix(c, q) /\ RU!IsPrefix(p, c)
      BY <1>3, <2>1, <3>1, <3>2, <3>3, LongestIs
    <3>5. r[c] # "All" /\ ~(c = q /\ r[c] = "Only")
      BY <2>1, <3>1, <3>4
    <3>6. ASSUME NEW d \in RU!NextBelow(r, q) PROVE r[d] = "None"
      <4>1. d \in D /\ RU!IsPrefix(q, d) /\ d # q
        BY <1>2 DEF RU!NextBelow, RU!StrictlyBelow, RU!Below
      <4>2. d \in Seq(Nat) /\ RU!IsPrefix(p, d) /\ d # p
        BY <1>4, <1>5, <3>1, <4>1, PrefixOrder
      <4> QED  BY <2>1, <4>1, <4>2
    <3>7. RU!GetEffectiveRuleForPath(r, q) = "None"
      BY <1>2, <3>2, <3>3, <3>5, <3>6 DEF RU!GetEffectiveRuleForPath
    <3> QED  BY <3>7 DEF RU!IsLoaded
  <2> QED  BY <2>3, <2>4
<1> QED  BY <1>1, <1>7, <1>8, <1>9, <1>10, <1>11

(* Replacing rules changes what is said of the paths below, as asked.      *)
LEMMA ReplacedSays ==
  ASSUME NEW r, IsRules(r), NEW S \in SUBSET RulePaths, NEW rule \in RU!RuleKinds
  PROVE  /\ IsRules(RU!Replaced(r, S, rule))
         /\ \A x \in RU!Scope :
              x \in RU!Said(RU!Replaced(r, S, rule)) <=>
                IF RU!Above(S, x) = {} THEN x \in RU!Said(r)
                  ELSE rule = "All" \/ (rule = "Only" /\ x \in S)
<1>1. PICK rest : rest = {q \in DOMAIN r : RU!Above(S, q) = {}}
  OBVIOUS
<1>2. PICK n : n = RU!Replaced(r, S, rule)
  OBVIOUS
<1>3. /\ n = [q \in rest \cup S |-> IF q \in S THEN rule ELSE r[q]]
      /\ DOMAIN n = rest \cup S
      /\ \A q \in S : n[q] = rule
      /\ \A q \in rest : q \notin S => n[q] = r[q]
  BY <1>1, <1>2 DEF RU!Replaced
<1>4. IsRules(n)
  BY <1>1, <1>3 DEF IsRules
<1>5. /\ DOMAIN n \in SUBSET RulePaths /\ DOMAIN r \in SUBSET RulePaths
      /\ \A q \in RulePaths : q \in Seq(Nat) /\ RU!IsPrefix(q, q)
  <2>1. \A q \in RulePaths : q \in Seq(Nat)
    BY RuleScope
  <2> QED  BY <1>4, <2>1, PrefixOrder DEF IsRules
<1>6. ASSUME NEW x \in RU!Scope, RU!Above(S, x) # {}
      PROVE  x \in RU!Said(n) <=> rule = "All" \/ (rule = "Only" /\ x \in S)
  <2>1. PICK t \in S : RU!IsPrefix(t, x)
    BY <1>6 DEF RU!Above
  <2>2. RU!Above(DOMAIN n, x) # {}
    BY <1>3, <2>1 DEF RU!Above
  <2>3. PICK c : c = RU!Longest(RU!Above(DOMAIN n, x))
    OBVIOUS
  <2>4. c \in DOMAIN n /\ RU!IsPrefix(t, c)
    BY <1>3, <1>5, <2>1, <2>2, <2>3, LongestIs
  <2>5. c \in S
    BY <1>1, <1>3, <2>1, <2>4 DEF RU!Above
  <2>6. x \in DOMAIN n => x \in S
    BY <1>1, <1>3, <1>6
  <2> QED  BY <1>3, <2>2, <2>3, <2>5, <2>6, SaidIs
<1>7. ASSUME NEW x \in RU!Scope, RU!Above(S, x) = {}
      PROVE  x \in RU!Said(n) <=> x \in RU!Said(r)
  <2>1. x \in Seq(Nat) /\ \A t \in S : ~RU!IsPrefix(t, x)
    BY <1>7, RuleScope DEF RU!Above
  <2>2. ASSUME NEW q \in DOMAIN r, RU!IsPrefix(q, x) PROVE q \in rest /\ q \notin S
    <3>1. ASSUME NEW t \in S, RU!IsPrefix(t, q) PROVE FALSE
      BY <1>5, <2>1, <2>2, <3>1, PrefixOrder
    <3> QED  BY <1>1, <2>1, <2>2, <3>1 DEF RU!Above
  <2>3. PICK A : A = RU!Above(DOMAIN r, x)
    OBVIOUS
  <2>4. RU!Above(DOMAIN n, x) = A
    BY <1>1, <1>3, <2>1, <2>2, <2>3 DEF RU!Above
  <2>5. \A q \in A : n[q] = r[q]
    BY <1>3, <2>2, <2>3 DEF RU!Above
  <2>6. A # {} => RU!Longest(A) \in A
    <3>1. A # {} => RU!Longest(A) \in DOMAIN r /\ RU!IsPrefix(RU!Longest(A), x)
      BY <1>5, <2>3, LongestIs
    <3> QED  BY <2>3, <3>1 DEF RU!Above
  <2>7. (x \in DOMAIN n <=> x \in DOMAIN r) /\ (x \in DOMAIN r => n[x] = r[x])
    <3>1. x \in DOMAIN r => RU!IsPrefix(x, x)
      BY <1>5
    <3>2. x \notin S
      BY <1>5, <2>1
    <3> QED  BY <1>1, <1>3, <2>2, <3>1, <3>2
  <2> QED  BY <2>3, <2>4, <2>5, <2>6, <2>7, SaidIs
<1> QED  BY <1>2, <1>4, <1>6, <1>7

LEMMA AddedSays ==
  ASSUME NEW r, IsRules(r), NEW p \in RulePaths, NEW rule \in RU!RuleKinds,
         NEW n, n = [q \in DOMAIN r \cup {p} |-> IF q = p THEN rule ELSE r[q]]
  PROVE  /\ IsRules(n)
         /\ \A x \in RU!Scope :
              x \in RU!Said(n) <=>
                IF x \in RU!ClosestTo(r, p) THEN rule = "All" \/ (rule = "Only" /\ x = p)
                  ELSE x \in RU!Said(r)
<1>1. /\ DOMAIN n = DOMAIN r \cup {p} /\ n[p] = rule
      /\ \A q \in DOMAIN r : q # p => n[q] = r[q]
  OBVIOUS
<1>2. IsRules(n)
  BY <1>1 DEF IsRules
<1>3. /\ DOMAIN n \in SUBSET RulePaths /\ DOMAIN r \in SUBSET RulePaths
      /\ \A q \in RulePaths : q \in Seq(Nat) /\ q \in RU!Scope
      /\ \A q \in RulePaths : RU!IsPrefix(q, q)
  <2>1. \A q \in RulePaths : q \in Seq(Nat) /\ q \in RU!Scope
    BY RuleScope
  <2> QED  BY <1>2, <2>1, PrefixOrder DEF IsRules
<1>4. ASSUME NEW x \in RU!Scope, x \in RU!ClosestTo(r, p)
      PROVE  x \in RU!Said(n) <=> rule = "All" \/ (rule = "Only" /\ x = p)
  <2>1. RU!IsPrefix(p, x) /\ RU!Longest(RU!Above(DOMAIN n, x)) = p
    BY <1>1, <1>4 DEF RU!ClosestTo, RU!Below
  <2>2. RU!Above(DOMAIN n, x) # {}
    BY <1>1, <2>1 DEF RU!Above
  <2>3. x \in DOMAIN n => x = p
    BY <1>2, <2>1, ClosestToItself
  <2> QED  BY <1>1, <2>1, <2>2, <2>3, SaidIs
<1>5. ASSUME NEW x \in RU!Scope, x \notin RU!ClosestTo(r, p)
      PROVE  x \in RU!Said(n) <=> x \in RU!Said(r)
  <2>1. x # p
    <3>1. ASSUME x = p PROVE FALSE
      <4>1. RU!Longest(RU!Above(DOMAIN n, p)) = p
        BY <1>1, <1>2, ClosestToItself
      <4> QED  BY <1>1, <1>3, <1>5, <3>1, <4>1 DEF RU!ClosestTo, RU!Below
    <3> QED  BY <3>1
  <2>2. CASE ~RU!IsPrefix(p, x)
    <3>1. RU!Above(DOMAIN n, x) = RU!Above(DOMAIN r, x)
      BY <1>1, <2>2 DEF RU!Above
    <3>2. PICK A : A = RU!Above(DOMAIN r, x)
      OBVIOUS
    <3>3. A # {} => n[RU!Longest(A)] = r[RU!Longest(A)]
      <4>1. A # {} => RU!Longest(A) \in DOMAIN r /\ RU!IsPrefix(RU!Longest(A), x)
        BY <1>3, <3>2, LongestIs
      <4> QED  BY <1>1, <2>2, <4>1
    <3> QED  BY <1>1, <2>1, <3>1, <3>2, <3>3, SaidIs
  <2>3. CASE RU!IsPrefix(p, x)
    <3>1. PICK c : c = RU!Longest(RU!Above(DOMAIN n, x))
      OBVIOUS
    <3>2. RU!Above(DOMAIN n, x) # {} /\ c # p
      BY <1>1, <1>5, <2>3, <3>1 DEF RU!ClosestTo, RU!Below, RU!Above
    <3>3. c \in DOMAIN r /\ RU!IsPrefix(c, x) /\ \A a \in DOMAIN n : RU!IsPrefix(a, x) => RU!IsPrefix(a, c)
      BY <1>1, <1>3, <3>1, <3>2, LongestIs
    <3>4. RU!Above(DOMAIN r, x) # {} /\ RU!Longest(RU!Above(DOMAIN r, x)) = c
      BY <1>1, <1>3, <3>3, LongestIsOnly
    <3>5. n[c] = r[c] /\ (x \in DOMAIN n <=> x \in DOMAIN r) /\ (x \in DOMAIN r => n[x] = r[x])
      BY <1>1, <2>1, <3>2, <3>3
    <3>6. x \in RU!Said(n) <=> n[c] = "All" \/ (x \in DOMAIN n /\ n[x] = "Only")
      BY <3>1, <3>2, SaidIs
    <3>7. x \in RU!Said(r) <=> r[c] = "All" \/ (x \in DOMAIN r /\ r[x] = "Only")
      BY <3>4, SaidIs
    <3> QED  BY <3>5, <3>6, <3>7
  <2> QED  BY <2>2, <2>3
<1> QED  BY <1>2, <1>4, <1>5

LEMMA MinimizedAreRules ==
  ASSUME NEW r, IsRules(r)
  PROVE  IsRules(RU!Minimized(r))
<1>1. PICK m : m = RU!Minimized(r)
  OBVIOUS
<1>2. ASSUME NEW f, IsRules(f), NEW P \in SUBSET DOMAIN f PROVE IsRules(RU!Restrict(f, P))
  BY <1>2 DEF IsRules, RU!Restrict
<1>3. PICK f : f = IF <<>> \in DOMAIN r /\ r[<<>>] = "All"
                     THEN RU!Restrict(r, DOMAIN r \ {<<>>}) ELSE r
  OBVIOUS
<1>4. IsRules(f)
  BY <1>2, <1>3
<1>5. m = f \/ \E P \in SUBSET DOMAIN f : m = RU!Restrict(f, P)
  BY <1>1, <1>3 DEF RU!Minimized
<1> QED  BY <1>1, <1>2, <1>4, <1>5

RulesAreSaid == IsRules(rules) /\ asked = RU!Said(rules)

LEMMA RulesInit ==
  ASSUME RU!Init
  PROVE  RulesAreSaid
<1>1. IsRules(RU!LoadNone)
  BY ContentsAssumptions DEF RU!LoadNone, RU!LoadRulesAssumption, IsRules, RU!RuleKinds
<1>2. IsRules(RU!LoadAll)
  <2>1. DOMAIN RU!LoadAll = {}
    BY DEF RU!LoadAll
  <2>2. RU!LoadAll = [q \in {} |-> "All"]
    BY DEF RU!LoadAll
  <2> QED  BY <2>1, <2>2 DEF IsRules
<1> QED  BY <1>1, <1>2 DEF RU!Init, RulesAreSaid

LEMMA BelowAreAbove ==
  ASSUME NEW S \in SUBSET RulePaths, NEW x \in RU!Scope
  PROVE  RU!Above(S, x) # {} <=> x \in UNION {RU!Below(RU!Scope, p) : p \in S}
BY DEF RU!Above, RU!Below

LEMMA SaidInScope == \A r : RU!Said(r) \subseteq RU!Scope
BY DEF RU!Said

LEMMA RulesStep ==
  ASSUME RulesAreSaid, RU!Next
  PROVE  RulesAreSaid'
<1>1. PICK r, a : r = rules /\ a = asked
  OBVIOUS
<1>2. IsRules(r) /\ a = RU!Said(r) /\ a \subseteq RU!Scope
  BY <1>1, SaidInScope DEF RulesAreSaid
<1>3. ASSUME NEW p \in RulePaths, NEW rule \in RU!RuleKinds,
             rules' = RU!Replaced(r, {p}, rule), RU!Asks(RU!Below(RU!Scope, p), p, rule)
      PROVE  RulesAreSaid'
  <2>1. PICK n : n = RU!Replaced(r, {p}, rule)
    OBVIOUS
  <2>2. PICK about : about = RU!Below(RU!Scope, p)
    OBVIOUS
  <2>3. asked' = (a \ about) \cup {q \in about : rule = "All" \/ (rule = "Only" /\ q = p)}
    BY <1>1, <1>3, <2>2 DEF RU!Asks
  <2>4. \A x \in RU!Scope : RU!Above({p}, x) # {} <=> x \in about
    BY <2>2 DEF RU!Above, RU!Below
  <2>5. about \subseteq RU!Scope
    BY <2>2 DEF RU!Below
  <2>6. IsRules(n) /\ RU!Said(n) \subseteq RU!Scope
    BY <1>2, <2>1, ReplacedSays, SaidInScope
  <2>7. ASSUME NEW x \in RU!Scope
        PROVE  x \in RU!Said(n) <=>
                 IF x \in about THEN rule = "All" \/ (rule = "Only" /\ x = p) ELSE x \in a
    <3>1. PICK S : S = {p}
      OBVIOUS
    <3>2. S \in SUBSET RulePaths /\ n = RU!Replaced(r, S, rule)
      BY <2>1, <3>1
    <3>3. x \in RU!Said(n) <=>
            IF RU!Above(S, x) = {} THEN x \in RU!Said(r)
              ELSE rule = "All" \/ (rule = "Only" /\ x \in S)
      BY <1>2, <3>2, ReplacedSays
    <3>4. RU!Above(S, x) # {} <=> x \in about
      BY <2>4, <3>1
    <3> QED  BY <1>2, <3>1, <3>3, <3>4
  <2>8. asked' = RU!Said(n)
    BY <1>2, <2>3, <2>5, <2>6, <2>7
  <2>9. IsRules(n) /\ asked' = RU!Said(n) /\ rules' = n
    BY <1>3, <2>1, <2>6, <2>8
  <2> QED  BY <2>9 DEF RulesAreSaid
<1>4. ASSUME NEW p \in RulePaths,
             RU!LoadWithDescendants(p) \/ RU!LoadWithoutDescendants(p) \/ RU!Unload(p)
      PROVE  RulesAreSaid'
  <2>1. \E rule \in RU!RuleKinds :
          /\ rules' = RU!Replaced(r, {p}, rule)
          /\ RU!Asks(RU!Below(RU!Scope, p), p, rule)
    BY <1>1, <1>4
    DEF RU!LoadWithDescendants, RU!LoadWithoutDescendants, RU!Unload, RU!RuleKinds
  <2> QED  BY <1>3, <2>1
<1>5. ASSUME NEW p \in RulePaths, NEW rule \in RU!RuleKinds, RU!AddRule(p, rule)
      PROVE  RulesAreSaid'
  <2>1. PICK n : n = [q \in DOMAIN r \cup {p} |-> IF q = p THEN rule ELSE r[q]]
    OBVIOUS
  <2>2. PICK about : about = RU!ClosestTo(r, p)
    OBVIOUS
  <2>3. asked' = (a \ about) \cup {q \in about : rule = "All" \/ (rule = "Only" /\ q = p)}
    BY <1>1, <1>5, <2>2 DEF RU!AddRule, RU!Asks
  <2>4. about \subseteq RU!Scope
    BY <2>2 DEF RU!ClosestTo, RU!Below
  <2>5. /\ IsRules(n) /\ RU!Said(n) \subseteq RU!Scope
        /\ \A x \in RU!Scope : x \in RU!Said(n) <=>
             IF x \in about THEN rule = "All" \/ (rule = "Only" /\ x = p) ELSE x \in a
    BY <1>2, <2>1, <2>2, AddedSays, SaidInScope
  <2>6. asked' = RU!Said(n)
    BY <1>2, <2>3, <2>4, <2>5
  <2>7. rules' = n
    BY <1>1, <1>5, <2>1 DEF RU!AddRule
  <2> QED  BY <2>5, <2>6, <2>7 DEF RulesAreSaid
<1>6. ASSUME NEW S \in RuleBatches, NEW T \in RuleBatches, NEW policy \in {"All", "Only"},
             RU!LoadAndUnload(S, T, policy)
      PROVE  RulesAreSaid'
  <2>1. S \in SUBSET RulePaths /\ T \in SUBSET RulePaths
    BY ContentsAssumptions DEF RU!LoadRulesAssumption
  <2>2. PICK U, B : /\ U = UNION {RU!Below(RU!Scope, p) : p \in T}
                    /\ B = UNION {RU!Below(RU!Scope, p) : p \in S}
    OBVIOUS
  <2>3. PICK m, n : m = RU!Replaced(r, T, "None") /\ n = RU!Replaced(m, S, policy)
    OBVIOUS
  <2>4. /\ rules' = n
        /\ asked' = ((a \ U) \ B) \cup (IF policy = "All" THEN B ELSE S)
    BY <1>1, <1>6, <2>2, <2>3 DEF RU!LoadAndUnload
  <2>5. U \subseteq RU!Scope /\ B \subseteq RU!Scope
    BY <2>2 DEF RU!Below
  <2>6. S \subseteq B
    <3>1. ASSUME NEW p \in S PROVE p \in RU!Below(RU!Scope, p)
      <4>1. p \in RU!Scope /\ p \in Seq(Nat)
        BY <2>1, RuleScope
      <4> QED  BY <4>1, PrefixOrder DEF RU!Below
    <3> QED  BY <2>2, <3>1
  <2>7. "None" \in RU!RuleKinds /\ policy \in RU!RuleKinds
    BY DEF RU!RuleKinds
  <2>8. IsRules(m) /\ \A x \in RU!Scope : x \in RU!Said(m) <=> x \in a /\ x \notin U
    <3>1. IsRules(m)
      BY <1>2, <2>1, <2>3, <2>7, ReplacedSays
    <3>2. ASSUME NEW x \in RU!Scope PROVE x \in RU!Said(m) <=> x \in a /\ x \notin U
      <4>1. RU!Above(T, x) # {} <=> x \in U
        BY <2>1, <2>2, BelowAreAbove
      <4>2. x \in RU!Said(m) <=> IF RU!Above(T, x) = {} THEN x \in RU!Said(r) ELSE FALSE
        <5>1. PICK rule : rule = "None"
          OBVIOUS
        <5>2. x \in RU!Said(m) <=>
                IF RU!Above(T, x) = {} THEN x \in RU!Said(r)
                  ELSE rule = "All" \/ (rule = "Only" /\ x \in T)
          BY <1>2, <2>1, <2>3, <2>7, <5>1, ReplacedSays
        <5> QED  BY <5>1, <5>2
      <4> QED  BY <1>2, <4>1, <4>2
    <3> QED  BY <3>1, <3>2
  <2>9. /\ IsRules(n)
        /\ \A x \in RU!Scope : x \in RU!Said(n) <=>
             IF x \in B THEN policy = "All" \/ x \in S ELSE x \in a /\ x \notin U
    <3>1. IsRules(n)
      BY <2>1, <2>3, <2>7, <2>8, ReplacedSays
    <3>2. ASSUME NEW x \in RU!Scope
          PROVE  x \in RU!Said(n) <=>
                   IF x \in B THEN policy = "All" \/ x \in S ELSE x \in a /\ x \notin U
      <4>1. RU!Above(S, x) # {} <=> x \in B
        BY <2>1, <2>2, BelowAreAbove
      <4>2. x \in RU!Said(n) <=>
              IF RU!Above(S, x) = {} THEN x \in RU!Said(m)
                ELSE policy = "All" \/ (policy = "Only" /\ x \in S)
        BY <2>1, <2>3, <2>7, <2>8, ReplacedSays
      <4> QED  BY <2>8, <4>1, <4>2
    <3> QED  BY <3>1, <3>2
  <2>10. RU!Said(n) \subseteq RU!Scope
    BY SaidInScope
  <2>11. asked' = RU!Said(n)
    BY <1>2, <2>4, <2>5, <2>6, <2>9, <2>10
  <2> QED  BY <2>4, <2>9, <2>11 DEF RulesAreSaid
<1>7. CASE \E new \in {RU!LoadAll, RU!LoadNone} : RU!SetRules(new)
  <2>1. IsRules(RU!LoadNone)
    BY ContentsAssumptions DEF RU!LoadNone, RU!LoadRulesAssumption, IsRules, RU!RuleKinds
  <2>2. IsRules(RU!LoadAll)
    <3>1. DOMAIN RU!LoadAll = {}
      BY DEF RU!LoadAll
    <3>2. RU!LoadAll = [q \in {} |-> "All"]
      BY DEF RU!LoadAll
    <3> QED  BY <3>1, <3>2 DEF IsRules
  <2>3. PICK new \in {RU!LoadAll, RU!LoadNone} : rules' = new /\ asked' = RU!Said(new)
    BY <1>7 DEF RU!SetRules
  <2>4. IsRules(new)
    BY <2>1, <2>2
  <2> QED  BY <2>3, <2>4 DEF RulesAreSaid
<1>8. CASE RU!Minimize
  <2>1. PICK n : n = RU!Minimized(r)
    OBVIOUS
  <2>2. rules' = n /\ asked' = RU!Said(rules)' /\ IsRules(n)
    BY <1>1, <1>2, <1>8, <2>1, MinimizedAreRules DEF RU!Minimize
  <2> QED  BY <2>2 DEF RulesAreSaid
<1> QED  BY <1>4, <1>5, <1>6, <1>7, <1>8 DEF RU!Next

(* After any calls, the rules of a stage say what the calls asked for, and *)
(* the queries that let the stage skip a call are right about everything   *)
(* below a path.                                                           *)
THEOREM RulesAreAsAsked == ContentsSpec => []LoadedAsAsked
<1>1. ContentsInit => RulesAreSaid
  BY RulesInit DEF ContentsInit
<1>2. ASSUME RulesAreSaid, ContentsNext
      PROVE  RulesAreSaid'
  <2>1. CASE RU!Next
    BY <1>2, <2>1, RulesStep
  <2>2. CASE UNCHANGED ruleVars
    BY <1>2, <2>2 DEF ruleVars, RulesAreSaid, RU!Said, RU!Scope
  <2> QED
    BY <1>2, <2>1, <2>2
    DEF ContentsNext, PoolMoves, StageMoves, RulesMove, MaskMoves, ListsMove, IndexesMove
<1>3. ASSUME RulesAreSaid,
             UNCHANGED <<part, poolVars, stageVars, ruleVars, maskVars, listVars, indexVars>>
      PROVE  RulesAreSaid'
  BY <1>3 DEF ruleVars, RulesAreSaid, RU!Said, RU!Scope
<1>4. ASSUME RulesAreSaid
      PROVE  LoadedAsAsked
  BY <1>4, QueriesAnswer DEF RulesAreSaid, LoadedAsAsked
<1> QED  BY <1>1, <1>2, <1>3, <1>4, PTL DEF ContentsSpec

-----------------------------------------------------------------------------
(***************************************************************************)
(* List operations.                                                        *)
(***************************************************************************)
(* Whatever the opinions of the layers are and in whatever order they are  *)
(* composed, under what there is or over it, applying the composed op to a *)
(* list is applying the opinions one after the other: for any items.       *)
THEOREM ComposesInTurn == ContentsSpec => []ComposedInTurn
<1>1. ContentsInit => LO!ComposedInTurn
  BY DEF ContentsInit, LO!Init, LO!ComposedInTurn, LO!Opinions
<1>2. ASSUME LO!ComposedInTurn, ContentsNext
      PROVE  LO!ComposedInTurn'
  <2>1. ASSUME NEW opinion \in LO!Opinions, LO!ComposeUnder(opinion)
        PROVE  LO!ComposedInTurn'
    <3>1. opinion \in LO!ListOps /\ op \in LO!ListOps
      BY <1>2 DEF LO!Opinions, LO!ComposedInTurn
    <3>2. op' = LO!ApplyOver(op, opinion) /\ op' \in LO!ListOps
      BY <2>1, <3>1, OpsCompose DEF LO!ComposeUnder
    <3>3. ASSUME NEW l \in LO!Lists
          PROVE  LO!ApplyOperations(op', l) = effect'[l]
      <4>1. LO!ApplyOperations(op', l) =
              LO!ApplyOperations(op, LO!ApplyOperations(opinion, l))
        BY <3>1, <3>2, OpsCompose
      <4>2. LO!ApplyOperations(opinion, l) \in LO!Lists
        BY <3>1, OpsApply
      <4>3. effect'[l] = effect[LO!ApplyOperations(opinion, l)]
        BY <2>1 DEF LO!ComposeUnder
      <4> QED  BY <1>2, <4>1, <4>2, <4>3 DEF LO!ComposedInTurn
    <3> QED  BY <3>2, <3>3 DEF LO!ComposedInTurn
  <2>2. ASSUME NEW opinion \in LO!Opinions, LO!ComposeOver(opinion)
        PROVE  LO!ComposedInTurn'
    <3>1. opinion \in LO!ListOps /\ op \in LO!ListOps
      BY <1>2 DEF LO!Opinions, LO!ComposedInTurn
    <3>2. op' = LO!ApplyOver(opinion, op) /\ op' \in LO!ListOps
      BY <2>2, <3>1, OpsCompose DEF LO!ComposeOver
    <3>3. ASSUME NEW l \in LO!Lists
          PROVE  LO!ApplyOperations(op', l) = effect'[l]
      <4>1. LO!ApplyOperations(op', l) =
              LO!ApplyOperations(opinion, LO!ApplyOperations(op, l))
        BY <3>1, <3>2, OpsCompose
      <4>2. effect'[l] = LO!ApplyOperations(opinion, effect[l])
        BY <2>2 DEF LO!ComposeOver
      <4>3. LO!ApplyOperations(op, l) = effect[l]
        BY <1>2 DEF LO!ComposedInTurn
      <4> QED  BY <4>1, <4>2, <4>3
    <3> QED  BY <3>2, <3>3 DEF LO!ComposedInTurn
  <2>3. CASE LO!Next
    BY <2>1, <2>2, <2>3 DEF LO!Next
  <2>4. CASE UNCHANGED listVars
    BY <1>2, <2>4 DEF listVars, LO!ComposedInTurn
  <2> QED
    BY <1>2, <2>3, <2>4
    DEF ContentsNext, PoolMoves, StageMoves, RulesMove, MaskMoves, ListsMove, IndexesMove
<1>3. ASSUME LO!ComposedInTurn,
             UNCHANGED <<part, poolVars, stageVars, ruleVars, maskVars, listVars, indexVars>>
      PROVE  LO!ComposedInTurn'
  BY <1>3 DEF listVars, LO!ComposedInTurn
<1>4. LO!ComposedInTurn => ComposedInTurn
  BY DEF ComposedInTurn
<1> QED  BY <1>1, <1>2, <1>3, <1>4, PTL DEF ContentsSpec

-----------------------------------------------------------------------------
(***************************************************************************)
(* The population mask.                                                    *)
(***************************************************************************)
(* Whatever masks are set, added and intersected, the stage's mask stays   *)
(* sorted without redundant paths, and every query of it answers for       *)
(* exactly the subtrees wanted and what is above them, for any paths.      *)
THEOREM MaskStaysExact == ContentsSpec => []MaskIsExact
<1>1. ContentsInit => MaskIsKept
  <2>1. ASSUME ContentsInit PROVE mask = <<>> /\ wanted = {}
    BY <2>1 DEF ContentsInit, PM!Init
  <2> QED  BY <2>1, SmallMasks DEF MaskIsKept, Cover
<1>2. ASSUME MaskIsKept, UNCHANGED maskVars
      PROVE  MaskIsKept'
  BY <1>2 DEF maskVars, MaskIsKept, IsMask, Cover, PathsOf, Part, Before, PM!IsPrefix
<1>3. ASSUME MaskIsKept, ContentsNext
      PROVE  MaskIsKept'
  <2>1. PM!Next \/ UNCHANGED maskVars
    BY <1>3
    DEF ContentsNext, PoolMoves, StageMoves, RulesMove, MaskMoves, ListsMove, IndexesMove
  <2> QED  BY <1>2, <1>3, <2>1, MaskStep
<1>4. ASSUME MaskIsKept,
             UNCHANGED <<part, poolVars, stageVars, ruleVars, maskVars, listVars, indexVars>>
      PROVE  MaskIsKept'
  BY <1>2, <1>4
<1>5. MaskIsKept => MaskIsExact
  BY MaskAnswers DEF MaskIsExact
<1> QED  BY <1>1, <1>3, <1>4, <1>5, PTL DEF ContentsSpec
=============================================================================
