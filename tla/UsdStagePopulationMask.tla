----------------------- MODULE UsdStagePopulationMask -----------------------
(***************************************************************************)
(* UsdStagePopulationMask: the prims a stage is populated with.  A mask is *)
(* a sorted vector of paths none of which is below another: it includes    *)
(* their subtrees, and what is above them on the way.  The algorithms go   *)
(* over sorted vectors side by side, so the order of paths is modelled.    *)
(***************************************************************************)
EXTENDS Naturals, FiniteSets, SequencesExt

CONSTANT Paths     \* absolute prim paths with all their parents: sequences of names,
                   \* which are numbers in the order of the tokens

MaskAssumption ==
  /\ Paths \subseteq Seq(Nat) /\ IsFiniteSet(Paths)
  /\ <<>> \in Paths
  /\ \A p \in Paths \ {<<>>} : Front(p) \in Paths

VARIABLES
  mask,      \* _paths of the stage's mask
  wanted     \* history: the paths whose subtrees the operations included

(* SdfPath::operator<: what is above comes first, else the names decide    *)
(* where the paths part.                                                   *)
LessThan(p, q) ==
  \/ IsStrictPrefix(p, q)
  \/ \E i \in DOMAIN p \cap DOMAIN q :
       p[i] < q[i] /\ \A j \in 1 .. i - 1 : p[j] = q[j]

Below(p) == {q \in Paths : IsPrefix(p, q)}

(* The constructor: sorted, without what is below others.                  *)
Normalized(S) ==
  LET tops == {p \in S : ~\E q \in S : IsStrictPrefix(q, p)}
  IN  CHOOSE s \in [1 .. Cardinality(tops) -> tops] :
        /\ ToSet(s) = tops
        /\ \A i, j \in DOMAIN s : i < j => LessThan(s[i], s[j])

Masks == {Normalized(S) : S \in SUBSET Paths}

(* The first element of s, from the i-th, that is not below p.             *)
Past(s, i, p) ==
  CHOOSE k \in i .. Len(s) + 1 :
    /\ k =< Len(s) => ~IsPrefix(p, s[k])
    /\ \A m \in i .. k - 1 : IsPrefix(p, s[m])

(* Where the merging of two masks is: an index into each.                  *)
Places(l, r) == (1 .. Len(l) + 1) \X (1 .. Len(r) + 1)

(* One step of the merging, from where others go on.                       *)
UnionFrom(l, r, from, i, j) ==
  CASE i > Len(l)              -> SubSeq(r, j, Len(r))
    [] i =< Len(l) /\ j > Len(r) -> SubSeq(l, i, Len(l))
    [] OTHER ->
       CASE IsPrefix(l[i], r[j])       -> <<l[i]>> \o from[<<i + 1, Past(r, j, l[i])>>]
         [] IsStrictPrefix(r[j], l[i]) -> <<r[j]>> \o from[<<Past(l, i, r[j]), j + 1>>]
         [] OTHER -> IF LessThan(l[i], r[j]) THEN <<l[i]>> \o from[<<i + 1, j>>]
                     ELSE <<r[j]>> \o from[<<i, j + 1>>]

Union(l, r) ==
  LET from[x \in Places(l, r)] == UnionFrom(l, r, from, x[1], x[2])
  IN  from[<<1, 1>>]

(* Mutant: a path below another takes the other along.                     *)
IntersectionOfOne(l, r) ==
  LET from[x \in Places(l, r)] ==
        LET i == x[1]
            j == x[2]
        IN  CASE i > Len(l) \/ j > Len(r)    -> <<>>
              [] OTHER ->
                 CASE IsPrefix(l[i], r[j])   -> <<r[j]>> \o from[<<i + 1, j + 1>>]
                   [] IsPrefix(r[j], l[i])   -> <<l[i]>> \o from[<<i + 1, j + 1>>]
                   [] OTHER -> IF LessThan(l[i], r[j]) THEN from[<<i + 1, j>>]
                               ELSE from[<<i, j + 1>>]
  IN  from[<<1, 1>>]

IntersectionFrom(l, r, from, i, j) ==
  CASE i > Len(l) \/ j > Len(r) -> <<>>
    [] OTHER ->
       CASE IsPrefix(l[i], r[j]) ->
              LET k == Past(r, j, l[i]) IN SubSeq(r, j, k - 1) \o from[<<i + 1, k>>]
         [] IsStrictPrefix(r[j], l[i]) ->
              LET k == Past(l, i, r[j]) IN SubSeq(l, i, k - 1) \o from[<<k, j + 1>>]
         [] OTHER -> IF LessThan(l[i], r[j]) THEN from[<<i + 1, j>>]
                     ELSE from[<<i, j + 1>>]

Intersection(l, r) ==
  LET from[x \in Places(l, r)] == IntersectionFrom(l, r, from, x[1], x[2])
  IN  from[<<1, 1>>]

(* std::lower_bound.                                                       *)
LowerBound(m, p) ==
  CHOOSE k \in 1 .. Len(m) + 1 :
    /\ \A i \in 1 .. k - 1 : LessThan(m[i], p)
    /\ k =< Len(m) => ~LessThan(m[k], p)

Includes(m, p) ==
  LET k == LowerBound(m, p)
  IN  \/ k > 1 /\ IsPrefix(m[k - 1], p)
      \/ k =< Len(m) /\ IsPrefix(p, m[k])

IncludesMask(m, other) == Union(m, other) = m

IncludesSubtree(m, p) ==
  LET k == LowerBound(m, p)
  IN  \/ k =< Len(m) /\ m[k] = p
      \/ k > 1 /\ IsPrefix(m[k - 1], p)

(* Names of the children of p on the way to paths of the mask, none when   *)
(* the whole subtree is included.                                          *)
GetIncludedChildNames(m, p) ==
  LET k == LowerBound(m, p)
  IN  IF IncludesSubtree(m, p) THEN {}
      ELSE {m[i][Len(p) + 1] : i \in k .. Past(m, k, p) - 1}

-----------------------------------------------------------------------------
Init == mask = <<>> /\ wanted = {}

SetPopulationMask(m) ==
  mask' = m /\ wanted' = UNION {Below(p) : p \in ToSet(m)}

Add(other) ==
  mask' = Union(mask, other) /\ wanted' = wanted \cup UNION {Below(p) : p \in ToSet(other)}

Intersect(other) ==
  /\ mask' = Intersection(mask, other)
  /\ wanted' = wanted \cap UNION {Below(p) : p \in ToSet(other)}

Next == \E m \in Masks : SetPopulationMask(m) \/ Add(m) \/ Intersect(m)

Spec == Init /\ [][Next]_<<mask, wanted>>

-----------------------------------------------------------------------------
(* Whatever masks are united and intersected, the mask stays sorted and    *)
(* free of redundant paths, and every query answers for exactly the        *)
(* subtrees that are wanted and what is above them.                        *)
MaskIsExact ==
  /\ mask = Normalized(ToSet(mask))
  /\ \A p \in Paths :
       LET children == {q \in Paths : q # <<>> /\ Front(q) = p}
       IN  /\ IncludesSubtree(mask, p) <=> p \in wanted
           /\ Includes(mask, p) <=> Below(p) \cap wanted # {}
           /\ p \notin wanted =>
                GetIncludedChildNames(mask, p) =
                  {Last(q) : q \in {c \in children : Includes(mask, c)}}
  /\ \A m \in Masks :
       IncludesMask(mask, m) <=> UNION {Below(p) : p \in ToSet(m)} \subseteq wanted
=============================================================================
