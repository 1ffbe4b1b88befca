------------------------------ MODULE PcpCache ------------------------------
(***************************************************************************)
(* A PcpCache in USD mode: the prim indexes it keeps, the dependencies     *)
(* they have on the sites of layers, and what a change of a layer removes  *)
(* (pcp/cache.cpp, dependencies.cpp, changes.cpp).                         *)
(*                                                                         *)
(* A layer stack has one layer.  A site is a layer stack and a path in it, *)
(* a path the sequence of its names, and references are the arcs between   *)
(* sites.  A prim index is a set of nodes: a node is the sequence of arcs  *)
(* that leads to it from the root node.  Arcs that are due to the parent's *)
(* index are told from those of the prim itself; only what the latter lead *)
(* to is stored as a dependency, all else has to be found through it.      *)
(***************************************************************************)
EXTENDS Naturals, FiniteSets, Bags, SequencesExt

CONSTANTS
  LayerStacks, Root,      \* the layer stacks, and the cache's own
  PrimPaths,              \* of each layer stack, the paths prims may have
  Arcs                    \* the references that may be authored

VARIABLES
  layers,                 \* what is authored: specs, those that define, and arcs
  cached,                 \* _primIndexCache, with emptied entries
  deps                    \* _primDependencies: of every entry of its tables, the
                          \* indexes that depend on it

vars == <<layers, cached, deps>>

Sites == UNION {{s} \X PrimPaths[s] : s \in LayerStacks}

(* Every path is there with those above it, and references, of prims to    *)
(* prims, go around no cycle: such arcs are errors and add no node.        *)
PcpCacheAssumption ==
  /\ Root \in LayerStacks
  /\ \A s \in LayerStacks : \A p \in PrimPaths[s] :
       p = <<>> \/ Front(p) \in PrimPaths[s]
  /\ \A a \in Arcs : \A i \in {1, 2} : a[i] \in Sites /\ a[i][2] # <<>>
  /\ \E rank \in [LayerStacks -> 1..Cardinality(LayerStacks)] :
       \A a \in Arcs : rank[a[1][1]] < rank[a[2][1]]

Subtree(p, ps) == {q \in ps : IsPrefix(p, q)}

Children(site, sites) == {s \in sites : s[1] = site[1] /\ IsPrefix(site[2], s[2])}

(***************************************************************************)
(* Prim indexing.                                                          *)
(***************************************************************************)

(* The site at the end of a node, and the nodes that are not due to an     *)
(* ancestor of the prim, or lie below one that is not.                     *)
SiteOf(n) == <<Last(n).stack, Last(n).path>>

IsDirect(n) == \E i \in 2..Len(n) : ~n[i].dueToAncestor

NewArc(site) == [stack |-> site[1], path |-> site[2], dueToAncestor |-> FALSE]

HasSpec(l, site) == site[2] = <<>> \/ site \in l.specs

Rescan(l, nodes) == {n \in nodes : HasSpec(l, SiteOf(n))}

(* The parent's graph, with the child's name appended to all sites.  Nodes *)
(* below which nothing has specs are culled.                               *)
GraphFromParent(l, ix, name) ==
  LET Down(n) == [i \in DOMAIN n |->
        [n[i] EXCEPT !.path = Append(@, name), !.dueToAncestor = i > 1]]
      withSpecs == Rescan(l, {Down(n) : n \in ix.withSpecs})
      nodes == {Down(n) : n \in ix.nodes}
  IN  [nodes |-> nodes, withSpecs |-> withSpecs,
       culled |-> {n \in nodes : Len(n) > 1 /\ \A m \in withSpecs : ~IsPrefix(n, m)}]

(* The graph with the references of its nodes: each adds the graph of its  *)
(* target, of which ancestral opinions are part, below the node.           *)
WithReferences(l, g, target) ==
  LET arcs == {a \in g.withSpecs \X Sites : <<SiteOf(a[1]), a[2]>> \in l.arcs}
      Below(which) == UNION {{a[1] \o m : m \in target[a[2]][which]} : a \in arcs}
  IN  [f \in DOMAIN g |-> g[f] \union Below(f)]

RootGraph(site) ==
  [nodes |-> {<<NewArc(site)>>}, withSpecs |-> {<<NewArc(site)>>}, culled |-> {}]

(* The graph of the prim at a site, for a reference to it.                 *)
Target(l) ==
  LET graph[t \in Sites] ==
        IF t[2] = <<>> THEN RootGraph(t)
        ELSE WithReferences(l,
               GraphFromParent(l, graph[<<t[1], Front(t[2])>>], Last(t[2])), graph)
  IN  graph

(* Mutant: culled nodes leave no dependency.                               *)
IndexForgettingCulled(l, ix, name) ==
  LET g == GraphFromParent(l, ix, name)
      full == WithReferences(l, g, Target(l))
  IN  [nodes |-> full.nodes \ full.culled, withSpecs |-> full.withSpecs, culled |-> {}]

(* A prim index, from its parent's: culled nodes are left out, but those   *)
(* that its own arcs led to are kept as culled dependencies.               *)
IndexFromParent(l, ix, name) ==
  LET g == GraphFromParent(l, ix, name)
      full == WithReferences(l, g, Target(l))
  IN  [nodes |-> full.nodes \ full.culled, withSpecs |-> full.withSpecs,
       culled |-> full.culled \ g.culled]

(* What the index at every path would be, if composed anew.                *)
Composed(l) ==
  LET index[p \in PrimPaths[Root]] ==
        IF p = <<>> THEN RootGraph(<<Root, p>>)
        ELSE IndexFromParent(l, index[Front(p)], Last(p))
  IN  index

(***************************************************************************)
(* Pcp_Dependencies.                                                       *)
(***************************************************************************)

EmptyIndex == [nodes |-> {}, withSpecs |-> {}, culled |-> {}]

IsValid(p) == p \in DOMAIN cached /\ cached[p] # EmptyIndex

(* The nodes and culled nodes for which a dependency is stored.            *)
Stored(ix) == {n \in ix.nodes \union ix.culled : IsDirect(n)}

(* addDependency: entries above a new one come with it in a path table.    *)
AddDependency(d, p, site) ==
  LET above == {<<site[1], SubSeq(site[2], 1, i)>> : i \in 0..Len(site[2])}
  IN  [e \in DOMAIN d \union above |->
         (IF e \in DOMAIN d THEN d[e] ELSE EmptyBag)
           (+) (IF e = site THEN SetToBag({p}) ELSE EmptyBag)]

(* removeDependency: when the last one of a site goes, the entry is reaped *)
(* unless there are some below, and then those above that are left alone.  *)
RemoveDependency(d, p, site) ==
  LET rest == [d EXCEPT ![site] = @ (-) SetToBag({p})]
      AloneIn(e) ==
        \A f \in Children(e, DOMAIN rest) :
          rest[f] = EmptyBag /\ (IsPrefix(site[2], f[2]) \/ IsPrefix(f[2], site[2]))
      Reaped(e) == e[1] = site[1] /\ AloneIn(site)
                     /\ \/ IsPrefix(site[2], e[2])
                        \/ (IsPrefix(e[2], site[2]) /\ AloneIn(e))
  IN  [e \in {f \in DOMAIN rest : ~Reaped(f)} |-> rest[e]]

AddAllOf(d, p, ix) ==
  FoldSet(LAMBDA n, e : AddDependency(e, p, SiteOf(n)), d, Stored(ix))

RemoveAllOf(d, p, ix) ==
  FoldSet(LAMBDA n, e : RemoveDependency(e, p, SiteOf(n)), d, Stored(ix))

RemoveFrom(d, ps) == FoldSet(LAMBDA p, e : RemoveAllOf(e, p, cached[p]), d, ps)

(***************************************************************************)
(* The edits of a layer, and the change list entries they make.            *)
(***************************************************************************)

Entry(site, kind) == <<site, kind>>

AddSpec(l) ==
  {<<[l EXCEPT !.specs = @ \union {s}, !.defs = @ \union (IF d THEN {s} ELSE {})],
     {Entry(s, IF d THEN "addNonInert" ELSE "addInert")}>> :
     s \in {s \in Sites \ l.specs : s[2] # <<>> /\ HasSpec(l, <<s[1], Front(s[2])>>)},
     d \in BOOLEAN}

(* A subtree that is inert is removed spec by spec.                        *)
RemoveSpec(l) ==
  LET Removed(s) ==
        LET gone == Children(s, l.specs)
            inert == gone \intersect l.defs = {} /\ \A a \in l.arcs : a[1] \notin gone
        IN  <<[specs |-> l.specs \ gone, defs |-> l.defs \ gone,
               arcs |-> {a \in l.arcs : a[1] \notin gone}],
              IF inert THEN {Entry(t, "removeInert") : t \in gone}
              ELSE {Entry(s, "removeNonInert")}>>
  IN  {Removed(s) : s \in l.specs}

EditReferences(l) ==
  {<<[l EXCEPT !.arcs = IF a \in @ THEN @ \ {a} ELSE @ \union {a}],
     {Entry(a[1], "references")}>> : a \in {a \in Arcs : a[1] \in l.specs}}

(* The layer is given new data: none.                                      *)
ReplaceContent(l) ==
  {<<[specs |-> {t \in l.specs : t[1] # s}, defs |-> {t \in l.defs : t[1] # s},
      arcs |-> {a \in l.arcs : a[1][1] # s}],
     {Entry(<<s, <<>>>>, "replaceContent")}>> : s \in LayerStacks}

Edits(l) == AddSpec(l) \union RemoveSpec(l) \union EditReferences(l) \union ReplaceContent(l)

(* A change block of one edit, or of two of which the second is of a site  *)
(* of the first: entries of one path are merged.                           *)
Blocks(l) ==
  Edits(l) \union
  UNION {{<<f[1], e[2] \union f[2]>> :
            f \in {g \in Edits(e[1]) : \E x \in g[2], y \in e[2] : x[1] = y[1]}} :
         e \in Edits(l)}

(***************************************************************************)
(* PcpChanges.                                                             *)
(***************************************************************************)

(* FindSiteDependencies: the paths of indexes that depend on a site, or    *)
(* below it.  Stored dependencies on ancestors of the site are translated  *)
(* to where the site is in the index.                                      *)
Dependents(site, recurseOnSite, onlyExisting) ==
  LET entries == {e \in DOMAIN deps : e[1] = site[1]
        /\ (IsPrefix(e[2], site[2]) \/ (recurseOnSite /\ IsPrefix(site[2], e[2])))}
      Local(e) == IF IsPrefix(site[2], e[2]) THEN e[2] ELSE site[2]
      NodesUsing(p, e) == {n \in cached[p].nodes \union cached[p].culled :
        BagIn(p, deps[e]) /\ Last(n).stack = e[1] /\ IsPrefix(Last(n).path, e[2])}
      Translated(p, e) ==
        {p \o SubSeq(Local(e), Len(Last(n).path) + 1, Len(Local(e))) : n \in NodesUsing(p, e)}
      found == UNION {Translated(p, e) : p \in DOMAIN cached, e \in entries}
  IN  {p \in found \union {q \in {site[2]} : site[1] = Root} : onlyExisting => IsValid(p)}

Significant == {"addNonInert", "removeNonInert", "references", "replaceContent"}
Inert == {"addInert", "removeInert"}

Kinds(entries, site) == {e[2] : e \in {f \in entries : f[1] = site}}

(* Prims that may be new have no dependents yet that exist.                *)
DidChangeEntry(entries, site) ==
  IF Kinds(entries, site) \intersect Significant = {} THEN {}
  ELSE Dependents(site, TRUE,
         Kinds(entries, site) \intersect
           {"addInert", "addNonInert", "removeInert", "removeNonInert"} = {})

(* DidChangeSpecs: what a dependent of an inert spec has to do for it.     *)
SpecChange(l, p, site) ==
  CASE p = <<>> -> "specs"
    [] p # <<>> /\ IsValid(p) /\ cached[p].withSpecs # {} ->
         IF site \notin l.specs /\ Rescan(l, cached[p].nodes) = {} THEN "significant"
         ELSE IF \E n \in cached[p].nodes : SiteOf(n) = site THEN "specs"
         ELSE IF site \in l.specs THEN "prims" ELSE "specs"
    [] OTHER -> IF site \in l.specs THEN "significant" ELSE "specs"

DidChange(l, entries) ==
  LET sites == {e[1] : e \in entries}
      inert == {s \in sites : Kinds(entries, s) \intersect Inert # {}
                  /\ Kinds(entries, s) \intersect {"addNonInert", "removeNonInert"} = {}}
      specChanges == UNION {{<<p, SpecChange(l, p, s)>> : p \in Dependents(s, FALSE, FALSE)} :
                              s \in inert}
      Of(kind) == {x[1] : x \in {y \in specChanges : y[2] = kind}}
  IN  [significant |-> UNION {DidChangeEntry(entries, s) : s \in sites} \union Of("significant"),
       prims |-> Of("prims"), specs |-> Of("specs")]

(* PcpCache::Apply: indexes at and below what changed significantly go,    *)
(* those of changed prims are emptied, and specs are scanned again.  What  *)
(* has none left goes too.                                                 *)
Apply(l, changes) ==
  LET gone == UNION {Subtree(p, DOMAIN cached) : p \in changes.significant}
      emptied == (DOMAIN cached \intersect changes.prims) \ gone
      scanned == {p \in (DOMAIN cached \intersect changes.specs) \ (gone \union emptied) :
                    IsValid(p)}
      bare == {p \in scanned : Rescan(l, cached[p].nodes) = {}}
      goneToo == UNION {Subtree(p, DOMAIN cached) : p \in bare}
  IN  IF <<>> \in changes.significant
      THEN cached' = <<>> /\ deps' = <<>>
      ELSE /\ cached' = [p \in DOMAIN cached \ (gone \union goneToo) |->
                           IF p \in emptied THEN EmptyIndex
                           ELSE IF p \in scanned
                           THEN [cached[p] EXCEPT !.withSpecs = Rescan(l, cached[p].nodes)]
                           ELSE cached[p]]
           /\ deps' = RemoveFrom(deps, {p \in gone \union goneToo \union emptied : IsValid(p)})

(***************************************************************************)
(* The actions.                                                            *)
(***************************************************************************)

Init ==
  /\ layers = [specs |-> {}, defs |-> {}, arcs |-> {}]
  /\ cached = <<>> /\ deps = <<>>

(* ComputePrimIndex, once the parent's is there.                           *)
ComputePrimIndex(p) ==
  /\ ~IsValid(p)
  /\ p # <<>> => IsValid(Front(p))
  /\ LET ix == IF p = <<>> THEN RootGraph(<<Root, p>>)
               ELSE IndexFromParent(layers, cached[Front(p)], Last(p))
     IN  /\ cached' = [q \in DOMAIN cached \union {p} |-> IF q = p THEN ix ELSE cached[q]]
         /\ deps' = AddAllOf(deps, p, ix)
  /\ UNCHANGED layers

(* Layers change, in one change block, and the cache is told.  Indexes     *)
(* that it emptied before have been rebuilt, as didChangePrims asks.       *)
ChangeLayers ==
  /\ \A p \in DOMAIN cached : IsValid(p)
  /\ \E b \in Blocks(layers) :
       layers' = b[1] /\ Apply(b[1], DidChange(b[1], b[2]))

Next == (\E p \in PrimPaths[Root] : ComputePrimIndex(p)) \/ ChangeLayers

Spec == Init /\ [][Next]_vars

(***************************************************************************)
(* Properties.                                                             *)
(***************************************************************************)

(* Every index in the cache is the one that composing anew would give.     *)
IndexesAreCurrent ==
  LET composed == Composed(layers)
  IN  \A p \in DOMAIN cached : IsValid(p) =>
        /\ cached[p].withSpecs = composed[p].withSpecs
        /\ composed[p].nodes \subseteq cached[p].nodes

(* A site is depended on as many times as direct nodes of indexes are at   *)
(* it; tables have no entries below which nothing is depended on.          *)
DependenciesAreExact ==
  LET Uses(p, e) == Cardinality({n \in Stored(cached[p]) : SiteOf(n) = e})
  IN  /\ \A p \in DOMAIN cached : \A n \in Stored(cached[p]) : SiteOf(n) \in DOMAIN deps
      /\ \A e \in DOMAIN deps :
           /\ \A p \in DOMAIN cached :
                IF BagIn(p, deps[e]) THEN deps[e][p] = Uses(p, e) ELSE Uses(p, e) = 0
           /\ BagToSet(deps[e]) \subseteq DOMAIN cached
           /\ \E f \in Children(e, DOMAIN deps) : deps[f] # EmptyBag
=============================================================================
