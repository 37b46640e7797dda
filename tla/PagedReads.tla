----------------------------- MODULE PagedReads -----------------------------
(* Reads of the asset registry that take several requests: keyset pages over *)
(* a list that is queried, sorted and cut anew for each request               *)
(* (FMCPPageCursor), the search for call sites with its index cursor, and the *)
(* walks along package dependencies.                                          *)
EXTENDS EditorSession, Integers, Sequences, FiniteSets, SequencesExt, FiniteSetsExt

CONSTANTS
  Keys,          \* sort keys: the object paths, as naturals in their order
  Links,         \* pairs <<from, to>> of packages that may depend on each other
  Kinds,         \* what a filter selects: classes, tags or names
  PageSize,      \* page_size
  Blueprints,    \* how many blueprints the search for call sites meets
  MaxResults,    \* its max_results
  ScanCap,       \* kBPCSScanCap
  Depths,        \* max_depth of asset.dependency_graph
  NodeCaps       \* its max_nodes

ASSUME ReadSizes ==
  /\ Keys \subseteq Nat /\ IsFiniteSet(Keys) /\ Links \subseteq Keys \X Keys
  /\ PageSize \in Nat \ {0} /\ MaxResults \in Nat \ {0} /\ ScanCap \in Nat \ {0}
  /\ Blueprints \in Nat
  /\ Kinds # {}
  /\ Depths \subseteq Nat /\ NodeCaps \subseteq Nat \ {0}

VARIABLES
  assets,        \* the registry: key -> kind
  links,         \* <<from, to>>: package `from` depends on package `to`
  calls,         \* blueprint -> its nodes in graph order: whether each calls the function
  reader         \* the client that follows the pages

readVars == <<assets, links, calls, reader>>

NoReader == [ask |-> "none", at |-> "done", last |-> 0, node |-> 0,
             shown |-> {}, twice |-> FALSE, owed |-> {}, twins |-> FALSE]

ReadInit ==
  /\ assets \in Start("reads", [Keys -> Kinds])
  /\ links \in Start("reads", SUBSET Links)
  /\ calls \in Start("reads", [1 .. Blueprints -> UNION {[1 .. n -> BOOLEAN] : n \in 0 .. 2}])
  /\ links = {} \/ \A b \in 1 .. Blueprints : calls[b] = <<>>
  /\ links = {} \/ \A k, l \in Keys : assets[k] = assets[l]
  /\ reader = NoReader

------------------------------------------------------------------------------
(* The lists.  An entry is <<detail, key>>; the list is sorted by its keys.  *)

AssetsOf(kinds) == {<<0, k>> : k \in {a \in DOMAIN assets : assets[a] \in kinds}}

\* asset.list without a filter of its own; the searches add one.
AssetList == AssetsOf(Kinds)
SearchByClass(kind) == AssetsOf({kind})
SearchByTag(kind) == AssetsOf({kind})
SearchByName(kind) == AssetsOf({kind})
FindRedirectors(kind) == AssetsOf({kind})

\* The packages that a walk from root expands: itself and, if it is recursive,
\* what it reaches in `edges`.
Reached(edges, root) ==
  LET near[n \in 0 .. Cardinality(Keys)] ==
        IF n = 0 THEN {root} ELSE near[n - 1] \cup {e[2] : e \in {d \in edges : d[1] \in near[n - 1]}}
  IN  near[Cardinality(Keys)]

\* AR_WalkDependencyGraph: every link that leaves an expanded package, so a
\* package that several others need is an entry for each of them.
WalkDependencyGraph(edges, root, recursive) ==
  {e \in edges : e[1] \in (IF recursive THEN Reached(edges, root) ELSE {root})}

Reversed(edges) == {<<e[2], e[1]>> : e \in edges}

\* asset.find_dependents and asset.find_references.
FindDependents(root, recursive) == WalkDependencyGraph(links, root, recursive)
FindReferences(root, recursive) == WalkDependencyGraph(Reversed(links), root, recursive)

\* package.get_dependencies and package.get_referencers, in one reply.
GetDependencies(root, recursive) == FindDependents(root, recursive)
GetReferencers(root) == FindReferences(root, FALSE)

Listing(ask) ==
  CASE ask = "all"        -> AssetList
    [] ask = "class"      -> SearchByClass(1)
    [] ask = "dependents" -> FindDependents(1, TRUE)
    [] ask = "references" -> FindReferences(1, FALSE)
    [] OTHER              -> {}

Listings == {"all", "class", "dependents", "references"}

------------------------------------------------------------------------------
(* Keyset pages.                                                            *)

\* Mutant: an entry with the last key begins the next page.
RestFrom(entries, last) == {e \in entries : e[2] >= last}

\* Entries whose key is not after the last one shown are skipped.
Rest(entries, last) == {e \in entries : e[2] > last}

Precedes(a, b) == a[2] < b[2] \/ (a[2] = b[2] /\ a[1] < b[1])

\* AR_SlicePage, AR_SliceDependencyPage: the first entries of what is left.
SlicePage(rest) == {e \in rest : Cardinality({d \in rest : Precedes(d, e)}) < PageSize}

Twins(entries) == \E a, b \in entries : a # b /\ a[2] = b[2]

\* The reply, with a next token if entries are left.
Paged(r, rest) ==
  [r EXCEPT !.shown = @ \cup SlicePage(rest),
            !.twice = @ \/ r.shown \cap SlicePage(rest) # {},
            !.last = IF rest = {} THEN @ ELSE Max({e[2] : e \in SlicePage(rest)}),
            !.at = IF Cardinality(rest) > PageSize THEN "paging" ELSE "done"]

ReadFirst ==
  \E ask \in Listings :
    /\ reader.at = "done"
    /\ reader' = Paged([NoReader EXCEPT !.ask = ask, !.owed = Listing(ask), !.twins = Twins(Listing(ask))],
                       Listing(ask))

\* AR_DecodeCursor: the token holds a hash of the filter, and another filter
\* is refused as stale.
ReadNext ==
  \E ask \in Listings :
    /\ reader.at = "paging" /\ reader.ask \in Listings
    /\ reader' = IF ask = reader.ask
                 THEN Paged(reader, Rest(Listing(ask), reader.last))
                 ELSE [NoReader EXCEPT !.ask = "stale"]

------------------------------------------------------------------------------
(* bp.find_function_callsites.                                              *)

Sites == {s \in (1 .. Blueprints) \X (1 .. 2) : s[2] \in DOMAIN calls[s[1]] /\ calls[s[1]][s[2]]}

\* The call sites at or after the cursor <<BPIndex, NodeIndex>>, both of which
\* count from 0: nodes are skipped in the cursor's blueprint only.
SitesFrom(from) ==
  {s \in Sites : s[1] > from[1] + 1 \/ (s[1] = from[1] + 1 /\ s[2] > from[2])}

Earlier(s, t) == s[1] < t[1] \/ (s[1] = t[1] /\ s[2] < t[2])

\* One request: it stops after max_results sites, behind the last of them, or
\* after kBPCSScanCap blueprints, before the next.
Scanned(r, from) ==
  LET window == {s \in SitesFrom(from) : s[1] <= from[1] + ScanCap}
      page   == {s \in window : Cardinality({t \in window : Earlier(t, s)}) < MaxResults}
      end    == CHOOSE s \in page : \A t \in page \ {s} : Earlier(t, s)
      full   == Cardinality(window) >= MaxResults
      next   == IF full THEN <<end[1] - 1, end[2]>> ELSE <<from[1] + ScanCap, 0>>
      more   == next[1] < Blueprints
  IN  [r EXCEPT !.shown = @ \cup page,
                !.twice = @ \/ r.shown \cap page # {},
                !.last = next[1], !.node = next[2],
                !.at = IF more THEN "paging" ELSE "done"]

FindCallsites ==
  /\ \/ /\ reader.at = "done"
        /\ reader' = Scanned([NoReader EXCEPT !.ask = "callsites", !.owed = Sites], <<0, 0>>)
     \/ /\ reader.at = "paging" /\ reader.ask = "callsites"
        /\ reader' = Scanned(reader, <<reader.last, reader.node>>)

------------------------------------------------------------------------------
(* asset.dependency_graph: a breadth-first walk with two bounds.            *)

Directions == {"dependencies", "referencers", "both"}

\* The registry gives packages in an order of its own.
RegistryOrders == {o \in [Keys -> 1 .. Cardinality(Keys)] : \A k, l \in Keys : o[k] = o[l] => k = l}

\* A request; the type and engine filters let the packages in `matching` through.
GraphRequests ==
  [root : Keys, direction : Directions, matching : SUBSET Keys, order : RegistryOrders,
   max_depth : Depths, max_nodes : NodeCaps]

\* Where the walk may go from a package: <<package, next, direction>>.  The
\* filters are asked of `next` only, so the root need not match.
Hops(req) ==
  {h \in Keys \X req.matching \X {"dependency", "referencer"} :
     \/ h[3] = "dependency" /\ req.direction # "referencers" /\ <<h[1], h[2]>> \in links
     \/ h[3] = "referencer" /\ req.direction # "dependencies" /\ <<h[2], h[1]>> \in links}

Listed(packages, order) ==
  CHOOSE s \in [1 .. Cardinality(packages) -> packages] :
    \A i, j \in DOMAIN s : i < j => order[s[i]] < order[s[j]]

\* Mutant: an edge is given although its end found no room.
ProcessHopAlways(g, cur, hops, req) ==
  LET fresh == {h[2] : h \in hops} \ DOMAIN g.depth
      room  == req.max_nodes - Cardinality(DOMAIN g.depth)
      taken == {k \in fresh : Cardinality({l \in fresh : req.order[l] < req.order[k]}) < room}
  IN  [g EXCEPT !.depth = [k \in DOMAIN g.depth \cup taken |->
                             IF k \in taken THEN g.depth[cur] + 1 ELSE g.depth[k]],
                !.queue = @ \o Listed(taken, req.order),
                !.edges = @ \cup hops,
                !.truncated = @ \cup (IF taken = fresh THEN {} ELSE {"max_nodes"})]

\* A hop to a package that is new needs room among the nodes; without it
\* neither the package nor the edge is given.
ProcessHop(g, cur, hops, req) ==
  LET fresh == {h[2] : h \in hops} \ DOMAIN g.depth
      room  == req.max_nodes - Cardinality(DOMAIN g.depth)
      taken == {k \in fresh : Cardinality({l \in fresh : req.order[l] < req.order[k]}) < room}
  IN  [g EXCEPT !.depth = [k \in DOMAIN g.depth \cup taken |->
                             IF k \in taken THEN g.depth[cur] + 1 ELSE g.depth[k]],
                !.queue = @ \o Listed(taken, req.order),
                !.edges = @ \cup {h \in hops : h[2] \in DOMAIN g.depth \cup taken},
                !.truncated = @ \cup (IF taken = fresh THEN {} ELSE {"max_nodes"})]

\* The package at the head of the frontier; at max_depth it is not expanded.
Expand(g, hops, req) ==
  LET cur      == Head(g.queue)
      rest     == [g EXCEPT !.queue = Tail(@)]
      by(kind) == {h \in hops : h[1] = cur /\ h[3] = kind}
  IN  IF g.depth[cur] >= req.max_depth
      THEN [rest EXCEPT !.truncated = @ \cup {"depth"}]
      ELSE ProcessHop(ProcessHop(rest, cur, by("dependency"), req), cur, by("referencer"), req)

DependencyGraph(hops, req) ==
  LET walk[n \in 0 .. Cardinality(Keys)] ==
        IF n = 0
        THEN [depth |-> [k \in {req.root} |-> 0], queue |-> <<req.root>>, edges |-> {}, truncated |-> {}]
        ELSE IF walk[n - 1].queue = <<>> THEN walk[n - 1] ELSE Expand(walk[n - 1], hops, req)
  IN  walk[Cardinality(Keys)]

------------------------------------------------------------------------------
(* Between the requests of a list what it lists comes and goes.             *)

Owing ==
  \E ask \in {reader.ask} :
    reader' = [reader EXCEPT !.owed = @ \cap Listing(ask)', !.twins = @ \/ Twins(Listing(ask)')]

AssetComes == \E k \in Keys \ DOMAIN assets, kind \in Kinds :
                assets' = [a \in DOMAIN assets \cup {k} |-> IF a = k THEN kind ELSE assets[a]]
AssetGoes  == \E k \in DOMAIN assets : assets' = [a \in DOMAIN assets \ {k} |-> assets[a]]
LinkMoves  == \E e \in Links :
                links' = IF e \in links THEN links \ {e} ELSE links \cup {e}

RegistryMoves ==
  /\ reader.at = "paging" /\ reader.ask \in Listings
  /\ \/ reader.ask \in {"all", "class"} /\ (AssetComes \/ AssetGoes) /\ UNCHANGED links
     \/ reader.ask \in {"dependents", "references"} /\ LinkMoves /\ UNCHANGED assets
  /\ UNCHANGED calls
  /\ Owing

Read ==
  /\ ReadFirst \/ ReadNext \/ FindCallsites
  /\ UNCHANGED <<assets, links, calls>>

ReadNextState == (Read \/ RegistryMoves) /\ Look

------------------------------------------------------------------------------
(* Properties.                                                              *)

\* Following the tokens of a list to its end shows every entry that was there
\* all the while, and none twice although the list changed between the pages,
\* as long as no two entries have the same key.
PagesComplete ==
  reader.at = "done" /\ reader.ask \in Listings /\ ~reader.twins =>
    /\ reader.owed \subseteq reader.shown
    /\ ~reader.twice

\* The search for call sites, request after request, gives each site once,
\* however its bounds cut it.
CallsitesOnce ==
  reader.at = "done" /\ reader.ask = "callsites" =>
    /\ reader.owed = reader.shown
    /\ ~reader.twice

\* What n hops reach from root.
Within(hops, root, n) ==
  LET near[k \in 0 .. n] ==
        IF k = 0 THEN {root} ELSE near[k - 1] \cup {h[2] : h \in {i \in hops : i[1] \in near[k - 1]}}
  IN  near[n]

\* asset.dependency_graph tells the truth whatever its bounds cut off and in
\* whatever order the registry gives the links: a node's depth is its distance;
\* the edges are all hops between the nodes that it gives, but those from nodes
\* at max_depth; if it does not say that max_nodes cut it, it has every package
\* within the depth; and if no bound did, the links lead nowhere else.
GraphIsTrue ==
  focus = "reads" /\ reader = NoReader =>
  \A req \in GraphRequests :
    LET hops  == Hops(req)
        g     == DependencyGraph(hops, req)
        nodes == DOMAIN g.depth
    IN  /\ g.edges = {h \in hops : {h[1], h[2]} \subseteq nodes /\ g.depth[h[1]] < req.max_depth}
        /\ \A k \in nodes :
             /\ k \in Within(hops, req.root, g.depth[k])
             /\ g.depth[k] > 0 => k \notin Within(hops, req.root, g.depth[k] - 1)
        /\ "max_nodes" \notin g.truncated => nodes = Within(hops, req.root, req.max_depth)
        /\ g.truncated = {} => \A h \in hops : h[1] \in nodes => h[2] \in nodes

\* A read that takes several requests leaves nothing out.
ReadsComplete == PagesComplete /\ CallsitesOnce
=============================================================================
