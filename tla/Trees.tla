-------------------------------- MODULE Trees --------------------------------
(* Trees given by a parent function, whose domain are the nodes; a node     *)
(* whose parent is not a node is a root.                                    *)
EXTENDS Naturals, FiniteSets

\* What is met on the way up from each node, one step further than in `met`.
Further(up, met) ==
  [m \in DOMAIN up |-> IF up[m] \in DOMAIN up THEN {up[m]} \cup met[up[m]] ELSE {}]

\* The nodes met within k steps, for each k.
Chains(up, depth) ==
  LET met[k \in 0 .. depth] ==
        IF k = 0 THEN [m \in DOMAIN up |-> {}] ELSE Further(up, met[k - 1])
  IN  met

\* The nodes met on the way up from n, at most `depth` of them.
ChainUp(up, n, depth) == Chains(up, depth)[depth][n]

Above(up, n) == ChainUp(up, n, Cardinality(DOMAIN up))
Below(up, n) == {m \in DOMAIN up : n \in Above(up, m)}

Children(up, n) == {m \in DOMAIN up : up[m] = n}

IsForest(up) == \A n \in DOMAIN up : n \notin Above(up, n)

\* The tree without the nodes of `gone`; `orphan` says what becomes of the
\* parent of their children.
Prune(up, gone, orphan) ==
  [n \in DOMAIN up \ gone |-> IF up[n] \in gone THEN orphan ELSE up[n]]
=============================================================================
