----------------------------- MODULE Partition -----------------------------
(***************************************************************************)
(* What ClusterList::aggregate_cluster_graph promises of the clusters: they*)
(* are disjoint groups of points that only grow together, and only where a *)
(* link or a neighbourhood joins them, until points that were filled in    *)
(* are dropped from them.                                                  *)
(***************************************************************************)

CONSTANT Points

VARIABLES
  groups,   \* disjoint sets of points
  joins,    \* the pairs of points that may bring groups together
  keep      \* the points that are not dropped at the end

Init == groups = {} /\ joins \subseteq Points \X Points /\ keep \subseteq Points

Touched(p, q) == {g \in groups : p \in g \/ q \in g}

(* The groups of two points become one.                                    *)
Join(p, q) ==
  /\ groups' = (groups \ Touched(p, q)) \cup {(UNION Touched(p, q)) \cup {p, q}}
  /\ UNCHANGED <<joins, keep>>

(* A group loses the points nobody keeps.                                  *)
Drop(g) ==
  /\ groups' = (groups \ {g}) \cup ({g \cap keep} \ {{}})
  /\ UNCHANGED <<joins, keep>>

Next ==
  \/ \E pair \in joins : Join(pair[1], pair[2])
  \/ \E g \in groups : Drop(g)

Spec == Init /\ [][Next]_<<groups, joins, keep>>
=============================================================================
