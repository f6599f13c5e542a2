---------------------------- MODULE Aggregation ----------------------------
(***************************************************************************)
(* ClusterList::aggregate_cluster_graph: the points of the feature space   *)
(* become clusters, first the areas of points without a shift, then along  *)
(* the shift vectors; on request each cluster is coalesced with its        *)
(* strongest neighbour; at last the points that were filled in go.         *)
(*                                                                         *)
(* Points are gone through in any order: the threads that build the        *)
(* feature space leave the order of the list open, addresses the order of  *)
(* the set of points without a shift.  A cluster is named by the point it  *)
(* was created for.                                                        *)
(***************************************************************************)
EXTENDS Naturals, Sequences, SequencesExt

CONSTANTS
  Points,   \* the points of the feature space
  None,     \* NULL
  Near,     \* the pairs that ArrayIndex::find_neighbours returns
  Inputs    \* what the mean-shift may have left, see InputType

InputType ==
  [zero : SUBSET Points,                \* no spatial shift
   target : [Points -> Points \cup {None}],   \* at gridpoint + gridded_shift
   original : SUBSET Points,            \* isOriginalPoint
   response : [Points -> Nat],          \* of the weight function, 0 for what
                                        \* is not above numeric_limits::min()
   coalesce : BOOLEAN]                  \* coalesceWithStrongestNeighbour

ASSUME AggregationAssumption ==
  /\ None \notin Points
  /\ Near \subseteq Points \X Points
  /\ \A p, q \in Points : <<p, q>> \in Near => <<q, p>> \in Near
  /\ Inputs \subseteq InputType

VARIABLES
  input,
  pc,         \* the loop the function has come to
  pairs,      \* of the first loop: points and neighbours to be looked at
  todo,       \* of the second loop: points to be looked at
  i,          \* the index into clusters of the loops over clusters
  clusters,   \* the list, in order
  owner,      \* Point::cluster
  list        \* Cluster::m_points, how often a point is in it

vars == <<input, pc, pairs, todo, i, clusters, owner, list>>

Empty == [p \in Points |-> 0]
Plus(l, m) == [p \in Points |-> l[p] + m[p]]
Single(p) == [Empty EXCEPT ![p] = 1]
Size(l) == SumFunction(l)
Has(c) == {p \in Points : list[c][p] > 0}
Index(c) == CHOOSE k \in DOMAIN clusters : clusters[k] = c

ZeroPairs(in) ==
  {pair \in Near : pair[1] # pair[2] /\ pair[1] \in in.zero /\ pair[2] \in in.zero}
Shifted(in) == in.original \ in.zero

Init ==
  /\ input \in Inputs
  /\ pc = "aggregate" /\ i = 1
  /\ pairs = ZeroPairs(input) /\ todo = Shifted(input)
  /\ clusters = <<>>
  /\ owner = [p \in Points |-> None]
  /\ list = [c \in Points |-> Empty]

-----------------------------------------------------------------------------
(* Cluster::add_point.                                                     *)
AddPoint(c, p) ==
  /\ list' = [list EXCEPT ![c][p] = @ + 1]
  /\ owner' = [owner EXCEPT ![p] = c]
  /\ UNCHANGED clusters

AbsorbKeepingOwners(c, d) ==
  /\ list' = [list EXCEPT ![c] = Plus(@, list[d]), ![d] = Empty]
  /\ clusters' = RemoveAt(clusters, Index(d))
  /\ UNCHANGED owner

(* Cluster::add_points with the points of another cluster, that is deleted.*)
Absorb(c, d) ==
  /\ list' = [list EXCEPT ![c] = Plus(@, list[d]), ![d] = Empty]
  /\ owner' = [p \in Points |-> IF p \in Has(d) THEN c ELSE owner[p]]
  /\ clusters' = RemoveAt(clusters, Index(d))

(* Two points that belong together; which cluster stays if they have two.  *)
JoinUnlessBoth(p, q, stays, goes) ==
  \/ /\ owner[p] = None /\ owner[q] = None
     /\ clusters' = Append(clusters, p)
     /\ owner' = [owner EXCEPT ![p] = p, ![q] = p]
     /\ list' = [list EXCEPT ![p] = Plus(Single(p), Single(q))]
  \/ owner[p] = None /\ owner[q] # None /\ AddPoint(owner[q], p)
  \/ owner[p] # None /\ owner[q] = None /\ AddPoint(owner[p], q)
  \/ owner[p] # None /\ owner[q] # None /\ UNCHANGED <<clusters, owner, list>>

JoinPointOnly(p, q, stays, goes) ==
  \/ /\ owner[p] = None /\ owner[q] = None
     /\ clusters' = Append(clusters, p)
     /\ owner' = [owner EXCEPT ![p] = p, ![q] = p]
     /\ list' = [list EXCEPT ![p] = Plus(Single(p), Single(q))]
  \/ owner[p] = None /\ owner[q] # None /\ AddPoint(owner[q], p)
  \/ owner[p] # None /\ owner[q] # owner[p] /\ AddPoint(owner[p], q)
  \/ owner[p] # None /\ owner[p] = owner[q] /\ UNCHANGED <<clusters, owner, list>>

Join(p, q, stays, goes) ==
  \/ /\ owner[p] = None /\ owner[q] = None
     /\ clusters' = Append(clusters, p)
     /\ owner' = [owner EXCEPT ![p] = p, ![q] = p]
     /\ list' = [list EXCEPT ![p] = Plus(Single(p), Single(q))]
  \/ owner[p] = None /\ owner[q] # None /\ AddPoint(owner[q], p)
  \/ owner[p] # None /\ owner[q] = None /\ AddPoint(owner[p], q)
  \/ owner[p] # None /\ owner[q] # None /\ owner[p] # owner[q] /\ Absorb(stays, goes)
  \/ owner[p] # None /\ owner[p] = owner[q] /\ UNCHANGED <<clusters, owner, list>>

(* aggregate_zeroshifts: a point and a neighbour, both without a shift.    *)
ZeroShift(p, n) ==
  /\ pc = "aggregate" /\ <<p, n>> \in pairs
  /\ Join(p, n, owner[n], owner[p])
  /\ pairs' = pairs \ {<<p, n>>}
  /\ UNCHANGED <<input, pc, todo, i>>

Smaller(c, d) == IF Size(list[c]) >= Size(list[d]) THEN d ELSE c
Bigger(c, d) == IF Size(list[c]) >= Size(list[d]) THEN c ELSE d

(* An original point and the point its shift vector leads to, if any: the  *)
(* point itself where the shift is less than the grid.                     *)
FollowShift(p) ==
  /\ pc = "aggregate" /\ pairs = {} /\ p \in todo
  /\ LET predecessor == input.target[p] IN
     IF predecessor = None THEN UNCHANGED <<clusters, owner, list>>
     ELSE Join(p, predecessor, Bigger(owner[p], owner[predecessor]),
                               Smaller(owner[p], owner[predecessor]))
  /\ todo' = todo \ {p}
  /\ UNCHANGED <<input, pc, pairs, i>>

Aggregated ==
  /\ pc = "aggregate" /\ pairs = {} /\ todo = {}
  /\ pc' = IF input.coalesce THEN "coalesce" ELSE "erase"
  /\ UNCHANGED <<input, pairs, todo, i, clusters, owner, list>>

-----------------------------------------------------------------------------
Neighbours(c) ==
  {n \in Points : owner[n] # c /\ \E p \in Has(c) : <<p, n>> \in Near}

(* The neighbours one of which is found strongest; a tie is decided by the *)
(* order of points.                                                        *)
Strongest(c) ==
  {n \in Neighbours(c) : /\ input.response[n] > 0
                         /\ \A m \in Neighbours(c) : input.response[m] <= input.response[n]}

(* It may have no cluster; then the cluster stays alone.                   *)
Prevails(n, c) ==
  owner[n] # None /\ \A p \in Has(c) : input.response[p] <= input.response[n]

CoalesceRestarting ==
  /\ pc = "coalesce" /\ i <= Len(clusters)
  /\ LET c == clusters[i] IN
     \/ \E n \in Strongest(c) : Prevails(n, c) /\ Absorb(c, owner[n])
     \/ /\ Strongest(c) = {} \/ \E n \in Strongest(c) : ~Prevails(n, c)
        /\ UNCHANGED <<clusters, owner, list>>
  /\ i' = 2
  /\ UNCHANGED <<input, pc, pairs, todo>>

(* The index is set to 0 and counted up by the loop.                       *)
Coalesce ==
  /\ pc = "coalesce" /\ i <= Len(clusters)
  /\ LET c == clusters[i] IN
     \/ /\ \E n \in Strongest(c) : Prevails(n, c) /\ Absorb(c, owner[n])
        /\ i' = 2
     \/ /\ Strongest(c) = {} \/ \E n \in Strongest(c) : ~Prevails(n, c)
        /\ i' = i + 1
        /\ UNCHANGED <<clusters, owner, list>>
  /\ UNCHANGED <<input, pc, pairs, todo>>

Coalesced ==
  /\ pc = "coalesce" /\ i > Len(clusters)
  /\ pc' = "erase" /\ i' = 1
  /\ UNCHANGED <<input, pairs, todo, clusters, owner, list>>

EraseKeepingDoubles ==
  /\ pc = "erase" /\ i <= Len(clusters)
  /\ LET c == clusters[i]
         keepers == Has(c) \cap input.original
     IN  /\ list' = [list EXCEPT ![c] =
                       [p \in Points |-> IF p \in keepers THEN list[c][p] ELSE 0]]
         /\ IF keepers = {} THEN clusters' = RemoveAt(clusters, i) /\ i' = i
                            ELSE i' = i + 1 /\ UNCHANGED clusters
  /\ UNCHANGED <<input, pc, pairs, todo, owner>>

EraseSteppingBack ==
  /\ pc = "erase" /\ i <= Len(clusters)
  /\ LET c == clusters[i]
         keepers == Has(c) \cap input.original
     IN  /\ list' = [list EXCEPT ![c] =
                       [p \in Points |-> IF p \in keepers THEN 1 ELSE 0]]
         /\ IF keepers = {} THEN clusters' = RemoveAt(clusters, i) /\ i' = i - 1
                            ELSE i' = i + 1 /\ UNCHANGED clusters
  /\ UNCHANGED <<input, pc, pairs, todo, owner>>

(* Only original points stay, each once; Point::cluster is left alone.     *)
Erase ==
  /\ pc = "erase" /\ i <= Len(clusters)
  /\ LET c == clusters[i]
         keepers == Has(c) \cap input.original
     IN  /\ list' = [list EXCEPT ![c] =
                       [p \in Points |-> IF p \in keepers THEN 1 ELSE 0]]
         /\ IF keepers = {} THEN clusters' = RemoveAt(clusters, i) /\ i' = i
                            ELSE i' = i + 1 /\ UNCHANGED clusters
  /\ UNCHANGED <<input, pc, pairs, todo, owner>>

Erased ==
  /\ pc = "erase" /\ i > Len(clusters)
  /\ pc' = "done"
  /\ UNCHANGED <<input, pairs, todo, i, clusters, owner, list>>

Next ==
  \/ \E p, n \in Points : ZeroShift(p, n)
  \/ \E p \in Points : FollowShift(p)
  \/ Aggregated \/ Coalesce \/ Coalesced \/ Erase \/ Erased

Spec == Init /\ [][Next]_vars /\ WF_vars(Next)

-----------------------------------------------------------------------------
(* Types of the loops, and of the points and clusters they work on.        *)
TypeOK ==
  /\ input \in Inputs
  /\ pc \in {"aggregate", "coalesce", "erase", "done"}
  /\ pairs \subseteq Near /\ todo \subseteq Points
  /\ i \in Nat \ {0}
  /\ clusters \in Seq(Points)
  /\ owner \in [Points -> Points \cup {None}]
  /\ list \in [Points -> [Points -> Nat]]

(* Point::cluster and the lists of points agree: nothing points to a       *)
(* cluster that is deleted, no point is in two clusters, none is lost.     *)
(* Points that were filled in are let go of at the end only.               *)
PointsAndClusters ==
  /\ IsInjective(clusters)
  /\ \A c \in Points : c \in Range(clusters) <=> Has(c) # {}
  /\ \A p, c \in Points :
       (pc \in {"aggregate", "coalesce"} \/ p \in input.original)
         => (owner[p] = c <=> p \in Has(c))

Links ==
  ZeroPairs(input) \cup
  {<<p, input.target[p]>> : p \in {q \in Shifted(input) : input.target[q] # None}}

Closed(S) == \A link \in Links : link[1] \in S <=> link[2] \in S

(* Whatever the order of points, the clusters of the graph are the parts   *)
(* the links connect.                                                      *)
ClustersAreComponents ==
  pc = "aggregate" /\ pairs = {} /\ todo = {} =>
    /\ \A link \in Links : owner[link[1]] = owner[link[2]] /\ owner[link[1]] # None
    /\ \A S \in SUBSET Points : Closed(S) =>
         \A p \in S, q \in Points \ S : owner[p] # None => owner[p] # owner[q]
    /\ \A p \in Points :
         owner[p] # None => \E link \in Links : p \in {link[1], link[2]}

(* At the end an original point is in the list of the cluster it points to,*)
(* once, and in no other; and no point that was filled in is in any.       *)
OriginalsOnce ==
  pc = "done" =>
    \A p, c \in Points :
      list[c][p] = IF p \in input.original /\ owner[p] = c THEN 1 ELSE 0

(* Disjoint groups only grow together, where links or neighbours are.      *)
Groups == INSTANCE Partition WITH
  groups <- {Has(c) : c \in {clusters[k] : k \in DOMAIN clusters}},
  joins <- Links \cup (IF input.coalesce THEN Near ELSE {}),
  keep <- input.original
GroupsGrowTogether == Groups!Spec

(* The loops come to an end, the one that starts over included.            *)
Ends == <>(pc = "done")
=============================================================================
