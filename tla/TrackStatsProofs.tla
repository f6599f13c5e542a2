-------------------------- MODULE TrackStatsProofs --------------------------
(***************************************************************************)
(* meanie3D-trackstats, for any directory: every link of the graph leads   *)
(* from a step to the next one, the links are those the lists name, and    *)
(* the statistics are those of the tracks in the files.                    *)
(***************************************************************************)
EXTENDS TrackStats, FiniteSetTheorems, TLAPS

Sizes == {Cardinality(cells) : cells \in SUBSET Cells}
NodeType == [uuid : Nat, id : Nat, step : Nat, size : Sizes]

Joins(l, m, n) ==
  /\ m.uuid = l.source /\ n.uuid = l.target
  /\ n.step = m.step + 1
  /\ l.id = (IF l.type = "Merge" THEN n.id ELSE m.id)
  /\ l.type = "Continue" => m.id = n.id

(* The links are between nodes, which are numbered by steps; and while a   *)
(* list is read its clusters have the types the file gives them.           *)
IInv ==
  /\ IsInput(input)
  /\ entry \in Nat /\ step \in Nat
  /\ pc = "cluster" => entry \in DOMAIN input.dir /\ List \notin Unread
  /\ nodes \in Seq(NodeType)
  /\ \A l \in links : \E m, n \in DOMAIN nodes : Joins(l, nodes[m], nodes[n])

(* A set of numbers has a least one.                                       *)
LEMMA HasLeast ==
  ASSUME NEW T, T \subseteq Nat, T # {}
  PROVE  \E x \in T : \A y \in T : x <= y
<1> DEFINE R == {ss \in Nat \X Nat : ss[1] < ss[2]}
<1>1. IsWellFoundedOn(R, Nat)
  BY NatLessThanWellFounded DEF OpToRel
<1>2. PICK x \in T : \A y \in T : ~ (<<y, x>> \in R)
  <2> HIDE DEF R
  <2> QED
    BY <1>1, WFMin
<1>3. ASSUME NEW y \in T PROVE x <= y
  <2>1. <<y, x>> \in Nat \X Nat /\ ~(<<y, x>>[1] < <<y, x>>[2])
    BY <1>2
  <2> QED
    BY <2>1
<1> QED
  BY <1>3

(* findNode finds a node of the id and the step, if there is one.          *)
LEMMA FirstMatches ==
  ASSUME nodes \in Seq(NodeType), NEW id, NEW s, Matching(id, s) # {}
  PROVE  \E n \in DOMAIN nodes : First(id, s) = nodes[n] /\ nodes[n].id = id /\ nodes[n].step = s
<1>1. Matching(id, s) \subseteq DOMAIN nodes /\ Matching(id, s) \subseteq Nat
  BY DEF Matching
<1>2. \E n \in Matching(id, s) : \A m \in Matching(id, s) : n <= m
  BY <1>1, HasLeast
<1> DEFINE least == CHOOSE n \in Matching(id, s) : \A m \in Matching(id, s) : n <= m
<1>3. least \in Matching(id, s)
  BY <1>2
<1>4. First(id, s) = nodes[least]
  BY DEF First
<1> QED
  BY <1>1, <1>3, <1>4 DEF Matching

(* What a file says about a cluster leads to links of three types, each of *)
(* an id the cluster has something to do with.                             *)
LEMMA SourceTypes ==
  ASSUME NEW node, NEW s \in SourcesInStep(node)
  PROVE  /\ s = <<s[1], s[2]>> /\ s[2] \in {"Split", "Merge", "Continue"}
         /\ s[2] = "Continue" => s[1] = node.id
BY DEF SourcesInStep

(* Each link to a node comes from one of the step before.                  *)
LEMMA LinksToJoin ==
  ASSUME nodes \in Seq(NodeType), NEW node \in NodeType, NEW l \in LinksTo(node)
  PROVE  \E m \in DOMAIN nodes : Joins(l, nodes[m], node)
<1>1. PICK s \in SourcesInStep(node) :
        /\ Matching(s[1], node.step - 1) # {}
        /\ l = LinkOf(First(s[1], node.step - 1), node, s[2])
  BY DEF LinksTo
<1>2. PICK m \in DOMAIN nodes :
        /\ First(s[1], node.step - 1) = nodes[m]
        /\ nodes[m].id = s[1] /\ nodes[m].step = node.step - 1
  BY <1>1, FirstMatches
<1>3. node.step = nodes[m].step + 1
  BY <1>2 DEF NodeType
<1>4. s[2] \in {"Split", "Merge", "Continue"} /\ (s[2] = "Continue" => s[1] = node.id)
  BY SourceTypes
<1>5. /\ l.source = nodes[m].uuid /\ l.target = node.uuid /\ l.type = s[2]
      /\ l.id = IF s[2] = "Merge" THEN node.id ELSE nodes[m].id
  BY <1>1, <1>2 DEF LinkOf
<1> QED
  BY <1>2, <1>3, <1>4, <1>5 DEF Joins

(* Nothing is read before the first step.                                  *)
LEMMA InitIInv == Init => IInv
<1> SUFFICES ASSUME Init PROVE IInv
  OBVIOUS
<1>1. IsInput(input) /\ entry = 1 /\ step = 0 /\ pc = "read" /\ nodes = <<>> /\ links = {}
  BY StatsAssumption DEF Init
<1> QED
  BY <1>1 DEF IInv

(* A cluster that is added has the type of those in a file.                *)
LEMMA ClusterTyped ==
  ASSUME IInv, pc = "cluster", next_cluster \in DOMAIN List.clusters
  PROVE  LET c == List.clusters[next_cluster] IN c.uuid \in Nat /\ c.id \in Nat /\ c.cells \in SUBSET Cells
<1>1. IsList(List)
  BY DEF IInv, IsInput, List
<1>2. List.clusters \in Seq(ClusterType)
  BY <1>1 DEF IsList
<1>3. List.clusters[next_cluster] \in ClusterType
  BY <1>2
<1> QED
  BY <1>3 DEF ClusterType

(* A node is added behind the others, with links from the step before.     *)
LEMMA AddClusterStep ==
  ASSUME IInv, AddCluster
  PROVE  IInv'
<1> DEFINE c == List.clusters[next_cluster]
           node == [uuid |-> c.uuid, id |-> c.id, step |-> step, size |-> Cardinality(c.cells)]
<1>1. c.uuid \in Nat /\ c.id \in Nat /\ c.cells \in SUBSET Cells
  BY ClusterTyped DEF AddCluster
<1>2. node \in NodeType
  <2>1. Cardinality(c.cells) \in Sizes /\ step \in Nat
    BY <1>1 DEF Sizes, IInv
  <2> HIDE DEF c
  <2> QED
    BY <1>1, <2>1 DEF NodeType
<1>3. nodes' = Append(nodes, node) /\ links' = links \cup {l \in LinksTo(node) : IsNew(l)}
  BY DEF AddCluster
<1> HIDE DEF node
<1>4. /\ nodes' \in Seq(NodeType)
      /\ \A n \in DOMAIN nodes : n \in DOMAIN nodes' /\ nodes'[n] = nodes[n]
      /\ \E n \in DOMAIN nodes' : nodes'[n] = node
  <2>1. nodes' \in Seq(NodeType) /\ Len(nodes) \in Nat
    BY <1>2, <1>3 DEF IInv
  <2>2. Len(nodes') = Len(nodes) + 1 /\ nodes'[Len(nodes) + 1] = node
    BY <1>2, <1>3 DEF IInv
  <2>3. \A n \in DOMAIN nodes : n \in DOMAIN nodes' /\ nodes'[n] = nodes[n]
    BY <1>2, <1>3 DEF IInv
  <2> QED
    BY <2>1, <2>2, <2>3
<1>5. ASSUME NEW l \in links'
      PROVE  \E m, n \in DOMAIN nodes' : Joins(l, nodes'[m], nodes'[n])
  <2>1. CASE l \in links
    BY <1>4, <2>1 DEF IInv
  <2>2. CASE l \in LinksTo(node)
    <3>1. \E m \in DOMAIN nodes : Joins(l, nodes[m], node)
      BY <1>2, <2>2, LinksToJoin DEF IInv
    <3> QED
      BY <1>4, <3>1
  <2> QED
    BY <1>3, <2>1, <2>2
<1>6. pc' = "cluster" /\ IsInput(input)' /\ entry' \in Nat /\ step' \in Nat
      /\ entry' \in DOMAIN input'.dir /\ List' \notin Unread
  BY DEF AddCluster, IInv, IsInput, List
<1> QED
  BY <1>4, <1>5, <1>6 DEF IInv

(* The other steps leave the graph alone.                                  *)
LEMMA OtherSteps ==
  ASSUME IInv, [Next]_vars, ~AddCluster
  PROVE  IInv'
<1>1. UNCHANGED <<nodes, links>>
  BY DEF Next, SkipEntry, Abort, FailToRead, ReadList, EndList, EndReading, WriteDictionary,
         ProcessTrack, EndProcessing, vars, read, graph
<1>2. UNCHANGED input
  BY DEF Next, SkipEntry, Abort, FailToRead, ReadList, EndList, EndReading, WriteDictionary,
         ProcessTrack, EndProcessing, vars
<1>3. entry' \in Nat /\ step' \in Nat
  BY DEF IInv, Next, SkipEntry, Abort, FailToRead, ReadList, EndList, EndReading, WriteDictionary,
         ProcessTrack, EndProcessing, NextEntry, vars, reading
<1>4. pc' = "cluster" =>
        UNCHANGED entry /\ entry \in DOMAIN input.dir /\ List \notin Unread
  BY DEF IInv, Next, SkipEntry, Abort, FailToRead, ReadList, EndList, EndReading, WriteDictionary,
         ProcessTrack, EndProcessing, AtEntry, vars, reading
<1> QED
  BY <1>1, <1>2, <1>3, <1>4 DEF IInv, IsInput, List

(* A link leads from a node of one step to one of the next, by the id it   *)
(* is named after, whatever the directory lists in whatever order.         *)
THEOREM LinksJoinStepsHolds == Spec => []LinksJoinSteps
<1>1. IInv /\ [Next]_vars => IInv'
  BY AddClusterStep, OtherSteps
<1>2. IInv => LinksJoinSteps
  BY DEF IInv, Joins, LinksJoinSteps
<1>3. Spec => []IInv
  BY <1>1, InitIInv, PTL DEF Spec
<1> QED
  BY <1>2, <1>3, PTL

-----------------------------------------------------------------------------
(* The clusters that have been added, and their nodes.                     *)
Added ==
  {h \in Held : h[1] < entry \/ (pc = "cluster" /\ h[1] = entry /\ h[2] < next_cluster)}

NodeOf(h) ==
  [uuid |-> At(h).uuid, id |-> At(h).id, step |-> h[1] - 1, size |-> Cardinality(At(h).cells)]

Triple(l) == <<l.source, l.target, l.type>>

(* The list of h says that it goes on a cluster of the entry before.       *)
Says(t, h) ==
  \E g \in Held : /\ h[1] = g[1] + 1
                  /\ \E type \in Relations(g, h) : t = <<At(g).uuid, At(h).uuid, type>>

Progress ==
  /\ IInv
  /\ entry \in Nat \ {0} /\ step = entry - 1 /\ next_cluster \in Nat \ {0}
  /\ ReadingIsOver => entry \notin DOMAIN input.dir

NodesAdded ==
  /\ \A n \in DOMAIN nodes : \E h \in Added : nodes[n] = NodeOf(h)
  /\ \A h \in Added : \E n \in DOMAIN nodes : nodes[n] = NodeOf(h)

LinksAdded ==
  /\ \A l \in links : \E h \in Added : Says(Triple(l), h)
  /\ \A h \in Added : \A t : Says(t, h) => \E l \in links : Triple(l) = t

GraphInv == Progress /\ NodesAdded /\ LinksAdded

(* A cluster is held by one entry in one place.                            *)
LEMMA HeldIs ==
  ASSUME IInv, NEW h \in Held
  PROVE  /\ h = <<h[1], h[2]>> /\ h[1] \in DOMAIN input.dir /\ h[1] \in Nat \ {0}
         /\ input.dir[h[1]] \notin Unread /\ IsList(input.dir[h[1]])
         /\ h[2] \in DOMAIN input.dir[h[1]].clusters /\ h[2] \in Nat \ {0}
         /\ At(h) \in ClusterType
<1>1. PICK e \in EntriesRead : h \in {e} \X DOMAIN input.dir[e].clusters
  BY DEF Held
<1>2. h = <<h[1], h[2]>> /\ h[1] = e /\ h[2] \in DOMAIN input.dir[e].clusters
  BY <1>1
<1>3. e \in DOMAIN input.dir /\ input.dir[e] \notin Unread /\ e \in Nat \ {0}
  BY DEF EntriesRead, IInv, IsInput
<1>4. IsList(input.dir[e])
  BY <1>3 DEF IInv, IsInput
<1>5. input.dir[e].clusters \in Seq(ClusterType)
  BY <1>4 DEF IsList
<1>6. input.dir[e].clusters[h[2]] \in ClusterType /\ h[2] \in Nat \ {0}
  BY <1>2, <1>5
<1> QED
  BY <1>2, <1>3, <1>4, <1>6 DEF At

(* Entries hold their clusters.                                            *)
LEMMA IsHeld ==
  ASSUME NEW e \in DOMAIN input.dir, input.dir[e] \notin Unread, NEW c \in DOMAIN input.dir[e].clusters
  PROVE  <<e, c>> \in Held
  BY DEF Held, EntriesRead

(* Two clusters of an entry with one id are one cluster.                   *)
LEMMA IdIsUnique ==
  ASSUME IInv, NEW g \in Held, NEW h \in Held, g[1] = h[1], At(g).id = At(h).id
  PROVE  g = h
<1>1. /\ g = <<g[1], g[2]>> /\ h = <<h[1], h[2]>> /\ IsList(input.dir[g[1]])
      /\ g[2] \in DOMAIN input.dir[g[1]].clusters /\ h[2] \in DOMAIN input.dir[g[1]].clusters
  BY HeldIs
<1>2. g[2] = h[2]
  BY <1>1 DEF IsList, At
<1> QED
  BY <1>1, <1>2

(* The node of a cluster is found by its id and its step.                  *)
LEMMA FirstIs ==
  ASSUME IInv, NodesAdded, NEW g \in Added
  PROVE  Matching(At(g).id, g[1] - 1) # {} /\ First(At(g).id, g[1] - 1) = NodeOf(g)
<1>1. PICK n \in DOMAIN nodes : nodes[n] = NodeOf(g)
  BY DEF NodesAdded
<1>2. n \in Matching(At(g).id, g[1] - 1)
  BY <1>1 DEF Matching, NodeOf
<1>3. PICK m \in DOMAIN nodes :
        First(At(g).id, g[1] - 1) = nodes[m] /\ nodes[m].id = At(g).id /\ nodes[m].step = g[1] - 1
  BY <1>2, FirstMatches DEF IInv
<1>4. PICK h \in Added : nodes[m] = NodeOf(h)
  BY DEF NodesAdded
<1>5. g \in Held /\ h \in Held
  BY DEF Added
<1>6. At(h).id = At(g).id /\ h[1] - 1 = g[1] - 1
  BY <1>3, <1>4 DEF NodeOf
<1>7. h[1] = g[1]
  BY <1>5, <1>6, HeldIs
<1> QED
  BY <1>2, <1>3, <1>4, <1>5, <1>6, <1>7, IdIsUnique

(* What a file says of the origins of a cluster.                           *)
LEMMA Sources ==
  ASSUME NEW node, NEW a, NEW type
  PROVE  <<a, type>> \in SourcesInStep(node) <=>
           \/ type = "Split" /\ a \in DOMAIN List.splits /\ node.id \in List.splits[a]
           \/ type = "Merge" /\ node.id \in DOMAIN List.merges /\ a \in List.merges[node.id]
           \/ type = "Continue" /\ a = node.id /\ a \in List.tracked
  BY DEF SourcesInStep

(* The links to the next cluster are what its list says.                   *)
LEMMA LinksToSay ==
  ASSUME GraphInv, pc = "cluster", NEW h \in Held, h = <<entry, next_cluster>>
  PROVE  /\ \A l \in LinksTo(NodeOf(h)) : Says(Triple(l), h)
         /\ \A t : Says(t, h) => \E l \in LinksTo(NodeOf(h)) : Triple(l) = t
<1> USE DEF GraphInv, Progress
<1> DEFINE node == NodeOf(h)
<1>1. node.id = At(h).id /\ node.uuid = At(h).uuid /\ node.step = entry - 1 /\ h[1] = entry
  BY DEF NodeOf
<1>2. List = input.dir[h[1]]
  BY DEF List
<1>3. ASSUME NEW l \in LinksTo(node) PROVE Says(Triple(l), h)
  <2>1. PICK s \in SourcesInStep(node) :
          /\ Matching(s[1], node.step - 1) # {}
          /\ l = LinkOf(First(s[1], node.step - 1), node, s[2])
    BY <1>3 DEF LinksTo
  <2>2. s = <<s[1], s[2]>> /\ s[2] \in {"Split", "Merge", "Continue"}
    BY SourceTypes
  <2>3. PICK m \in DOMAIN nodes :
          /\ First(s[1], node.step - 1) = nodes[m]
          /\ nodes[m].id = s[1] /\ nodes[m].step = node.step - 1
    BY <2>1, FirstMatches DEF IInv
  <2>4. PICK g \in Added : nodes[m] = NodeOf(g)
    BY DEF NodesAdded
  <2>5. g \in Held /\ g[1] \in Nat
    BY HeldIs DEF Added
  <2>6. At(g).id = s[1] /\ g[1] - 1 = (entry - 1) - 1 /\ nodes[m].uuid = At(g).uuid
    BY <1>1, <2>3, <2>4 DEF NodeOf
  <2>7. h[1] = g[1] + 1
    BY <1>1, <2>5, <2>6
  <2>8. s[2] \in Relations(g, h)
    BY <1>1, <1>2, <2>1, <2>2, <2>6, Sources DEF Relations
  <2>9. Triple(l) = <<At(g).uuid, At(h).uuid, s[2]>>
    BY <1>1, <2>1, <2>3, <2>6 DEF Triple, LinkOf
  <2> QED
    BY <2>5, <2>7, <2>8, <2>9 DEF Says
<1>4. ASSUME NEW t, Says(t, h) PROVE \E l \in LinksTo(node) : Triple(l) = t
  <2>0. PICK g \in Held :
          h[1] = g[1] + 1 /\ \E type \in Relations(g, h) : t = <<At(g).uuid, At(h).uuid, type>>
    BY <1>4 DEF Says
  <2>1. PICK type \in Relations(g, h) : t = <<At(g).uuid, At(h).uuid, type>>
    BY <2>0
  <2>2. g[1] \in Nat /\ g[1] < entry /\ g[1] - 1 = node.step - 1
    BY <1>1, <2>0, HeldIs
  <2>3. g \in Added
    BY <2>2 DEF Added
  <2>4. Matching(At(g).id, node.step - 1) # {} /\ First(At(g).id, node.step - 1) = NodeOf(g)
    BY <2>2, <2>3, FirstIs
  <2>5. <<At(g).id, type>> \in SourcesInStep(node)
    BY <1>1, <1>2, <2>1, Sources DEF Relations
  <2> DEFINE l == LinkOf(NodeOf(g), node, type)
  <2>6. l \in LinksTo(node)
    <3>1. l = LinkOf(First(<<At(g).id, type>>[1], node.step - 1), node, <<At(g).id, type>>[2])
      BY <2>4
    <3>2. Matching(<<At(g).id, type>>[1], node.step - 1) # {}
      BY <2>4
    <3> QED
      BY <2>5, <3>1, <3>2 DEF LinksTo
  <2>7. Triple(l) = t
    BY <1>1, <2>1 DEF Triple, LinkOf, NodeOf
  <2> QED
    BY <2>6, <2>7
<1> QED
  BY <1>3, <1>4

(* What the files hold does not change.                                    *)
LEMMA SameInput ==
  ASSUME UNCHANGED input
  PROVE  /\ Held' = Held /\ (\A h : NodeOf(h)' = NodeOf(h))
         /\ \A t, h : Says(t, h)' <=> Says(t, h)
  BY DEF Held, EntriesRead, NodeOf, At, Says, Relations

(* Where the program has come to.                                          *)
LEMMA StepProgress ==
  ASSUME Progress, [Next]_vars
  PROVE  Progress' /\ UNCHANGED input
<1>1. IInv'
  BY AddClusterStep, OtherSteps DEF Progress
<1>2. UNCHANGED input
  BY DEF Next, SkipEntry, Abort, FailToRead, ReadList, AddCluster, EndList, EndReading,
         WriteDictionary, ProcessTrack, EndProcessing, vars
<1>3. UNCHANGED <<entry, step>> \/ (entry' = entry + 1 /\ step' = step + 1)
  BY DEF Next, SkipEntry, Abort, FailToRead, ReadList, AddCluster, EndList, EndReading,
         WriteDictionary, ProcessTrack, EndProcessing, NextEntry, vars, reading
<1>4. next_cluster' \in Nat \ {0}
  <2>1. CASE ReadList
    BY <2>1 DEF Progress, ReadList
  <2>2. CASE AddCluster
    BY <2>2 DEF Progress, AddCluster
  <2>3. CASE ~ReadList /\ ~AddCluster
    <3>1. UNCHANGED next_cluster
      BY <2>3 DEF Next, SkipEntry, Abort, FailToRead, EndList, EndReading, WriteDictionary,
         ProcessTrack, EndProcessing, vars, reading
    <3> QED
      BY <3>1 DEF Progress
  <2> QED
    BY <2>1, <2>2, <2>3
<1>5. ReadingIsOver' => UNCHANGED entry /\ entry \notin DOMAIN input.dir
  BY DEF Progress, ReadingIsOver, Next, SkipEntry, Abort, FailToRead, ReadList, AddCluster, EndList,
         EndReading, WriteDictionary, ProcessTrack, EndProcessing, AtEntry, vars, reading
<1> QED
  BY <1>1, <1>2, <1>3, <1>4, <1>5 DEF Progress

(* Only AddCluster adds a cluster: the others leave an entry only when it  *)
(* has none, or none left.                                                 *)
LEMMA SameAdded ==
  ASSUME GraphInv, [Next]_vars, ~AddCluster
  PROVE  Added' = Added /\ UNCHANGED <<nodes, links>>
<1> USE DEF GraphInv, Progress
<1>0. UNCHANGED <<nodes, links>> /\ Held' = Held
  <2>1. UNCHANGED <<nodes, links, input>>
    BY DEF Next, SkipEntry, Abort, FailToRead, ReadList, EndList, EndReading, WriteDictionary,
           ProcessTrack, EndProcessing, vars, read, graph
  <2> QED
    BY <2>1, SameInput
<1>1. \A h \in Held : h[1] \in Nat \ {0} /\ h[2] \in Nat \ {0}
  BY HeldIs
<1>2. CASE SkipEntry \/ FailToRead
  <2>1. entry' = entry + 1 /\ pc = "read" /\ pc' = "read" /\ input.dir[entry] \in Unread
    BY <1>2 DEF SkipEntry, FailToRead, AtEntry, NextEntry, List, Unread
  <2>2. \A h \in Held : h[1] # entry
    BY <2>1, HeldIs
  <2>3. \A h \in Held : h[1] < entry' <=> h[1] < entry
    BY <1>1, <2>1, <2>2
  <2> QED
    BY <1>0, <2>1, <2>3 DEF Added
<1>3. CASE ReadList
  <2>1. entry' = entry /\ pc = "read" /\ (pc' = "cluster" => next_cluster' = 1)
    BY <1>3 DEF ReadList, AtEntry
  <2>2. \A h \in Held : ~(h[2] < 1)
    BY <1>1
  <2> QED
    BY <1>0, <2>1, <2>2 DEF Added
<1>4. CASE EndList
  <2>1. /\ pc = "cluster" /\ pc' = "read" /\ entry' = entry + 1
        /\ next_cluster \notin DOMAIN List.clusters
    BY <1>4 DEF EndList, NextEntry
  <2>2. \A h \in Held : h[1] = entry => h[2] < next_cluster
    <3> SUFFICES ASSUME NEW h \in Held, h[1] = entry PROVE h[2] < next_cluster
      OBVIOUS
    <3>1. IsList(List) /\ h[2] \in DOMAIN List.clusters
      BY HeldIs DEF List
    <3>2. List.clusters \in Seq(ClusterType)
      BY <3>1 DEF IsList
    <3>3. Len(List.clusters) \in Nat /\ DOMAIN List.clusters = 1 .. Len(List.clusters)
      BY <3>2
    <3> QED
      BY <2>1, <3>1, <3>3
  <2>3. \A h \in Held : h[1] < entry' <=> h[1] < entry \/ h[1] = entry
    BY <1>1, <2>1
  <2> QED
    BY <1>0, <2>1, <2>2, <2>3 DEF Added
<1>5. CASE Abort \/ EndReading \/ WriteDictionary \/ ProcessTrack \/ EndProcessing
  <2>1. UNCHANGED <<entry, next_cluster>> /\ pc # "cluster" /\ pc' # "cluster"
    BY <1>5 DEF Abort, EndReading, WriteDictionary, ProcessTrack, EndProcessing, AtEntry, reading
  <2> QED
    BY <1>0, <2>1 DEF Added
<1>6. CASE UNCHANGED vars
  BY <1>0, <1>6 DEF vars, reading, Added
<1> QED
  BY <1>2, <1>3, <1>4, <1>5, <1>6 DEF Next

(* AddCluster adds one, its node and its links.                            *)
LEMMA OneAdded ==
  ASSUME GraphInv, AddCluster
  PROVE  \E h \in Held :
           /\ h = <<entry, next_cluster>>
           /\ Added' = Added \cup {h}
           /\ nodes' = Append(nodes, NodeOf(h)) /\ NodeOf(h) \in NodeType
           /\ links' = links \cup {l \in LinksTo(NodeOf(h)) : IsNew(l)}
<1> USE DEF GraphInv, Progress
<1> DEFINE h == <<entry, next_cluster>>
<1>1. pc = "cluster" /\ next_cluster \in DOMAIN List.clusters
  BY DEF AddCluster
<1>2. h \in Held /\ h[1] = entry /\ h[2] = next_cluster /\ At(h) = List.clusters[next_cluster]
  BY <1>1, IsHeld DEF IInv, List, At
<1>3. /\ nodes' = Append(nodes, NodeOf(h))
      /\ links' = links \cup {l \in LinksTo(NodeOf(h)) : IsNew(l)}
  <2>1. NodeOf(h) = [uuid |-> List.clusters[next_cluster].uuid, id |-> List.clusters[next_cluster].id,
                     step |-> step, size |-> Cardinality(List.clusters[next_cluster].cells)]
    BY <1>2 DEF NodeOf
  <2> QED
    BY <2>1 DEF AddCluster
<1>4. NodeOf(h) \in NodeType
  <2>1. At(h).uuid \in Nat /\ At(h).id \in Nat /\ At(h).cells \in SUBSET Cells
    BY <1>1, <1>2, ClusterTyped
  <2>2. Cardinality(At(h).cells) \in Sizes /\ h[1] - 1 \in Nat
    BY <1>2, <2>1 DEF Sizes
  <2> QED
    BY <2>1, <2>2 DEF NodeOf, NodeType
<1>5. Added' = Added \cup {h}
  <2>1. UNCHANGED <<input, entry, pc>> /\ next_cluster' = next_cluster + 1
    BY DEF AddCluster
  <2>2. Held' = Held
    BY <2>1, SameInput
  <2>3. \A g \in Held : g[1] = entry /\ g[2] = next_cluster => g = h
    BY HeldIs
  <2>4. \A g \in Held : g[2] < next_cluster + 1 <=> g[2] < next_cluster \/ g[2] = next_cluster
    BY HeldIs
  <2> QED
    BY <1>1, <1>2, <2>1, <2>2, <2>3, <2>4 DEF Added
<1> QED
  BY <1>2, <1>3, <1>4, <1>5

(* The graph has the nodes and the links of the clusters added.            *)
LEMMA StepGraph ==
  ASSUME GraphInv, [Next]_vars
  PROVE  GraphInv'
<1>p. Progress' /\ UNCHANGED input
  BY StepProgress DEF GraphInv
<1>s. (\A h : NodeOf(h)' = NodeOf(h)) /\ \A t, h : Says(t, h)' <=> Says(t, h)
  BY <1>p, SameInput
<1>1. CASE AddCluster
  <2>1. PICK h \in Held :
          /\ h = <<entry, next_cluster>>
          /\ Added' = Added \cup {h}
          /\ nodes' = Append(nodes, NodeOf(h)) /\ NodeOf(h) \in NodeType
          /\ links' = links \cup {l \in LinksTo(NodeOf(h)) : IsNew(l)}
    BY <1>1, OneAdded
  <2>2. /\ \A n \in DOMAIN nodes : n \in DOMAIN nodes' /\ nodes'[n] = nodes[n]
        /\ Len(nodes) + 1 \in DOMAIN nodes' /\ nodes'[Len(nodes) + 1] = NodeOf(h)
        /\ \A n \in DOMAIN nodes' : n \in DOMAIN nodes \/ n = Len(nodes) + 1
    BY <2>1 DEF GraphInv, Progress, IInv
  <2>3. NodesAdded'
    BY <1>s, <2>1, <2>2 DEF GraphInv, NodesAdded
  <2>4. /\ \A l \in LinksTo(NodeOf(h)) : Says(Triple(l), h)
        /\ \A t : Says(t, h) => \E l \in LinksTo(NodeOf(h)) : Triple(l) = t
    BY <1>1, <2>1, LinksToSay DEF AddCluster
  <2>5. ASSUME NEW l \in LinksTo(NodeOf(h)) PROVE \E k \in links' : Triple(k) = Triple(l)
    <3>1. CASE IsNew(l)
      BY <2>1, <3>1
    <3>2. CASE ~IsNew(l)
      BY <2>1, <3>2 DEF IsNew, Triple
    <3> QED
      BY <3>1, <3>2
  <2>6. \A l \in links' : \E g \in Added' : Says(Triple(l), g)
    BY <2>1, <2>4 DEF GraphInv, LinksAdded
  <2>7. \A g \in Added' : \A t : Says(t, g) => \E l \in links' : Triple(l) = t
    <3> SUFFICES ASSUME NEW g \in Added', NEW t, Says(t, g) PROVE \E l \in links' : Triple(l) = t
      OBVIOUS
    <3>1. CASE g \in Added
      BY <2>1, <3>1 DEF GraphInv, LinksAdded
    <3>2. CASE g = h
      BY <2>4, <2>5, <3>2
    <3> QED
      BY <2>1, <3>1, <3>2
  <2>8. LinksAdded'
    BY <1>s, <2>6, <2>7 DEF LinksAdded, Triple
  <2> QED
    BY <1>p, <2>3, <2>8 DEF GraphInv
<1>2. CASE ~AddCluster
  <2>1. Added' = Added /\ UNCHANGED <<nodes, links>>
    BY <1>2, SameAdded
  <2>2. NodesAdded'
    BY <1>s, <2>1 DEF GraphInv, NodesAdded
  <2>3. LinksAdded'
    BY <1>s, <2>1 DEF GraphInv, LinksAdded, Triple
  <2> QED
    BY <1>p, <2>2, <2>3 DEF GraphInv
<1> QED
  BY <1>1, <1>2

(* Nothing is in the graph before the first entry.                         *)
LEMMA InitGraphInv == Init => GraphInv
<1> SUFFICES ASSUME Init PROVE GraphInv
  OBVIOUS
<1>1. IInv
  BY InitIInv
<1>2. entry = 1 /\ step = 0 /\ next_cluster = 1 /\ pc = "read" /\ nodes = <<>> /\ links = {}
  BY DEF Init
<1>3. Added = {}
  <2>1. \A h \in Held : h[1] \in Nat \ {0}
    BY <1>1, HeldIs
  <2> QED
    BY <1>2, <2>1 DEF Added
<1> QED
  BY <1>1, <1>2, <1>3 DEF GraphInv, Progress, NodesAdded, LinksAdded, ReadingIsOver

(* For directories of any length and in any order: when all is read, the   *)
(* links are those that the lists name, from each entry to the next.       *)
THEOREM GraphIsTracked == Spec => []LinkedAsTracked
<1>1. Init => GraphInv
  BY InitGraphInv
<1>2. GraphInv => LinkedAsTracked
  <2> SUFFICES ASSUME GraphInv, ReadingIsOver PROVE LinkedAsTracked
    BY DEF LinkedAsTracked
  <2>1. Added = Held
    <3>1. entry \notin DOMAIN input.dir /\ entry \in Nat \ {0} /\ IInv
      BY DEF GraphInv, Progress
    <3>2. DOMAIN input.dir = 1 .. Len(input.dir) /\ Len(input.dir) \in Nat
      BY <3>1 DEF IInv, IsInput
    <3>3. \A h \in Held : h[1] < entry
      BY <3>1, <3>2, HeldIs
    <3> QED
      BY <3>3 DEF Added
  <2> DEFINE told == UNION {{<<At(p[1]).uuid, At(p[2]).uuid, type>> : type \in Relations(p[1], p[2])} :
                              p \in Consecutive}
  <2>2. ASSUME NEW t PROVE t \in told <=> \E h \in Held : Says(t, h)
    <3>1. ASSUME t \in told PROVE \E h \in Held : Says(t, h)
      <4>1. PICK p \in Consecutive :
              t \in {<<At(p[1]).uuid, At(p[2]).uuid, type>> : type \in Relations(p[1], p[2])}
        BY <3>1
      <4>2. p[1] \in Held /\ p[2] \in Held /\ p[2][1] = p[1][1] + 1
        BY DEF Consecutive
      <4> QED
        BY <4>1, <4>2 DEF Says
    <3>2. ASSUME NEW h \in Held, Says(t, h) PROVE t \in told
      <4>1. PICK g \in Held :
              h[1] = g[1] + 1 /\ \E type \in Relations(g, h) : t = <<At(g).uuid, At(h).uuid, type>>
        BY <3>2 DEF Says
      <4>2. <<g, h>> \in Consecutive
        BY <4>1 DEF Consecutive
      <4> DEFINE p == <<g, h>>
      <4>3. t \in {<<At(p[1]).uuid, At(p[2]).uuid, type>> : type \in Relations(p[1], p[2])}
        BY <4>1
      <4> QED
        BY <4>2, <4>3
    <3> QED
      BY <3>1, <3>2
  <2>3. \A t : t \in {Triple(l) : l \in links} <=> \E h \in Held : Says(t, h)
    BY <2>1 DEF GraphInv, LinksAdded
  <2> HIDE DEF told
  <2>4. {Triple(l) : l \in links} = told
    BY <2>2, <2>3
  <2> QED
    BY <2>4 DEF LinkedAsTracked, Triple, told
<1> QED
  BY <1>1, <1>2, StepGraph, PTL DEF Spec

-----------------------------------------------------------------------------
(* Clusters have finitely many points.                                     *)
LEMMA SizesAreNumbers == \A cells \in SUBSET Cells : Cardinality(cells) \in Nat
  BY StatsAssumption, FS_Subset, FS_CardinalityType

LinkType == [source : Nat, target : Nat, id : Nat, type : {"Split", "Merge", "Continue"}]
TrackType(id) == [id : {id}, uuid : Nat, size : Nat, step : Nat]

(* What is read of a directory, and what is made of it.                    *)
ReadTypes ==
  /\ pc \in {"read", "cluster", "write", "process", "done", "aborted", "exited", "crashed"}
  /\ opened \in BOOLEAN /\ spatial_rank \in Nat
  /\ links \subseteq LinkType
  /\ DOMAIN parked \subseteq Nat /\ \A u \in DOMAIN parked : parked[u] \subseteq Cells

TrackTypes ==
  /\ DOMAIN track_map \subseteq Nat
  /\ \A id \in DOMAIN track_map : track_map[id] \in Seq(TrackType(id)) \ {<<>>}
  /\ DOMAIN cluster_ranges = DOMAIN track_map
  /\ todo \subseteq DOMAIN track_map

CountTypes ==
  /\ number_of_degenerates \in Nat
  /\ DOMAIN track_lengths \subseteq Nat
  /\ length_histogram \in Seq(Nat)
  /\ Len(length_histogram) \in {Len(Bins), Len(Bins) + 1}

(* The types, but for those GraphInv has.                                  *)
LEMMA TypesAre ==
  ASSUME Progress, ReadTypes, TrackTypes, CountTypes
  PROVE  TypeOK
<1>2. nodes \in Seq([uuid : Nat, id : Nat, step : Nat, size : Nat])
  <2> DEFINE Wider == [uuid : Nat, id : Nat, step : Nat, size : Nat]
  <2>1. NodeType \subseteq Wider
    BY SizesAreNumbers DEF NodeType, Sizes
  <2>2. nodes \in Seq(NodeType)
    BY DEF Progress, IInv
  <2> HIDE DEF Wider
  <2>3. nodes \in Seq(Wider)
    BY <2>1, <2>2
  <2> QED
    BY <2>3 DEF Wider
<1>3. /\ IsInput(input) /\ entry \in Nat \ {0} /\ step = entry - 1 /\ next_cluster \in Nat \ {0}
      /\ pc = "cluster" => entry \in DOMAIN input.dir /\ List \notin Unread
  BY DEF Progress, IInv
<1> QED
  BY <1>2, <1>3 DEF TypeOK, ReadTypes, TrackTypes, CountTypes, LinkType, TrackType

(* Links are typed, because nodes are.                                     *)
LEMMA LinksToTyped ==
  ASSUME nodes \in Seq(NodeType), NEW node \in NodeType
  PROVE  LinksTo(node) \subseteq LinkType
<1> SUFFICES ASSUME NEW l \in LinksTo(node) PROVE l \in LinkType
  OBVIOUS
<1>1. PICK s \in SourcesInStep(node) :
        /\ Matching(s[1], node.step - 1) # {}
        /\ l = LinkOf(First(s[1], node.step - 1), node, s[2])
  BY DEF LinksTo
<1>2. PICK m \in DOMAIN nodes : First(s[1], node.step - 1) = nodes[m]
  BY <1>1, FirstMatches
<1>3. s[2] \in {"Split", "Merge", "Continue"}
  BY SourceTypes
<1>4. nodes[m].uuid \in Nat /\ nodes[m].id \in Nat /\ node.uuid \in Nat /\ node.id \in Nat
  <2>1. nodes[m] \in NodeType
    OBVIOUS
  <2> QED
    BY <2>1 DEF NodeType
<1> QED
  BY <1>1, <1>2, <1>3, <1>4 DEF LinkOf, LinkType

(* A step keeps the types of what is read.                                 *)
LEMMA StepReadTypes ==
  ASSUME GraphInv, ReadTypes, [Next]_vars
  PROVE  ReadTypes'
<1>1. CASE AddCluster
  <2>1. PICK h \in Held :
          /\ h = <<entry, next_cluster>>
          /\ NodeOf(h) \in NodeType
          /\ links' = links \cup {l \in LinksTo(NodeOf(h)) : IsNew(l)}
    BY <1>1, OneAdded
  <2>2. links' \subseteq LinkType
    BY <2>1, LinksToTyped DEF GraphInv, Progress, IInv, ReadTypes
  <2> DEFINE c == List.clusters[next_cluster]
  <2>3. c.uuid \in Nat /\ c.cells \in SUBSET Cells
    BY <1>1, ClusterTyped DEF AddCluster, GraphInv, Progress
  <2>4. parked' = Extend(parked, c.uuid, c.cells) \/ parked' = parked
    BY <1>1 DEF AddCluster, Parking
  <2>5. DOMAIN parked' \subseteq Nat /\ \A u \in DOMAIN parked' : parked'[u] \subseteq Cells
    <3>1. CASE parked' = parked
      BY <3>1 DEF ReadTypes
    <3>2. CASE parked' = Extend(parked, c.uuid, c.cells)
      <4> HIDE DEF c
      <4>1. DOMAIN parked' = DOMAIN parked \cup {c.uuid} /\ parked'[c.uuid] = c.cells
        BY <3>2 DEF Extend
      <4>2. \A u \in DOMAIN parked \ {c.uuid} : parked'[u] = parked[u]
        BY <3>2 DEF Extend
      <4> QED
        BY <2>3, <4>1, <4>2 DEF ReadTypes
    <3> QED
      BY <2>4, <3>1, <3>2
  <2> QED
    BY <1>1, <2>2, <2>5 DEF AddCluster, ReadTypes
<1>2. CASE ReadList
  <2>1. List.rank \in Nat
    BY <1>2 DEF ReadList, AtEntry, GraphInv, Progress, IInv, IsInput, IsList, List
  <2> QED
    BY <1>2, <2>1 DEF ReadList, ReadTypes, read, graph
<1>3. CASE SkipEntry \/ Abort \/ FailToRead \/ EndList \/ EndReading
  BY <1>3 DEF SkipEntry, Abort, FailToRead, EndList, EndReading, ReadTypes, read, graph, reading
<1>4. CASE WriteDictionary \/ ProcessTrack \/ EndProcessing \/ UNCHANGED vars
  BY <1>4 DEF WriteDictionary, ProcessTrack, EndProcessing, vars, ReadTypes, read, graph, reading
<1> QED
  BY <1>1, <1>2, <1>3, <1>4 DEF Next

(* Tracks have clusters, of one id each.                                   *)
LEMMA StepTrackTypes ==
  ASSUME GraphInv, TrackTypes, [Next]_vars
  PROVE  TrackTypes'
<1>1. CASE AddCluster
  <2> DEFINE c == List.clusters[next_cluster]
             sofar == IF c.id \in DOMAIN track_map THEN track_map[c.id] ELSE <<>>
             track == Append(sofar, Kept(c))
  <2>1. c.uuid \in Nat /\ c.id \in Nat /\ c.cells \in SUBSET Cells
    BY <1>1, ClusterTyped DEF AddCluster, GraphInv, Progress
  <2>2. /\ track_map' = Extend(track_map, c.id, track)
        /\ cluster_ranges' = Extend(cluster_ranges, c.id, c.value)
        /\ todo' = todo
    BY <1>1 DEF AddCluster
  <2>3. Kept(c) \in TrackType(c.id)
    <3>1. Cardinality(c.cells) \in Nat /\ step \in Nat
      BY <2>1, SizesAreNumbers DEF GraphInv, Progress, IInv
    <3> QED
      BY <2>1, <3>1 DEF Kept, TrackType
  <2>4. sofar \in Seq(TrackType(c.id))
    <3>1. c.id \in DOMAIN track_map => track_map[c.id] \in Seq(TrackType(c.id))
      BY DEF TrackTypes
    <3> HIDE DEF c
    <3>2. CASE c.id \in DOMAIN track_map
      BY <3>1, <3>2
    <3>3. CASE c.id \notin DOMAIN track_map
      BY <3>3
    <3> QED
      BY <3>2, <3>3
  <2>5. track \in Seq(TrackType(c.id)) /\ track # <<>>
    <3> HIDE DEF c, sofar
    <3> QED
      BY <2>3, <2>4
  <2> HIDE DEF c, sofar, track
  <2>6. DOMAIN track_map' = DOMAIN track_map \cup {c.id} /\ DOMAIN cluster_ranges' = DOMAIN track_map'
    <3>1. DOMAIN cluster_ranges = DOMAIN track_map
      BY DEF TrackTypes
    <3>2. DOMAIN track_map' = DOMAIN track_map \cup {c.id}
      BY <2>2 DEF Extend
    <3>3. DOMAIN cluster_ranges' = DOMAIN cluster_ranges \cup {c.id}
      BY <2>2 DEF Extend
    <3> QED
      BY <3>1, <3>2, <3>3
  <2>7. \A id \in DOMAIN track_map' : track_map'[id] \in Seq(TrackType(id)) \ {<<>>}
    <3>1. track_map'[c.id] = track /\ \A id \in DOMAIN track_map \ {c.id} : track_map'[id] = track_map[id]
      BY <2>2 DEF Extend
    <3>2. \A id \in DOMAIN track_map : track_map[id] \in Seq(TrackType(id)) \ {<<>>}
      BY DEF TrackTypes
    <3> QED
      BY <2>5, <2>6, <3>1, <3>2
  <2> QED
    BY <2>1, <2>2, <2>6, <2>7 DEF TrackTypes
<1>2. CASE ~AddCluster
  <2>1. UNCHANGED <<track_map, cluster_ranges>>
    BY <1>2 DEF Next, SkipEntry, Abort, FailToRead, ReadList, EndList, EndReading, WriteDictionary,
           ProcessTrack, EndProcessing, vars, read
  <2>2. todo' \subseteq DOMAIN track_map
    BY <1>2 DEF TrackTypes, Next, SkipEntry, Abort, FailToRead, ReadList, EndList, EndReading,
           WriteDictionary, ProcessTrack, EndProcessing, vars
  <2> QED
    BY <2>1, <2>2 DEF TrackTypes
<1> QED
  BY <1>1, <1>2

IsHistogram(histogram) ==
  histogram \in Seq(Nat) /\ Len(histogram) \in {Len(Bins), Len(Bins) + 1}

(* A value is counted in the one bin it is in, which there is.             *)
LEMMA AddToCounts ==
  ASSUME NEW histogram \in Seq(Nat), Len(histogram) \in {Len(Bins), Len(Bins) + 1}, NEW x \in Nat
  PROVE  /\ IsHistogram(AddTo(histogram, x))
         /\ \A b \in 1 .. Len(Bins) + 1 :
              CountIn(AddTo(histogram, x), b)
                = IF InBin(x, b) THEN CountIn(histogram, b) + 1 ELSE CountIn(histogram, b)
<1> DEFINE over == Len(Bins) + 1
           fitting == {b \in DOMAIN Bins : Fits(x, b)}
           added == AddTo(histogram, x)
<1>1. /\ Bins \in Seq(Nat) /\ Len(Bins) \in Nat /\ DOMAIN Bins = 1 .. Len(Bins) /\ over \in Nat
      /\ histogram \in Seq(Nat) /\ Len(histogram) \in {Len(Bins), over}
  BY StatsAssumption
<1>2. CASE fitting # {}
  <2> DEFINE bin == CHOOSE b \in fitting : \A a \in fitting : b <= a
  <2>1. fitting \subseteq Nat
    BY <1>1
  <2>2. \E b \in fitting : \A a \in fitting : b <= a
    BY <1>2, <2>1, HasLeast
  <2>3. bin \in fitting /\ \A a \in fitting : bin <= a
    BY <2>2
  <2>4. added = [histogram EXCEPT ![bin] = @ + 1]
    BY <1>2 DEF AddTo, Fits
  <2> HIDE DEF bin, added
  <2>5. bin \in 1 .. Len(Bins) /\ bin \in DOMAIN histogram /\ Fits(x, bin)
    BY <1>1, <2>3
  <2>6. IsHistogram(added)
    BY <1>1, <2>4, <2>5 DEF IsHistogram
  <2>7. ASSUME NEW b \in 1 .. over PROVE InBin(x, b) <=> b = bin
    <3>1. ASSUME InBin(x, b) PROVE b = bin
      <4>1. b \in DOMAIN Bins => Fits(x, b)
        BY <3>1 DEF InBin
      <4>2. ~(bin < b)
        BY <1>1, <2>5, <3>1 DEF InBin
      <4>3. b \in fitting
        BY <1>1, <2>5, <4>1, <4>2
      <4>4. bin <= b
        BY <2>3, <4>3
      <4> QED
        BY <2>5, <4>2, <4>4
    <3>2. b = bin => InBin(x, b)
      BY <1>1, <2>3, <2>5 DEF InBin
    <3> QED
      BY <3>1, <3>2
  <2>8. \A b \in 1 .. over :
          CountIn(added, b) = IF b = bin THEN CountIn(histogram, b) + 1 ELSE CountIn(histogram, b)
    BY <1>1, <2>4, <2>5 DEF CountIn
  <2> QED
    BY <2>6, <2>7, <2>8 DEF added
<1>3. CASE fitting = {}
  <2>1. added = [b \in 1 .. over |->
                   IF b = over THEN (IF over \in DOMAIN histogram THEN histogram[over] ELSE 0) + 1
                   ELSE histogram[b]]
    BY <1>3 DEF AddTo, Fits
  <2> HIDE DEF added
  <2>2. \A b \in 1 .. over : b = over \/ b \in DOMAIN histogram
    BY <1>1
  <2>3. \A b \in 1 .. over : added[b] \in Nat
    BY <1>1, <2>1, <2>2
  <2>4. DOMAIN added = 1 .. over /\ added \in Seq(Nat) /\ Len(added) = over
    BY <1>1, <2>1, <2>3
  <2>5. ASSUME NEW b \in 1 .. over PROVE InBin(x, b) <=> b = over
    <3>1. \A a \in DOMAIN Bins : ~Fits(x, a)
      BY <1>3
    <3>2. b \in DOMAIN Bins <=> b # over
      BY <1>1
    <3> QED
      BY <3>1, <3>2 DEF InBin
  <2>6. \A b \in 1 .. over :
          CountIn(added, b) = IF b = over THEN CountIn(histogram, b) + 1 ELSE CountIn(histogram, b)
    BY <1>1, <2>1, <2>2 DEF CountIn
  <2> QED
    BY <2>4, <2>5, <2>6 DEF added, IsHistogram
<1> QED
  BY <1>2, <1>3

(* Counts are numbers.                                                     *)
LEMMA StepCountTypes ==
  ASSUME TrackTypes, CountTypes, [Next]_vars
  PROVE  CountTypes'
<1>1. CASE ProcessTrack
  <2>1. PICK id \in todo :
          /\ number_of_degenerates' = number_of_degenerates + (IF IsDegenerate(id) THEN 1 ELSE 0)
          /\ \/ /\ track_lengths' = CountUp(track_lengths, Len(track_map[id]))
                /\ length_histogram' = AddTo(length_histogram, Len(track_map[id]))
             \/ UNCHANGED <<track_lengths, length_histogram>>
    BY <1>1 DEF ProcessTrack
  <2>2. Len(track_map[id]) \in Nat
    BY DEF TrackTypes
  <2>3. DOMAIN track_lengths' \subseteq Nat
    BY <2>1, <2>2 DEF CountTypes, CountUp, Extend
  <2>4. IsHistogram(length_histogram')
    <3>1. length_histogram \in Seq(Nat) /\ Len(length_histogram) \in {Len(Bins), Len(Bins) + 1}
      BY DEF CountTypes
    <3> DEFINE n == Len(track_map[id])
    <3> HIDE DEF n
    <3>2. n \in Nat
      BY <2>2 DEF n
    <3>3. IsHistogram(AddTo(length_histogram, n))
      BY <3>1, <3>2, AddToCounts
    <3> QED
      BY <2>1, <3>1, <3>3 DEF n, IsHistogram
  <2> QED
    BY <2>1, <2>3, <2>4 DEF CountTypes, IsHistogram
<1>2. CASE ~ProcessTrack
  <2>1. UNCHANGED <<number_of_degenerates, track_lengths, length_histogram>>
    BY <1>2 DEF Next, SkipEntry, Abort, FailToRead, ReadList, AddCluster, EndList, EndReading,
           WriteDictionary, EndProcessing, vars, counts
  <2> QED
    BY <2>1 DEF CountTypes
<1> QED
  BY <1>1, <1>2

Typed == GraphInv /\ ReadTypes /\ TrackTypes /\ CountTypes

(* The types hold at the start, and no step breaks them.                   *)
LEMMA TypedHolds == Spec => []Typed
<1>1. Init => Typed
  <2> SUFFICES ASSUME Init PROVE Typed
    OBVIOUS
  <2>1. GraphInv
    BY InitGraphInv
  <2>2. ReadTypes /\ TrackTypes
    <3>1. \A u \in DOMAIN input.leftover : u \in Nat /\ input.leftover[u] \subseteq Cells
      BY StatsAssumption DEF Init, IsInput
    <3>2. DOMAIN parked \subseteq Nat /\ \A u \in DOMAIN parked : parked[u] \subseteq Cells
      BY <3>1 DEF Init
    <3>3. DOMAIN track_map = {} /\ cluster_ranges = track_map
      BY DEF Init
    <3> QED
      BY <3>2, <3>3 DEF Init, ReadTypes, TrackTypes
  <2>3. CountTypes
    <3>1. Len(Bins) \in Nat /\ DOMAIN Bins = 1 .. Len(Bins)
      BY StatsAssumption
    <3>2. length_histogram \in Seq(Nat) /\ Len(length_histogram) = Len(Bins)
      BY <3>1 DEF Init
    <3>3. Len(length_histogram) \in {Len(Bins), Len(Bins) + 1}
      BY <3>2
    <3>4. number_of_degenerates = 0 /\ DOMAIN track_lengths = {}
      BY DEF Init
    <3> QED
      BY <3>2, <3>3, <3>4 DEF CountTypes
  <2> QED
    BY <2>1, <2>2, <2>3 DEF Typed
<1>2. Typed /\ [Next]_vars => Typed'
  BY StepGraph, StepReadTypes, StepTrackTypes, StepCountTypes DEF Typed
<1> QED
  BY <1>1, <1>2, PTL DEF Spec

(* Whatever the directory lists, in whatever order, what the program makes *)
(* of it has the types it is declared with: each track has clusters, all of*)
(* its id, and a range; histograms have a bin of their own for what exceeds*)
(* the last one, and no other.                                             *)
THEOREM StatsTypes == Spec => []TypeOK
<1>1. Typed => TypeOK
  BY TypesAre DEF Typed, GraphInv
<1> QED
  BY <1>1, TypedHolds, PTL

-----------------------------------------------------------------------------
AddedOf(id) == {h \in Added : At(h).id = id}

Uuids(track) == {track[c].uuid : c \in DOMAIN track}

(* Each id of the clusters added has a track of as many clusters, theirs.  *)
TracksAdded ==
  /\ IsFiniteSet(Added) /\ IsFiniteSet(DOMAIN track_map)
  /\ DOMAIN track_map = {At(h).id : h \in Added}
  /\ \A id \in DOMAIN track_map :
       /\ Len(track_map[id]) = Cardinality(AddedOf(id))
       /\ Uuids(track_map[id]) = {At(h).uuid : h \in AddedOf(id)}

(* Their points are found where they have been put.                        *)
PointsParked ==
  input.cumulated /\ DistinctUuids =>
    \A h \in Added : At(h).uuid \in DOMAIN parked /\ parked[At(h).uuid] = At(h).cells

(* The next cluster h goes on the track of its id.                         *)
Grows(h, id, sofar, last) ==
  /\ id = At(h).id /\ last.uuid = At(h).uuid
  /\ Added' = Added \cup {h}
  /\ sofar \in Seq(TrackType(id)) /\ last \in TrackType(id)
  /\ id \in DOMAIN track_map => sofar = track_map[id]
  /\ id \notin DOMAIN track_map => sofar = <<>>
  /\ track_map' = [i \in DOMAIN track_map \cup {id} |->
                     IF i = id THEN Append(sofar, last) ELSE track_map[i]]
  /\ parked' = IF input.cumulated THEN Extend(parked, At(h).uuid, At(h).cells) ELSE parked

(* What AddCluster does with the track of the next cluster.                *)
LEMMA TrackGrows ==
  ASSUME Typed, AddCluster
  PROVE  \E h \in Held \ Added : \E id, sofar, last : Grows(h, id, sofar, last)
<1> USE DEF Typed
<1>1. PICK h \in Held : h = <<entry, next_cluster>> /\ Added' = Added \cup {h}
  BY OneAdded
<1> DEFINE c == List.clusters[next_cluster]
           sofar == IF c.id \in DOMAIN track_map THEN track_map[c.id] ELSE <<>>
<1>2. c = At(h) /\ pc = "cluster" /\ next_cluster \in Nat /\ entry \in Nat
  BY <1>1 DEF AddCluster, At, List, GraphInv, Progress
<1>3. h \notin Added
  BY <1>1, <1>2 DEF Added
<1>4. /\ track_map' = Extend(track_map, c.id, Append(sofar, Kept(c)))
      /\ parked' = IF input.cumulated THEN Extend(parked, c.uuid, c.cells) ELSE parked
  BY DEF AddCluster, Parking
<1>5. c.uuid \in Nat /\ c.id \in Nat /\ c.cells \in SUBSET Cells
  BY ClusterTyped DEF AddCluster, GraphInv, Progress
<1>6. Kept(c) \in TrackType(c.id) /\ Kept(c).uuid = c.uuid
  <2>1. Cardinality(c.cells) \in Nat /\ step \in Nat
    BY <1>5, SizesAreNumbers DEF GraphInv, Progress, IInv
  <2> QED
    BY <1>5, <2>1 DEF Kept, TrackType
<1>7. sofar \in Seq(TrackType(c.id))
  <2>1. c.id \in DOMAIN track_map => track_map[c.id] \in Seq(TrackType(c.id))
    BY DEF TrackTypes
  <2> HIDE DEF c
  <2>2. CASE c.id \in DOMAIN track_map
    BY <2>1, <2>2
  <2>3. CASE c.id \notin DOMAIN track_map
    BY <2>3
  <2> QED
    BY <2>2, <2>3
<1>8. /\ c.id \in DOMAIN track_map => sofar = track_map[c.id]
      /\ c.id \notin DOMAIN track_map => sofar = <<>>
  OBVIOUS
<1> HIDE DEF c, sofar
<1>10. h \in Held \ Added
  BY <1>1, <1>3
<1> WITNESS h \in Held \ Added
<1> WITNESS c.id, sofar, Kept(c)
<1>9. track_map' = [i \in DOMAIN track_map \cup {c.id} |->
                      IF i = c.id THEN Append(sofar, Kept(c)) ELSE track_map[i]]
  BY <1>4 DEF Extend
<1> QED
  BY <1>1, <1>2, <1>3, <1>4, <1>6, <1>7, <1>8, <1>9 DEF Grows

(* A cluster more in the files is one more in its track.                   *)
LEMMA StepTracks ==
  ASSUME Typed, TracksAdded, [Next]_vars
  PROVE  TracksAdded'
<1>0. \A h : At(h)' = At(h)
  BY StepProgress DEF At, Typed, GraphInv
<1>1. CASE AddCluster
  <2>0. PICK h \in Held \ Added : \E id, sofar, last : Grows(h, id, sofar, last)
    BY <1>1, TrackGrows
  <2>00. PICK id, sofar, last : Grows(h, id, sofar, last)
    BY <2>0
  <2>1. /\ h \in Held \ Added
        /\ id = At(h).id /\ last.uuid = At(h).uuid
        /\ Added' = Added \cup {h}
        /\ sofar \in Seq(TrackType(id)) /\ last \in TrackType(id)
        /\ id \in DOMAIN track_map => sofar = track_map[id]
        /\ id \notin DOMAIN track_map => sofar = <<>>
        /\ track_map' = [i \in DOMAIN track_map \cup {id} |->
                           IF i = id THEN Append(sofar, last) ELSE track_map[i]]
    BY <2>00 DEF Grows
  <2>2. IsFiniteSet(Added') /\ IsFiniteSet(AddedOf(id))
    <3>1. AddedOf(id) \subseteq Added
      BY DEF AddedOf
    <3> QED
      BY <2>1, <3>1, FS_AddElement, FS_Subset DEF TracksAdded
  <2>3. DOMAIN track_map' = DOMAIN track_map \cup {id} /\ IsFiniteSet(DOMAIN track_map')
    <3>1. DOMAIN track_map' = DOMAIN track_map \cup {id}
      BY <2>1
    <3> QED
      BY <3>1, FS_AddElement DEF TracksAdded
  <2>4. DOMAIN track_map' = {At(g).id : g \in Added'}
    BY <2>1, <2>3 DEF TracksAdded
  <2>5. AddedOf(id)' = AddedOf(id) \cup {h}
    BY <1>0, <2>1 DEF AddedOf
  <2>6. \A i : i # id => AddedOf(i)' = AddedOf(i)
    BY <1>0, <2>1 DEF AddedOf
  <2>7. Len(sofar) = Cardinality(AddedOf(id)) /\ Uuids(sofar) = {At(g).uuid : g \in AddedOf(id)}
    <3>1. CASE id \in DOMAIN track_map
      BY <2>1, <3>1 DEF TracksAdded
    <3>2. CASE id \notin DOMAIN track_map
      <4>1. AddedOf(id) = {}
        BY <3>2 DEF TracksAdded, AddedOf
      <4>2. sofar = <<>>
        BY <2>1, <3>2
      <4> QED
        BY <4>1, <4>2, FS_EmptySet DEF Uuids
    <3> QED
      BY <3>1, <3>2
  <2>8. /\ Len(Append(sofar, last)) = Cardinality(AddedOf(id)')
        /\ Uuids(Append(sofar, last)) = {At(g).uuid : g \in AddedOf(id)'}
    <3>1. h \notin AddedOf(id)
      BY <2>1 DEF AddedOf
    <3>2. Cardinality(AddedOf(id)') = Cardinality(AddedOf(id)) + 1
      BY <2>2, <2>5, <3>1, FS_AddElement
    <3>3. Len(Append(sofar, last)) = Len(sofar) + 1
      BY <2>1
    <3>4. Uuids(Append(sofar, last)) = Uuids(sofar) \cup {last.uuid}
      BY <2>1 DEF Uuids
    <3> QED
      BY <2>1, <2>5, <2>7, <3>2, <3>3, <3>4
  <2>9. ASSUME NEW i \in DOMAIN track_map'
        PROVE  /\ Len(track_map'[i]) = Cardinality(AddedOf(i)')
               /\ Uuids(track_map'[i]) = {At(g).uuid : g \in AddedOf(i)'}
    <3>1. CASE i = id
      BY <2>1, <2>3, <2>8, <3>1
    <3>2. CASE i # id
      <4>1. track_map'[i] = track_map[i] /\ i \in DOMAIN track_map
        BY <2>1, <2>3, <3>2
      <4> QED
        BY <2>6, <3>2, <4>1 DEF TracksAdded
    <3> QED
      BY <3>1, <3>2
  <2> QED
    BY <1>0, <2>2, <2>3, <2>4, <2>9 DEF TracksAdded, Uuids
<1>2. CASE ~AddCluster
  <2>1. Added' = Added
    BY <1>2, SameAdded DEF Typed
  <2>2. UNCHANGED track_map
    BY <1>2 DEF Next, SkipEntry, Abort, FailToRead, ReadList, EndList, EndReading, WriteDictionary,
           ProcessTrack, EndProcessing, vars, read
  <2>3. \A i : AddedOf(i)' = AddedOf(i)
    BY <1>0, <2>1 DEF AddedOf
  <2>4. ASSUME NEW i \in DOMAIN track_map
        PROVE  /\ Len(track_map'[i]) = Cardinality(AddedOf(i)')
               /\ Uuids(track_map'[i]) = {At(g).uuid : g \in AddedOf(i)'}
    <3>1. AddedOf(i)' = AddedOf(i) /\ track_map'[i] = track_map[i]
      BY <2>2, <2>3
    <3> QED
      BY <3>1 DEF TracksAdded
  <2>5. \A i \in DOMAIN track_map : {At(g).uuid : g \in AddedOf(i)'} = {At(g)'.uuid : g \in AddedOf(i)'}
    BY <1>0
  <2>6. DOMAIN track_map = {At(g)'.id : g \in Added}
    BY <1>0 DEF TracksAdded
  <2> QED
    BY <2>1, <2>2, <2>4, <2>5, <2>6 DEF TracksAdded, Uuids
<1> QED
  BY <1>1, <1>2

(* Points are put under a uuid of their own.                               *)
LEMMA StepParked ==
  ASSUME Typed, PointsParked, [Next]_vars
  PROVE  PointsParked'
<1>0. (\A h : At(h)' = At(h)) /\ input' = input /\ Held' = Held
  BY StepProgress, SameInput DEF At, Typed, GraphInv
<1>1. DistinctUuids' <=> DistinctUuids
  BY <1>0 DEF DistinctUuids
<1>2. CASE AddCluster
  <2> SUFFICES ASSUME input.cumulated, DistinctUuids, NEW g \in Added'
               PROVE  At(g).uuid \in DOMAIN parked' /\ parked'[At(g).uuid] = At(g).cells
    BY <1>0, <1>1 DEF PointsParked
  <2>1. PICK h \in Held \ Added :
          /\ Added' = Added \cup {h}
          /\ parked' = Extend(parked, At(h).uuid, At(h).cells)
    BY <1>2, TrackGrows DEF Grows
  <2>2. CASE g = h
    BY <2>1, <2>2 DEF Extend
  <2>3. CASE g \in Added
    <3>1. At(g).uuid # At(h).uuid
      BY <2>1, <2>3 DEF DistinctUuids, Added
    <3>2. At(g).uuid \in DOMAIN parked /\ parked[At(g).uuid] = At(g).cells
      BY <2>3 DEF PointsParked
    <3> QED
      BY <2>1, <3>1, <3>2 DEF Extend
  <2> QED
    BY <2>1, <2>2, <2>3
<1>3. CASE ~AddCluster
  <2>1. Added' = Added
    BY <1>3, SameAdded DEF Typed
  <2>2. UNCHANGED parked
    BY <1>3 DEF Next, SkipEntry, Abort, FailToRead, ReadList, EndList, EndReading, WriteDictionary,
           ProcessTrack, EndProcessing, vars, read
  <2> QED
    BY <1>0, <1>1, <2>1, <2>2 DEF PointsParked
<1> QED
  BY <1>2, <1>3

(* The tracks processTracks has met, those of a length, those in a bin.    *)
Processed == IF pc \in {"process", "done"} THEN DOMAIN track_map \ todo ELSE {}
OfLength(n) == {id \in Processed : ~Excluded(id) /\ Len(track_map[id]) = n}
OfBin(b) == {id \in Processed : ~Excluded(id) /\ InBin(Len(track_map[id]), b)}
Degenerate == {id \in Processed : IsDegenerate(id)}

TracksCounted ==
  /\ pc # "crashed" =>
       /\ number_of_degenerates = Cardinality(Degenerate)
       /\ input.length =>
            /\ \A n \in Nat : CountIn(track_lengths, n) = Cardinality(OfLength(n))
            /\ \A b \in 1 .. Len(Bins) + 1 : CountIn(length_histogram, b) = Cardinality(OfBin(b))
  /\ pc = "done" => todo = {}

DictionaryWritten ==
  pc \in {"process", "done", "crashed"} /\ input.dictionary =>
    dictionary = [id \in {id \in DOMAIN track_map : ~Excluded(id)} |->
                    [c \in DOMAIN track_map[id] |->
                       [uuid |-> track_map[id][c].uuid, value |-> cluster_ranges[id]]]]

TrackCovered ==
  /\ pc # "crashed" => track_index = {}
  /\ track_index # {} =>
       \E id \in DOMAIN track_map : ~Excluded(id) /\ input.cumulated /\ track_index = Covered(id)

(* A track that is met counts once, as one more of its length.             *)
LEMMA StepCounted ==
  ASSUME Typed, TracksAdded, TracksCounted, [Next]_vars
  PROVE  TracksCounted'
<1>0. IsFiniteSet(Processed) /\ input' = input
  <2>1. Processed \subseteq DOMAIN track_map
    BY DEF Processed
  <2> QED
    BY <2>1, FS_Subset, StepProgress DEF TracksAdded, Typed, GraphInv
<1>1. CASE ProcessTrack
  <2>1. PICK id \in todo :
          /\ todo' = todo \ {id}
          /\ number_of_degenerates' = number_of_degenerates + (IF IsDegenerate(id) THEN 1 ELSE 0)
          /\ IF input.length /\ ~Excluded(id)
             THEN /\ track_lengths' = CountUp(track_lengths, Len(track_map[id]))
                  /\ length_histogram' = AddTo(length_histogram, Len(track_map[id]))
             ELSE UNCHANGED <<track_lengths, length_histogram>>
          /\ pc' \in {"crashed", pc}
    BY <1>1 DEF ProcessTrack
  <2>2. pc = "process" /\ UNCHANGED track_map
    BY <1>1 DEF ProcessTrack, read
  <2> SUFFICES ASSUME pc' # "crashed" PROVE TracksCounted'
    BY <2>1, <2>2 DEF TracksCounted
  <2> DEFINE length == Len(track_map[id])
  <2>3. length \in Nat /\ id \in DOMAIN track_map
    BY DEF Typed, TrackTypes
  <2>4. Processed' = Processed \cup {id} /\ id \notin Processed /\ pc' = "process"
    BY <2>1, <2>2, <2>3 DEF Processed
  <2>5. /\ \A i : IsDegenerate(i)' <=> IsDegenerate(i)
        /\ \A i : Excluded(i)' <=> Excluded(i)
    BY <1>0, <2>2 DEF IsDegenerate, Excluded
  <2>6. number_of_degenerates' = Cardinality(Degenerate')
    <3>1. IsFiniteSet(Degenerate) /\ Cardinality(Degenerate) \in Nat
      <4>1. Degenerate \subseteq Processed
        BY DEF Degenerate
      <4> QED
        BY <1>0, <4>1, FS_Subset, FS_CardinalityType
    <3>2. number_of_degenerates = Cardinality(Degenerate)
      BY <2>2 DEF TracksCounted
    <3>3. CASE IsDegenerate(id)
      <4>1. Degenerate' = Degenerate \cup {id} /\ id \notin Degenerate
        BY <2>4, <2>5, <3>3 DEF Degenerate
      <4> QED
        BY <2>1, <3>1, <3>2, <3>3, <4>1, FS_AddElement
    <3>4. CASE ~IsDegenerate(id)
      <4>1. Degenerate' = Degenerate
        BY <2>4, <2>5, <3>4 DEF Degenerate
      <4> QED
        BY <2>1, <3>1, <3>2, <3>4, <4>1
    <3> QED
      BY <3>3, <3>4
  <2>7. CASE input.length /\ ~Excluded(id)
    <3>1. track_lengths' = CountUp(track_lengths, length) /\ length_histogram' = AddTo(length_histogram, length)
      BY <2>1, <2>7
    <3>2. ASSUME NEW n \in Nat
          PROVE  CountIn(track_lengths', n) = Cardinality(OfLength(n)')
      <4>1. IsFiniteSet(OfLength(n)) /\ CountIn(track_lengths, n) = Cardinality(OfLength(n))
        <5>1. OfLength(n) \subseteq Processed
          BY DEF OfLength
        <5> QED
          BY <1>0, <2>2, <2>7, <5>1, FS_Subset DEF TracksCounted
      <4>2. CASE n = length
        <5>1. OfLength(n)' = OfLength(n) \cup {id} /\ id \notin OfLength(n)
          BY <2>2, <2>4, <2>5, <2>7, <4>2 DEF OfLength
        <5>2. CountIn(track_lengths', n) = CountIn(track_lengths, n) + 1
          BY <3>1, <4>2 DEF CountUp, Extend, CountIn
        <5> QED
          BY <4>1, <5>1, <5>2, FS_AddElement
      <4>3. CASE n # length
        <5>1. OfLength(n)' = OfLength(n)
          BY <2>2, <2>4, <2>5, <4>3 DEF OfLength
        <5>2. CountIn(track_lengths', n) = CountIn(track_lengths, n)
          BY <3>1, <4>3 DEF CountUp, Extend, CountIn
        <5> QED
          BY <4>1, <5>1, <5>2
      <4> QED
        BY <4>2, <4>3
    <3>3. ASSUME NEW b \in 1 .. Len(Bins) + 1
          PROVE  CountIn(length_histogram', b) = Cardinality(OfBin(b)')
      <4>1. IsFiniteSet(OfBin(b)) /\ CountIn(length_histogram, b) = Cardinality(OfBin(b))
        <5>1. OfBin(b) \subseteq Processed
          BY DEF OfBin
        <5> QED
          BY <1>0, <2>2, <2>7, <5>1, FS_Subset DEF TracksCounted
      <4>2. CountIn(AddTo(length_histogram, length), b)
              = IF InBin(length, b) THEN CountIn(length_histogram, b) + 1
                ELSE CountIn(length_histogram, b)
        <5>1. length_histogram \in Seq(Nat) /\ Len(length_histogram) \in {Len(Bins), Len(Bins) + 1}
          BY DEF Typed, CountTypes
        <5> HIDE DEF length
        <5> QED
          BY <2>3, <5>1, AddToCounts
      <4>3. CASE InBin(length, b)
        <5>1. OfBin(b)' = OfBin(b) \cup {id} /\ id \notin OfBin(b)
          BY <2>2, <2>4, <2>5, <2>7, <4>3 DEF OfBin
        <5>2. CountIn(length_histogram', b) = CountIn(length_histogram, b) + 1
          BY <3>1, <4>2, <4>3
        <5> QED
          BY <4>1, <5>1, <5>2, FS_AddElement
      <4>4. CASE ~InBin(length, b)
        <5>1. OfBin(b)' = OfBin(b)
          BY <2>2, <2>4, <2>5, <4>4 DEF OfBin
        <5>2. CountIn(length_histogram', b) = CountIn(length_histogram, b)
          BY <3>1, <4>2, <4>4
        <5> QED
          BY <4>1, <5>1, <5>2
      <4> QED
        BY <4>3, <4>4
    <3> QED
      BY <2>4, <2>6, <3>2, <3>3 DEF TracksCounted, CountIn
  <2>8. CASE ~(input.length /\ ~Excluded(id))
    <3>1. UNCHANGED <<track_lengths, length_histogram>>
      BY <2>1, <2>8
    <3>2. ASSUME input.length
          PROVE  (\A n : OfLength(n)' = OfLength(n)) /\ (\A b : OfBin(b)' = OfBin(b))
      BY <2>2, <2>4, <2>5, <2>8, <3>2 DEF OfLength, OfBin
    <3> QED
      BY <1>0, <2>2, <2>4, <2>6, <3>1, <3>2 DEF TracksCounted, CountIn
  <2> QED
    BY <2>7, <2>8
<1>2. CASE ~ProcessTrack
  <2>1. UNCHANGED <<number_of_degenerates, track_lengths, length_histogram>>
    BY <1>2 DEF Next, SkipEntry, Abort, FailToRead, ReadList, AddCluster, EndList, EndReading,
           WriteDictionary, EndProcessing, vars, counts
  <2>2. CASE pc' \in {"process", "done"} /\ ~WriteDictionary
    <3>1. UNCHANGED <<track_map, todo>> /\ pc \in {"process", "done"} /\ (pc' = "done" => todo = {})
      BY <1>2, <2>2 DEF Next, SkipEntry, Abort, FailToRead, ReadList, AddCluster, EndList, EndReading,
           EndProcessing, AtEntry, vars, read, TracksCounted
    <3>2. Processed' = Processed
      BY <2>2, <3>1 DEF Processed
    <3>3. /\ Degenerate' = Degenerate
          /\ \A n : OfLength(n)' = OfLength(n)
          /\ \A b : OfBin(b)' = OfBin(b)
      BY <1>0, <3>1, <3>2 DEF Degenerate, OfLength, OfBin, Excluded, IsDegenerate
    <3> QED
      BY <1>0, <2>1, <3>1, <3>3 DEF TracksCounted, CountIn
  <2>3. CASE pc' \notin {"process", "done"} \/ WriteDictionary
    <3> SUFFICES ASSUME pc' # "crashed" PROVE TracksCounted'
      BY DEF TracksCounted
    <3>1. pc # "crashed" /\ Processed = {}
      BY <1>2, <2>3 DEF Next, SkipEntry, Abort, FailToRead, ReadList, AddCluster, EndList, EndReading,
           WriteDictionary, EndProcessing, AtEntry, vars, Processed
    <3>2. Processed' = {} /\ pc' # "done"
      BY <2>3 DEF Processed, WriteDictionary, read
    <3>3. /\ Degenerate' = Degenerate
          /\ \A n : OfLength(n)' = OfLength(n)
          /\ \A b : OfBin(b)' = OfBin(b)
      BY <3>1, <3>2 DEF Degenerate, OfLength, OfBin
    <3> QED
      BY <1>0, <2>1, <3>1, <3>2, <3>3 DEF TracksCounted, CountIn
  <2> QED
    BY <2>2, <2>3
<1> QED
  BY <1>1, <1>2

(* The dictionary and the points of a track are those of the tracks read.  *)
LEMMA StepWritten ==
  ASSUME Typed, DictionaryWritten, TrackCovered, [Next]_vars
  PROVE  DictionaryWritten' /\ TrackCovered'
<1>0. input' = input
  BY StepProgress DEF Typed, GraphInv
<1>1. CASE UNCHANGED <<track_map, cluster_ranges, parked>>
  <2>1. /\ \A id : Excluded(id)' <=> Excluded(id)
        /\ \A id : Covered(id)' = Covered(id)
    BY <1>0, <1>1 DEF Excluded, IsDegenerate, Covered
  <2>2. DictionaryWritten'
    <3>1. CASE WriteDictionary
      BY <1>0, <1>1, <2>1, <3>1 DEF DictionaryWritten, WriteDictionary
    <3>2. CASE ~WriteDictionary
      <4>1. dictionary' = dictionary
        BY <3>2 DEF Next, SkipEntry, Abort, FailToRead, ReadList, AddCluster, EndList, EndReading,
           ProcessTrack, EndProcessing, vars
      <4>2. pc' \in {"process", "done", "crashed"} => pc \in {"process", "done", "crashed"}
        BY <3>2 DEF Next, SkipEntry, Abort, FailToRead, ReadList, AddCluster, EndList, EndReading,
           ProcessTrack, EndProcessing, AtEntry, vars
      <4> QED
        BY <1>0, <1>1, <2>1, <4>1, <4>2 DEF DictionaryWritten
    <3> QED
      BY <3>1, <3>2
  <2>3. TrackCovered'
    <3>1. CASE ProcessTrack
      <4>1. PICK id \in todo :
              IF input.cumulated /\ ~Excluded(id)
              THEN pc' = "crashed" /\ track_index' = Covered(id)
              ELSE UNCHANGED <<pc, track_index>>
        BY <3>1 DEF ProcessTrack
      <4>2. id \in DOMAIN track_map /\ pc = "process"
        BY <3>1 DEF ProcessTrack, Typed, TrackTypes
      <4> QED
        BY <1>0, <1>1, <2>1, <4>1, <4>2 DEF TrackCovered
    <3>2. CASE ~ProcessTrack
      <4>1. track_index' = track_index /\ (pc' # "crashed" => pc # "crashed")
        BY <3>2 DEF Next, SkipEntry, Abort, FailToRead, ReadList, AddCluster, EndList, EndReading,
           WriteDictionary, EndProcessing, AtEntry, vars, counts
      <4> QED
        BY <1>0, <1>1, <2>1, <4>1 DEF TrackCovered
    <3> QED
      BY <3>1, <3>2
  <2> QED
    BY <2>2, <2>3
<1>2. CASE AddCluster
  <2>1. pc = "cluster" /\ pc' = "cluster" /\ track_index' = track_index
    BY <1>2 DEF AddCluster, counts
  <2> QED
    BY <2>1 DEF DictionaryWritten, TrackCovered
<1> QED
  BY <1>1, <1>2 DEF Next, SkipEntry, Abort, FailToRead, ReadList, EndList, EndReading,
     WriteDictionary, ProcessTrack, EndProcessing, vars, read

StatsInv ==
  Typed /\ TracksAdded /\ PointsParked /\ TracksCounted /\ DictionaryWritten /\ TrackCovered

(* Nothing is added, counted or written at the start.                      *)
LEMMA InitStats ==
  ASSUME Init, Typed
  PROVE  StatsInv
<1>1. entry = 1 /\ next_cluster = 1 /\ pc = "read" /\ track_map = <<>> /\ IInv
  BY DEF Init, Typed, GraphInv, Progress
<1>2. Added = {}
  <2>1. \A h \in Held : h[1] \in Nat \ {0}
    BY <1>1, HeldIs
  <2> QED
    BY <1>1, <2>1 DEF Added
<1>3. DOMAIN track_map = {}
  BY <1>1
<1>4. TracksAdded /\ PointsParked
  BY <1>2, <1>3, FS_EmptySet DEF TracksAdded, PointsParked
<1>5. TracksCounted
  <2>1. /\ Degenerate = {} /\ \A n : OfLength(n) = {} /\ \A b : OfBin(b) = {}
    BY <1>1 DEF Degenerate, OfLength, OfBin, Processed
  <2>2. \A n : CountIn(track_lengths, n) = 0
    BY DEF Init, CountIn
  <2>3. \A b : CountIn(length_histogram, b) = 0
    BY DEF Init, CountIn
  <2>4. number_of_degenerates = 0
    BY DEF Init
  <2> QED
    BY <1>1, <2>1, <2>2, <2>3, <2>4, FS_EmptySet DEF TracksCounted
<1>6. DictionaryWritten /\ TrackCovered
  BY <1>1 DEF Init, DictionaryWritten, TrackCovered
<1> QED
  BY <1>4, <1>5, <1>6 DEF StatsInv

(* When all is read the tracks are those of the files.                     *)
LEMMA TracksAreHeld ==
  ASSUME StatsInv, ReadingIsOver
  PROVE  /\ Added = Held /\ DOMAIN track_map = DOMAIN Lengths
         /\ \A id \in DOMAIN track_map :
              /\ Len(track_map[id]) = Lengths[id] /\ Lengths[id] \in Nat \ {0}
              /\ Uuids(track_map[id]) = {At(h).uuid : h \in HeldOf(id)}
         /\ Counted = {id \in DOMAIN track_map : ~Excluded(id)}
<1>1. Added = Held
  <2>1. entry \notin DOMAIN input.dir /\ entry \in Nat \ {0} /\ IInv
    BY DEF StatsInv, Typed, GraphInv, Progress
  <2>2. DOMAIN input.dir = 1 .. Len(input.dir) /\ Len(input.dir) \in Nat
    BY <2>1 DEF IInv, IsInput
  <2>3. \A h \in Held : h[1] < entry
    BY <2>1, <2>2, HeldIs
  <2> QED
    BY <2>3 DEF Added
<1>2. \A id : AddedOf(id) = HeldOf(id)
  BY <1>1 DEF AddedOf, HeldOf
<1>3. DOMAIN track_map = DOMAIN Lengths
  BY <1>1 DEF StatsInv, TracksAdded, Lengths
<1>4. ASSUME NEW id \in DOMAIN track_map
      PROVE  /\ Len(track_map[id]) = Lengths[id] /\ Lengths[id] \in Nat \ {0}
             /\ Uuids(track_map[id]) = {At(h).uuid : h \in HeldOf(id)}
  <2>1. track_map[id] \in Seq(TrackType(id)) \ {<<>>}
    BY DEF StatsInv, Typed, TrackTypes
  <2>2. Len(track_map[id]) \in Nat \ {0}
    BY <2>1
  <2>3. Lengths[id] = Cardinality(HeldOf(id))
    BY <1>3 DEF Lengths
  <2> QED
    BY <1>2, <2>2, <2>3 DEF StatsInv, TracksAdded
<1>5. Counted = {id \in DOMAIN track_map : ~Excluded(id)}
  <2>1. ASSUME NEW id \in DOMAIN track_map PROVE IsDegenerate(id) <=> ~(Lengths[id] > 1)
    <3> DEFINE n == Lengths[id]
    <3> HIDE DEF n
    <3>1. Len(track_map[id]) = n /\ n \in Nat \ {0}
      BY <1>4 DEF n
    <3>2. n = 1 <=> ~(n > 1)
      BY <3>1
    <3> QED
      BY <3>1, <3>2 DEF IsDegenerate, n
  <2>2. input.exclude_degenerates \in BOOLEAN
    BY DEF StatsInv, Typed, GraphInv, Progress, IInv, IsInput
  <2> QED
    BY <1>3, <2>1, <2>2 DEF Counted, Excluded
<1> QED
  BY <1>1, <1>3, <1>4, <1>5

(* For any directory: what the statistics say of the tracks, their number, *)
(* their lengths, their bins, their dictionary and the points they covered,*)
(* is what the files say, whatever earlier runs have left in /tmp.         *)
THEOREM StatisticsAreOfTracks == Spec => []StatisticsCoverTracks
<1>1. Init /\ Typed => StatsInv
  BY InitStats
<1>2. StatsInv /\ [Next]_vars /\ Typed' => StatsInv'
  BY StepTracks, StepParked, StepCounted, StepWritten DEF StatsInv
<1>3. StatsInv => StatisticsCoverTracks
  <2> SUFFICES ASSUME StatsInv, ReadingIsOver PROVE StatisticsCoverTracks
    BY DEF StatisticsCoverTracks, ReadingIsOver
  <2> DEFINE tracks == DOMAIN track_map
  <2>1. /\ Added = Held /\ tracks = DOMAIN Lengths
        /\ \A id \in tracks :
             /\ Len(track_map[id]) = Lengths[id]
             /\ Uuids(track_map[id]) = {At(h).uuid : h \in HeldOf(id)}
        /\ Counted = {id \in tracks : ~Excluded(id)}
    BY TracksAreHeld
  <2>2. ASSUME pc = "done"
        PROVE  /\ number_of_degenerates = Cardinality({id \in DOMAIN Lengths : Lengths[id] = 1})
               /\ input.length =>
                    /\ \A n \in DOMAIN track_lengths \cup 1 .. Len(input.dir) :
                         CountIn(track_lengths, n) = Cardinality({id \in Counted : Lengths[id] = n})
                    /\ \A b \in 1 .. Len(Bins) + 1 :
                         CountIn(length_histogram, b)
                           = Cardinality({id \in Counted : InBin(Lengths[id], b)})
    <3>1. Processed = tracks
      BY <2>2 DEF Processed, StatsInv, TracksCounted
    <3>2. Degenerate = {id \in DOMAIN Lengths : Lengths[id] = 1}
      BY <2>1, <3>1 DEF Degenerate, IsDegenerate
    <3>3. \A n : OfLength(n) = {id \in Counted : Lengths[id] = n}
      BY <2>1, <3>1 DEF OfLength
    <3>4. \A b : OfBin(b) = {id \in Counted : InBin(Lengths[id], b)}
      BY <2>1, <3>1 DEF OfBin
    <3>5. DOMAIN track_lengths \cup 1 .. Len(input.dir) \subseteq Nat
      BY DEF StatsInv, Typed, CountTypes, GraphInv, Progress, IInv, IsInput
    <3>6. /\ number_of_degenerates = Cardinality(Degenerate)
          /\ input.length =>
               /\ \A n \in Nat : CountIn(track_lengths, n) = Cardinality(OfLength(n))
               /\ \A b \in 1 .. Len(Bins) + 1 : CountIn(length_histogram, b) = Cardinality(OfBin(b))
      BY <2>2 DEF StatsInv, TracksCounted
    <3> QED
      BY <3>2, <3>3, <3>4, <3>5, <3>6
  <2>3. ASSUME pc = "done", input.dictionary
        PROVE  /\ DOMAIN dictionary = Counted
               /\ \A id \in Counted :
                    {dictionary[id][c].uuid : c \in DOMAIN dictionary[id]}
                      = {At(h).uuid : h \in HeldOf(id)}
    <3>1. dictionary = [id \in {id \in tracks : ~Excluded(id)} |->
                          [c \in DOMAIN track_map[id] |->
                             [uuid |-> track_map[id][c].uuid, value |-> cluster_ranges[id]]]]
      BY <2>3 DEF StatsInv, DictionaryWritten
    <3>2. ASSUME NEW id \in Counted
          PROVE  {dictionary[id][c].uuid : c \in DOMAIN dictionary[id]} = Uuids(track_map[id])
      <4>1. dictionary[id] = [c \in DOMAIN track_map[id] |->
                                [uuid |-> track_map[id][c].uuid, value |-> cluster_ranges[id]]]
        BY <2>1, <3>1
      <4>2. /\ DOMAIN dictionary[id] = DOMAIN track_map[id]
            /\ \A c \in DOMAIN track_map[id] : dictionary[id][c].uuid = track_map[id][c].uuid
        BY <4>1
      <4> QED
        BY <4>2 DEF Uuids
    <3> QED
      BY <2>1, <3>1, <3>2
  <2>4. ASSUME track_index # {}, DistinctUuids
        PROVE  \E id \in Counted : track_index = UNION {At(h).cells : h \in HeldOf(id)}
    <3>1. PICK id \in tracks : ~Excluded(id) /\ input.cumulated /\ track_index = Covered(id)
      BY <2>4 DEF StatsInv, TrackCovered
    <3>2. \A h \in HeldOf(id) : parked[At(h).uuid] = At(h).cells
      BY <2>1, <2>4, <3>1 DEF StatsInv, PointsParked, HeldOf
    <3>3. Covered(id) = UNION {parked[u] : u \in Uuids(track_map[id])}
      BY DEF Covered, Uuids
    <3>4. Covered(id) = UNION {At(h).cells : h \in HeldOf(id)}
      BY <2>1, <3>2, <3>3
    <3> QED
      BY <2>1, <3>1, <3>4
  <2> QED
    BY <2>2, <2>3, <2>4 DEF StatisticsCoverTracks
<1> QED
  BY <1>1, <1>2, <1>3, TypedHolds, PTL DEF Spec

=============================================================================
