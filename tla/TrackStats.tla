----------------------------- MODULE TrackStats -----------------------------
(***************************************************************************)
(* meanie3D-trackstats: the cluster files of a directory, in the order in  *)
(* which the directory lists them, are made into tracks, a graph of nodes  *)
(* and links, a dictionary, and counts of the lengths and sizes of tracks. *)
(***************************************************************************)
EXTENDS Integers, Sequences, FiniteSets

CONSTANTS
  Inputs,            \* see IsInput
  Torn, Partial,     \* files that cannot be opened, or not be read to the end
  Other,             \* an entry of the directory that is no NetCDF file
  Cells,             \* the grid points
  Bins               \* length_histogram_bins

(* The values of a cluster's points are one number here.                   *)
ClusterType == [id : Nat, uuid : Nat, cells : SUBSET Cells, value : Int]

(* A list as ClusterList::read returns it.  Ids are distinct: the file has *)
(* a variable for each of them.  tracked, splits and merges are as written *)
(* behind a tracking, or empty.                                            *)
IsList(l) ==
  /\ l.time \in Nat /\ l.rank \in Nat \ {0}
  /\ l.clusters \in Seq(ClusterType)
  /\ \A c, d \in DOMAIN l.clusters : l.clusters[c].id = l.clusters[d].id => c = d
  /\ l.tracked \subseteq Nat
  /\ \A s \in DOMAIN l.splits : s \in Nat /\ l.splits[s] \subseteq Nat
  /\ \A m \in DOMAIN l.merges : m \in Nat /\ l.merges[m] \subseteq Nat

Unread == {Torn, Partial, Other}

IsInput(i) ==
  /\ DOMAIN i.dir = 1 .. Len(i.dir) /\ Len(i.dir) \in Nat
  /\ \A e \in DOMAIN i.dir : i.dir[e] \in Unread \/ IsList(i.dir[e])
  /\ i.exclude_degenerates \in BOOLEAN
  /\ i.length \in BOOLEAN       \* create_length_stats
  /\ i.cumulated \in BOOLEAN    \* create_cumulated_size_stats, need_points
  /\ i.dictionary \in BOOLEAN   \* write_track_dictionary
  /\ \A u \in DOMAIN i.leftover : u \in Nat /\ i.leftover[u] \subseteq Cells   \* in /tmp

ASSUME StatsAssumption ==
  /\ \A i \in Inputs : IsInput(i)
  /\ Bins \in Seq(Nat) /\ Len(Bins) > 0
  /\ IsFiniteSet(Cells)

VARIABLES
  input,
  pc,                   \* what the program does, or how it ended
  entry,                \* the next entry of the directory
  step,
  next_cluster,         \* in the list that is read
  opened,               \* coord_system # NULL
  spatial_rank,
  track_map,            \* for each id the clusters of a track, TrackClusters
  nodes, links,
  parked,               \* for each uuid the points in its file in /tmp
  cluster_ranges,       \* cluster_min and cluster_max
  dictionary,           \* track-dictionary.json, <<>> without one
  todo,                 \* the ids of tracks that processTracks has not met
  number_of_degenerates,
  track_lengths,        \* how many tracks there are of each length
  length_histogram,
  track_index           \* the grid points the last track has covered

reading == <<entry, step, next_cluster, opened, spatial_rank>>
graph == <<nodes, links>>
read == <<track_map, graph, parked, cluster_ranges>>
counts == <<number_of_degenerates, track_lengths, length_histogram, track_index>>
vars == <<input, pc, reading, read, dictionary, todo, counts>>

Extend(f, k, x) == [i \in DOMAIN f \cup {k} |-> IF i = k THEN x ELSE f[i]]
CountUp(f, k) == Extend(f, k, IF k \in DOMAIN f THEN f[k] + 1 ELSE 1)

Init ==
  /\ input \in Inputs
  /\ pc = "read" /\ entry = 1 /\ step = 0 /\ next_cluster = 1
  /\ opened = FALSE /\ spatial_rank = 0
  /\ track_map = <<>> /\ nodes = <<>> /\ links = {}
  /\ parked = input.leftover /\ cluster_ranges = <<>>
  /\ dictionary = <<>> /\ todo = {} /\ number_of_degenerates = 0
  /\ track_lengths = <<>> /\ track_index = {}
  /\ length_histogram = [b \in DOMAIN Bins |-> 0]

AtEntry == pc = "read" /\ entry \in DOMAIN input.dir
List == input.dir[entry]

(* dir_iter++, and one more step whatever the entry was.                   *)
NextEntry == entry' = entry + 1 /\ step' = step + 1

SkipEntry ==
  /\ AtEntry /\ List = Other
  /\ NextEntry
  /\ UNCHANGED <<input, pc, next_cluster, opened, spatial_rank, read, dictionary, todo, counts>>

(* The first file is opened for the coordinate system outside of the try;  *)
(* a partial one may do for that.                                          *)
Abort ==
  /\ AtEntry /\ ~opened /\ List \in {Torn, Partial}
  /\ pc' = "aborted"
  /\ UNCHANGED <<input, reading, read, dictionary, todo, counts>>

FailToRead ==
  /\ AtEntry /\ List \in {Torn, Partial}
  /\ opened \/ List = Partial
  /\ opened' = TRUE
  /\ NextEntry
  /\ UNCHANGED <<input, pc, next_cluster, spatial_rank, read, dictionary, todo, counts>>

ReadList ==
  /\ AtEntry /\ List \notin Unread
  /\ opened' = TRUE
  /\ IF spatial_rank \in {0, List.rank}
     THEN pc' = "cluster" /\ spatial_rank' = List.rank /\ next_cluster' = 1
     ELSE pc' = "exited" /\ UNCHANGED <<spatial_rank, next_cluster>>
  /\ UNCHANGED <<input, entry, step, read, dictionary, todo, counts>>

(* findNode: the first node of that id in the step, of which there is none *)
(* in the step before 0.                                                   *)
Matching(id, s) == {n \in DOMAIN nodes : nodes[n].id = id /\ nodes[n].step = s}
First(id, s) == nodes[CHOOSE n \in Matching(id, s) : \A m \in Matching(id, s) : n <= m]

LinkOf(source, target, type) ==
  [source |-> source.uuid, target |-> target.uuid, type |-> type,
   id |-> IF type = "Merge" THEN target.id ELSE source.id]

SourcesOrContinued(node) ==
  LET splits == {s \in DOMAIN List.splits : node.id \in List.splits[s]}
      merges == IF node.id \in DOMAIN List.merges THEN List.merges[node.id] ELSE {}
  IN  IF splits \cup merges # {}
      THEN {<<s, "Split">> : s \in splits} \cup {<<s, "Merge">> : s \in merges}
      ELSE {<<s, "Continue">> : s \in {node.id} \cap List.tracked}

SourcesInStep(node) ==
  LET splits == {s \in DOMAIN List.splits : node.id \in List.splits[s]}
      merges == IF node.id \in DOMAIN List.merges THEN List.merges[node.id] ELSE {}
  IN  {<<s, "Split">> : s \in splits} \cup {<<s, "Merge">> : s \in merges}
        \cup {<<s, "Continue">> : s \in {node.id} \cap List.tracked}

LinksInStep(node) ==
  {LinkOf(First(s[1], node.step), node, s[2]) :
     s \in {s \in SourcesInStep(node) : Matching(s[1], node.step) # {}}}

(* What addGraphNode looks for: splits, merges and continued ids, from a   *)
(* node in the step before.                                                *)
LinksTo(node) ==
  {LinkOf(First(s[1], node.step - 1), node, s[2]) :
     s \in {s \in SourcesInStep(node) : Matching(s[1], node.step - 1) # {}}}

(* addUniqueLink.                                                          *)
IsNew(link) ==
  \A l \in links : <<l.source, l.target, l.type>> # <<link.source, link.target, link.type>>

(* TrackCluster: what it keeps of a cluster.                               *)
Kept(c) == [id |-> c.id, uuid |-> c.uuid, size |-> Cardinality(c.cells), step |-> step]

ParkingOnce(c) ==
  IF input.cumulated /\ c.uuid \notin DOMAIN parked
  THEN Extend(parked, c.uuid, c.cells) ELSE parked

(* Its points go to a file if they are needed again.                       *)
Parking(c) == IF input.cumulated THEN Extend(parked, c.uuid, c.cells) ELSE parked

AddCluster ==
  /\ pc = "cluster" /\ next_cluster \in DOMAIN List.clusters
  /\ LET c == List.clusters[next_cluster]
         node == [uuid |-> c.uuid, id |-> c.id, step |-> step, size |-> Cardinality(c.cells)]
         sofar == IF c.id \in DOMAIN track_map THEN track_map[c.id] ELSE <<>>
     IN  /\ nodes' = Append(nodes, node)
         /\ links' = links \cup {l \in LinksTo(node) : IsNew(l)}
         /\ parked' = Parking(c)
         /\ track_map' = Extend(track_map, c.id, Append(sofar, Kept(c)))
         /\ cluster_ranges' = Extend(cluster_ranges, c.id, c.value)
  /\ next_cluster' = next_cluster + 1
  /\ UNCHANGED <<input, pc, entry, step, opened, spatial_rank, dictionary, todo, counts>>

EndList ==
  /\ pc = "cluster" /\ next_cluster \notin DOMAIN List.clusters
  /\ pc' = "read"
  /\ NextEntry
  /\ UNCHANGED <<input, next_cluster, opened, spatial_rank, read, dictionary, todo, counts>>

EndReading ==
  /\ pc = "read" /\ entry \notin DOMAIN input.dir
  /\ pc' = "write"
  /\ UNCHANGED <<input, reading, read, dictionary, todo, counts>>

IsDegenerate(id) == Len(track_map[id]) = 1
Excluded(id) == IsDegenerate(id) /\ input.exclude_degenerates

(* writeTrackDictionary: the order of tracks is that of a hash table.      *)
WriteDictionary ==
  /\ pc = "write"
  /\ dictionary' =
       IF input.dictionary
       THEN [id \in {id \in DOMAIN track_map : ~Excluded(id)} |->
               [c \in DOMAIN track_map[id] |->
                  [uuid |-> track_map[id][c].uuid, value |-> cluster_ranges[id]]]]
       ELSE dictionary
  /\ pc' = "process" /\ todo' = DOMAIN track_map
  /\ UNCHANGED <<input, reading, read, counts>>

AddToPastOver(histogram, x) ==
  LET over == Len(histogram) + 1
      fitting == {b \in DOMAIN Bins : x <= Bins[b] /\ (b > 1 => x > Bins[b - 1])}
  IN  IF fitting # {}
      THEN [histogram EXCEPT ![CHOOSE b \in fitting : \A a \in fitting : b <= a] = @ + 1]
      ELSE [b \in 1 .. over |->
              IF b = over THEN 1
              ELSE histogram[b]]

(* add_value_to_histogram, with its bin for what exceeds the last one.     *)
AddTo(histogram, x) ==
  LET over == Len(Bins) + 1
      fitting == {b \in DOMAIN Bins : x <= Bins[b] /\ (b > 1 => x > Bins[b - 1])}
  IN  IF fitting # {}
      THEN [histogram EXCEPT ![CHOOSE b \in fitting : \A a \in fitting : b <= a] = @ + 1]
      ELSE [b \in 1 .. over |->
              IF b = over THEN (IF over \in DOMAIN histogram THEN histogram[over] ELSE 0) + 1
              ELSE histogram[b]]

(* The points of a track's clusters as they are read back.                 *)
Covered(id) == UNION {parked[track_map[id][c].uuid] : c \in DOMAIN track_map[id]}

(* processTracks, one track.  Cumulated sizes are counted in a histogram  *)
(* without bins, its size being taken from the parameters before they are  *)
(* set: the program ends where it writes behind its end.                   *)
ProcessTrack ==
  /\ pc = "process"
  /\ \E id \in todo :
       /\ todo' = todo \ {id}
       /\ number_of_degenerates' = number_of_degenerates + (IF IsDegenerate(id) THEN 1 ELSE 0)
       /\ IF input.length /\ ~Excluded(id)
          THEN /\ track_lengths' = CountUp(track_lengths, Len(track_map[id]))
               /\ length_histogram' = AddTo(length_histogram, Len(track_map[id]))
          ELSE UNCHANGED <<track_lengths, length_histogram>>
       /\ IF input.cumulated /\ ~Excluded(id)
          THEN pc' = "crashed" /\ track_index' = Covered(id)
          ELSE UNCHANGED <<pc, track_index>>
  /\ UNCHANGED <<input, reading, read, dictionary>>

(* writeStats prints that histogram, too.                                  *)
EndProcessing ==
  /\ pc = "process" /\ todo = {}
  /\ pc' = IF input.cumulated THEN "crashed" ELSE "done"
  /\ UNCHANGED <<input, reading, read, dictionary, todo, counts>>

Next ==
  \/ SkipEntry \/ Abort \/ FailToRead \/ ReadList \/ AddCluster \/ EndList
  \/ EndReading \/ WriteDictionary \/ ProcessTrack \/ EndProcessing

Spec == Init /\ [][Next]_vars
-----------------------------------------------------------------------------
(* Types; the distinct ids of a list make one node and one cluster each.   *)
TypeOK ==
  /\ IsInput(input)
  /\ pc \in {"read", "cluster", "write", "process", "done", "aborted", "exited", "crashed"}
  /\ entry \in Nat \ {0} /\ step = entry - 1
  /\ pc = "cluster" => entry \in DOMAIN input.dir /\ List \notin Unread
  /\ next_cluster \in Nat \ {0} /\ opened \in BOOLEAN /\ spatial_rank \in Nat
  /\ DOMAIN track_map \subseteq Nat
  /\ \A id \in DOMAIN track_map :
       track_map[id] \in Seq([id : {id}, uuid : Nat, size : Nat, step : Nat]) \ {<<>>}
  /\ nodes \in Seq([uuid : Nat, id : Nat, step : Nat, size : Nat])
  /\ links \subseteq [source : Nat, target : Nat, id : Nat, type : {"Split", "Merge", "Continue"}]
  /\ DOMAIN parked \subseteq Nat /\ \A u \in DOMAIN parked : parked[u] \subseteq Cells
  /\ DOMAIN cluster_ranges = DOMAIN track_map
  /\ todo \subseteq DOMAIN track_map
  /\ number_of_degenerates \in Nat
  /\ DOMAIN track_lengths \subseteq Nat
  /\ length_histogram \in Seq(Nat)
  /\ Len(length_histogram) \in {Len(Bins), Len(Bins) + 1}

(* Whatever the directory lists in whatever order, a link leads from a node*)
(* of one step to one of the next: one of the id it is named after.        *)
LinksJoinSteps ==
  \A l \in links : \E m, n \in DOMAIN nodes :
    /\ nodes[m].uuid = l.source /\ nodes[n].uuid = l.target
    /\ nodes[n].step = nodes[m].step + 1
    /\ l.id = (IF l.type = "Merge" THEN nodes[n].id ELSE nodes[m].id)
    /\ l.type = "Continue" => nodes[m].id = nodes[n].id

EntriesRead == {e \in DOMAIN input.dir : input.dir[e] \notin Unread}
Held == UNION {{e} \X DOMAIN input.dir[e].clusters : e \in EntriesRead}
At(h) == input.dir[h[1]].clusters[h[2]]

DistinctUuids == \A g, h \in Held : At(g).uuid = At(h).uuid => g = h

ReadingIsOver == pc \in {"write", "process", "done", "crashed"}

(* The ways in which h goes on g, as its list says.                        *)
Relations(g, h) ==
  LET list == input.dir[h[1]] IN
  {type \in {"Split", "Merge", "Continue"} :
     \/ type = "Continue" /\ At(g).id = At(h).id /\ At(h).id \in list.tracked
     \/ /\ type = "Split" /\ At(g).id \in DOMAIN list.splits
        /\ At(h).id \in list.splits[At(g).id]
     \/ /\ type = "Merge" /\ At(h).id \in DOMAIN list.merges
        /\ At(g).id \in list.merges[At(h).id]}

Consecutive == {p \in Held \X Held : p[2][1] = p[1][1] + 1}

(* Whatever the directory lists, the graph has all that the lists say of   *)
(* the entry before them, continued ids, splits and merges, as far as its  *)
(* clusters carry the ids, and nothing else: if the entries are the frames *)
(* in the order of time, what tracking has found from one to the next.     *)
LinkedAsTracked ==
  ReadingIsOver =>
    {<<l.source, l.target, l.type>> : l \in links} =
      UNION {{<<At(p[1]).uuid, At(p[2]).uuid, type>> : type \in Relations(p[1], p[2])} :
               p \in Consecutive}

HeldOf(id) == {h \in Held : At(h).id = id}
Lengths == [id \in {At(h).id : h \in Held} |-> Cardinality(HeldOf(id))]

Counted == {id \in DOMAIN Lengths : Lengths[id] > 1 \/ ~input.exclude_degenerates}

Fits(n, b) == n <= Bins[b] /\ (b > 1 => n > Bins[b - 1])
InBin(n, b) ==
  /\ \A a \in DOMAIN Bins : a < b => ~Fits(n, a)
  /\ b \in DOMAIN Bins => Fits(n, b)

CountIn(f, n) == IF n \in DOMAIN f THEN f[n] ELSE 0

(* The counts are those of the tracks in the files: each track counts once,*)
(* in the first bin its length fits or in the one for longer tracks, unless*)
(* it is left out as degenerate, and the dictionary has each of them with  *)
(* its clusters; and the points a track is said to have covered are those  *)
(* of its clusters, if no two clusters share a uuid, whatever earlier runs *)
(* have left.                                                              *)
StatisticsCoverTracks ==
  /\ pc = "done" =>
       /\ number_of_degenerates = Cardinality({id \in DOMAIN Lengths : Lengths[id] = 1})
       /\ input.length =>
            /\ \A n \in DOMAIN track_lengths \cup 1 .. Len(input.dir) :
                 CountIn(track_lengths, n) = Cardinality({id \in Counted : Lengths[id] = n})
            /\ \A b \in 1 .. Len(Bins) + 1 :
                 CountIn(length_histogram, b)
                   = Cardinality({id \in Counted : InBin(Lengths[id], b)})
       /\ input.dictionary =>
            /\ DOMAIN dictionary = Counted
            /\ \A id \in Counted :
                 {dictionary[id][c].uuid : c \in DOMAIN dictionary[id]}
                   = {At(h).uuid : h \in HeldOf(id)}
  /\ pc = "crashed" /\ track_index # {} /\ DistinctUuids =>
       \E id \in Counted : track_index = UNION {At(h).cells : h \in HeldOf(id)}
=============================================================================
