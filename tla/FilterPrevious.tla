--------------------------- MODULE FilterPrevious ---------------------------
(***************************************************************************)
(* --postprocess-with-previous-output: the detection hands its clusters to *)
(* filter_with_previous_clusters, that merges those which cover the same   *)
(* previous cluster, and writes the list.                                  *)
(*                                                                         *)
(* Detected clusters are 1 .. New, New + m is the cluster that the parts   *)
(* of the previous cluster m are merged to.                                *)
(***************************************************************************)
EXTENDS Naturals, FiniteSets, Sequences, SequencesExt

CONSTANTS
  Points,     \* grid points
  Near,       \* pairs of them that are neighbours
  None,       \* no previous cluster
  New, Olds,  \* how many detected and previous clusters there are at most
  Inputs      \* what the filter may be given, see InputType

Names == 1 .. New + Olds
Old == 1 .. Olds

InputType ==
  [count : 0 .. New,                   \* detected clusters
   points : [1 .. New -> SUBSET Points],
   olds : 0 .. Olds,                   \* previous clusters
   index : [Points -> Old \cup {None}],  \* ClusterIndex of them
   verbosity : {"silent", "normal", "details"}]

ASSUME FilterAssumption ==
  /\ None \notin Nat /\ Near \subseteq Points \X Points
  /\ New \in Nat /\ Olds \in Nat
  /\ Inputs \subseteq InputType

VARIABLES
  input,
  pc,
  list,          \* current->clusters, in order
  m,             \* the previous cluster the loop has come to
  current_id,
  erased, merged,
  points, id,         \* of each cluster
  owner          \* Point::cluster

loop == <<m, current_id, erased, merged>>
clusters == <<points, id, owner>>
vars == <<input, pc, list, loop, clusters>>

Detected == 1 .. input.count

Init ==
  /\ input \in Inputs
  /\ pc = "sort" /\ m = 1 /\ current_id = 0
  /\ list = [n \in Detected |-> n]
  /\ erased = {} /\ merged = {}
  /\ points = [c \in Names |-> IF c \in Detected THEN input.points[c] ELSE {}]
  /\ id = [c \in Names |-> IF c \in Detected THEN c ELSE 0]
  /\ owner = [p \in Points |->
       IF \E c \in Detected : p \in input.points[c]
       THEN CHOOSE c \in Detected : p \in input.points[c] ELSE 0]

(* ClusterList::print sorts the clusters by size.                          *)
BySize(s) ==
  {t \in SetToSeqs(ToSet(s)) :
     \A a, b \in DOMAIN t : a < b => Cardinality(points[t[a]]) <= Cardinality(points[t[b]])}

Show ==
  /\ pc \in {"sort", "print"}
  /\ IF input.verbosity = "details" THEN list' \in BySize(list) ELSE UNCHANGED list
  /\ pc' = IF pc = "sort" THEN "check" ELSE "write"
  /\ UNCHANGED <<input, loop, clusters>>

(* Nothing to do: the function returns if it may say so.  If it may not,   *)
(* it reads in front of the list of no clusters, and dies or goes on.      *)
Check ==
  /\ pc = "check"
  /\ \/ /\ list = <<>> \/ input.olds = 0
        /\ input.verbosity # "silent"
        /\ pc' = "print" /\ UNCHANGED current_id
     \/ /\ list = <<>> /\ input.verbosity = "silent"
        /\ pc' \in {"crashed", "filter"} /\ UNCHANGED current_id
     \/ /\ list # <<>> /\ (input.olds = 0 => input.verbosity = "silent")
        /\ pc' = "filter" /\ current_id' = id[Last(list)]
  /\ UNCHANGED <<input, list, m, erased, merged, clusters>>

(* occupation_ratio of at least 0.33.                                      *)
Overlap(c, o) == Cardinality({p \in input.points[c] : input.index[p] = o})
Covers(c, o) == 100 * Overlap(c, o) >= 33 * Cardinality(input.points[c])
Candidates(o) == {c \in Detected : Covers(c, o)}

MergeKeepingOwners(parts, next) ==
  LET c == New + m IN
  /\ points' = [points EXCEPT ![c] = UNION {points[n] : n \in parts}]
  /\ id' = [id EXCEPT ![c] = next]
  /\ current_id' = current_id + 1
  /\ merged' = merged \cup {c}
  /\ UNCHANGED owner

(* Parts are merged to a new cluster; Cluster::add_points sets the owner.  *)
Merge(parts, next) ==
  LET c == New + m IN
  /\ points' = [points EXCEPT ![c] = UNION {points[n] : n \in parts}]
  /\ owner' = [p \in Points |-> IF p \in points'[c] THEN c ELSE owner[p]]
  /\ id' = [id EXCEPT ![c] = next]
  /\ current_id' = current_id + 1
  /\ merged' = merged \cup {c}

FilterPostIncrement ==
  /\ pc = "filter" /\ m <= input.olds
  /\ IF Cardinality(Candidates(m)) > 1
     THEN Merge(Candidates(m), current_id) /\ erased' = erased \cup Candidates(m)
     ELSE UNCHANGED <<points, owner, id, current_id, merged, erased>>
  /\ m' = m + 1
  /\ UNCHANGED <<input, pc, list>>

FilterSkippingErased ==
  /\ pc = "filter" /\ m <= input.olds
  /\ LET parts == Candidates(m) \ erased IN
     IF Cardinality(parts) > 1
     THEN Merge(parts, current_id + 1) /\ erased' = erased \cup parts
     ELSE UNCHANGED <<points, owner, id, current_id, merged, erased>>
  /\ m' = m + 1
  /\ UNCHANGED <<input, pc, list>>

FilterOnePast ==
  /\ pc = "filter" /\ m <= input.olds + 1
  /\ IF m <= input.olds /\ Cardinality(Candidates(m)) > 1
     THEN Merge(Candidates(m), current_id + 1) /\ erased' = erased \cup Candidates(m)
     ELSE UNCHANGED <<points, owner, id, current_id, merged, erased>>
  /\ m' = m + 1
  /\ UNCHANGED <<input, pc, list>>

FilterErasingSingle ==
  /\ pc = "filter" /\ m <= input.olds
  /\ IF Cardinality(Candidates(m)) > 1
     THEN Merge(Candidates(m), current_id + 1)
     ELSE UNCHANGED <<points, owner, id, current_id, merged>>
  /\ erased' = erased \cup Candidates(m)
  /\ m' = m + 1
  /\ UNCHANGED <<input, pc, list>>

(* One previous cluster: its parts go into a new cluster.                  *)
Filter ==
  /\ pc = "filter" /\ m <= input.olds
  /\ IF Cardinality(Candidates(m)) > 1
     THEN Merge(Candidates(m), current_id + 1) /\ erased' = erased \cup Candidates(m)
     ELSE UNCHANGED <<points, owner, id, current_id, merged, erased>>
  /\ m' = m + 1
  /\ UNCHANGED <<input, pc, list>>

(* The erased clusters go, the others keep their order, and the merged ones*)
(* come behind them in the order of addresses.                             *)
InOrderOf(s, t) ==
  \A i, j \in DOMAIN s, a, b \in DOMAIN t : s[i] = t[a] /\ s[j] = t[b] /\ i < j => a < b

Replace ==
  /\ pc = "filter" /\ m > input.olds
  /\ \E kept \in SetToSeqs(ToSet(list) \ erased), new \in SetToSeqs(merged) :
       InOrderOf(kept, list) /\ list' = kept \o new
  /\ pc' = "print"
  /\ UNCHANGED <<input, loop, clusters>>

Listed == ToSet(list)
IdsDiffer == \A c, d \in Listed : c # d => id[c] # id[d]

(* ClusterList::write makes a dimension of each id, or exits.              *)
Write ==
  /\ pc = "write"
  /\ pc' = IF IdsDiffer THEN "written" ELSE "exited"
  /\ UNCHANGED <<input, list, loop, clusters>>

Next == Show \/ Check \/ Filter \/ Replace \/ Write

Spec == Init /\ [][Next]_vars

-----------------------------------------------------------------------------
Over == pc \in {"print", "write", "written", "exited"}

(* Types; every cluster is in the list once.                               *)
TypeOK ==
  /\ input \in InputType
  /\ pc \in {"sort", "check", "filter", "print", "write", "written", "exited", "crashed"}
  /\ list \in Seq(Names) /\ IsInjective(list)
  /\ m \in 1 .. Olds + 1 /\ current_id \in Nat
  /\ erased \subseteq 1 .. New /\ merged \subseteq Names \ 1 .. New
  /\ points \in [Names -> SUBSET Points]
  /\ id \in [Names -> Nat]
  /\ owner \in [Points -> Names \cup {0}]

(* Erasing and merging lose no point and invent none.                      *)
NothingLost ==
  Over => UNION {points[c] : c \in Listed} = UNION {input.points[c] : c \in Detected}

(* Two detected clusters have a boundary with each other.                  *)
Border(n, k) == \E p \in input.points[n], q \in input.points[k] : <<p, q>> \in Near
Adjoins(n, o) == \E k \in Candidates(o) \ {n} : Border(n, k)

(* The parts of a previous cluster that have a boundary with another one of*)
(* them are together in one cluster, also when one of them is a part of    *)
(* another previous cluster as well.                                       *)
SplitsTogether ==
  Over /\ Listed # {} => \A o \in 1 .. input.olds :
    Cardinality(Candidates(o)) > 1 =>
      \E c \in Listed : \A n \in Candidates(o) : Adjoins(n, o) => input.points[n] \subseteq points[c]

(* "neglect those, that have no direct boundary with any of the other      *)
(* candidates": only parts that have one are merged.                       *)
OnlyNeighboursMerged ==
  Over => \A o \in 1 .. input.olds : New + o \in Listed =>
    \A n \in Candidates(o) : input.points[n] \subseteq points[New + o] => Adjoins(n, o)

(* Point::cluster is a cluster of the list that has the point, not one of  *)
(* those deleted.                                                          *)
OwnersListed ==
  Over => \A c \in Listed : \A p \in points[c] :
    owner[p] \in Listed /\ p \in points[owner[p]]

(* Ids count on from the last cluster, that has the highest id unless the  *)
(* list was printed and with that sorted: the list can be written.         *)
CanBeWritten == Over /\ input.verbosity # "details" => IdsDiffer
=============================================================================
