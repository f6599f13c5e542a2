---------------------------- MODULE ClusterLists ----------------------------
(***************************************************************************)
(* Cluster lists as the programs hand them on: as the detection leaves     *)
(* them, as the tracking leaves them, and as ClusterList::read returns     *)
(* what ClusterList::write stored.  A list has N clusters; track is no     *)
(* part of the program: it says which object a cluster is.                 *)
(***************************************************************************)
EXTENDS Integers, FiniteSets, Functions

CONSTANTS
  NoId,     \* NO_ID of id.h
  NoUuid    \* NO_UUID of id.h

ASSUME NoIdAssumption == NoId \notin Nat /\ NoUuid \notin Nat

Clusters(l) == 1 .. l.N
Ids(l) == {l.id[a] : a \in Clusters(l)}

(* Detection<T>::run: ids and uuids from scratch, the counters behind them.*)
Detected(N, track) ==
  [N |-> N, id |-> [a \in 1 .. N |-> a], uuid |-> [a \in 1 .. N |-> a],
   track |-> track, highest_id |-> N, highest_uuid |-> N, performed |-> FALSE]

(* The list collated with the previous output: of H detected clusters those*)
(* in kept stay, new ones made of at least two of the others follow.  They *)
(* are numbered behind the id of the last cluster of the list - any one    *)
(* where printing has sorted it by size - and put into the list in any     *)
(* order; nothing gives them a uuid, nothing sets the counters again.      *)
Collated(H, K, kept, new, order, last, track) ==
  [N |-> K + new,
   id |-> [a \in 1 .. K + new |-> IF a <= K THEN kept[a] ELSE last + order[a - K]],
   uuid |-> [a \in 1 .. K + new |-> IF a <= K THEN kept[a] ELSE NoUuid],
   track |-> track, highest_id |-> H, highest_uuid |-> H, performed |-> FALSE]

(* ClusterList::write gives up at the second cluster of an id.             *)
Writable(l) == \A a, b \in Clusters(l) : l.id[a] = l.id[b] => a = b

(* What read() returns of a written list: highest_id only if the file says *)
(* that tracking was performed, and that flag itself not at all.           *)
ReadBackForgetting(l) == [l EXCEPT !.highest_id = NoId, !.performed = FALSE]
ReadBack(l) ==
  [l EXCEPT !.highest_id = IF l.performed THEN l.highest_id ELSE NoId,
            !.performed = FALSE]

(* The counters h and u that Tracking<T>::initialise starts from when l is *)
(* the previous list; without a usable counter the highest id stands in.   *)
IsHighestOf(l, h) ==
  /\ h \in {0} \cup Ids(l)
  /\ \A i \in Ids(l) : i <= h

IsHighestId(l, h) ==
  IF l.highest_id = NoId \/ (l.highest_id = 0 /\ l.N > 0)
  THEN IsHighestOf(l, h) ELSE h = l.highest_id

IsHighestUuidByIds(l, u) == IsHighestOf(l, u)
IsHighestUuid(l, u) ==
  IF l.highest_uuid = 0 /\ l.N > 0
  THEN IsHighestOf(l, u) ELSE u = l.highest_uuid

Counters(l) == {0, l.highest_id, l.highest_uuid} \cup Ids(l)

(* What tracking makes of the list cur, given prev.  The clusters in       *)
(* matched got the id of a previous cluster in the matchmaking, all others *)
(* the next ids in order; merges and splits then let further ones continue *)
(* tracks.  continued says which track each of them continues.             *)
Continuations(prev, cur) ==
  {f \in UNION {[D -> Clusters(prev)] : D \in SUBSET Clusters(cur)} :
     \A a, b \in DOMAIN f : f[a] = f[b] => a = b}

Rank(S, a) == Cardinality({b \in S : b <= a})

Tracked(prev, cur, h, u, matched, continued, track) ==
  LET fresh == Clusters(cur) \ matched
      D == DOMAIN continued
  IN  [N |-> cur.N,
       id |-> [a \in Clusters(cur) |->
                IF a \in D THEN prev.id[continued[a]] ELSE h + Rank(fresh, a)],
       uuid |-> [a \in Clusters(cur) |-> u + a],
       track |-> [a \in Clusters(cur) |->
                   IF a \in D THEN prev.track[continued[a]] ELSE track[a]],
       highest_id |-> h + Cardinality(fresh),
       highest_uuid |-> u + cur.N,
       performed |-> TRUE]
=============================================================================
