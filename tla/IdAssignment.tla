---------------------------- MODULE IdAssignment ----------------------------
(***************************************************************************)
(* What a tracking run promises about ids, without saying how it decides:  *)
(* once it has begun, a cluster without an id gets one, either of a track  *)
(* it continues or one no cluster of either list has; a cluster whose id   *)
(* was settled by a match keeps it; any other may still be given the id of *)
(* a track nobody continues.                                               *)
(***************************************************************************)
CONSTANT None

VARIABLES
  clusters,   \* the current clusters
  carried,    \* the ids of the previous list
  id,         \* the id of every current cluster
  open,       \* ids are being assigned
  settled     \* clusters whose id is final

vars == <<clusters, carried, id, open, settled>>

Used == {id[c] : c \in clusters}

Init == ~open /\ settled = {}

Begin ==
  /\ ~open /\ open'
  /\ id' = [c \in clusters |-> None]
  /\ UNCHANGED <<clusters, carried, settled>>

OnlyChanges(c) ==
  /\ id' = [id EXCEPT ![c] = id'[c]]
  /\ id'[c] \notin Used /\ id'[c] # None
  /\ open /\ UNCHANGED <<clusters, carried, open>>

Continue(c) ==
  /\ id[c] = None
  /\ OnlyChanges(c)
  /\ id'[c] \in carried
  /\ settled' = settled \cup {c}

Fresh(c) ==
  /\ id[c] = None
  /\ OnlyChanges(c)
  /\ id'[c] \notin carried
  /\ UNCHANGED settled

Retag(c) ==
  /\ c \notin settled
  /\ OnlyChanges(c)
  /\ id'[c] \in carried
  /\ UNCHANGED settled

Next == Begin \/ \E c \in clusters : Continue(c) \/ Fresh(c) \/ Retag(c)

Spec == Init /\ [][Next]_vars
=============================================================================
