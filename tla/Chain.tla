------------------------------- MODULE Chain -------------------------------
(***************************************************************************)
(* Detection and tracking of one frame after the other.  Each frame is     *)
(* detected, tracked against the file of the frame before it and saved;    *)
(* only the files carry the ids, uuids and counters from frame to frame.   *)
(***************************************************************************)
EXTENDS ClusterLists

CONSTANTS
  Frames,          \* number of frames
  MaxClusters,     \* the most clusters a list has, a bound
  MaxCollated,     \* the most clusters a list has that is then collated, a bound
  Gaps,            \* frames too far in time from the one before them
  StackMayBeZero,  \* run.N, read before it is assigned, may be 0 there
  Modes            \* may the tracking be done inside of meanie3D-detect

ASSUME ChainAssumption ==
  /\ Frames \in Nat /\ MaxClusters \in Nat /\ MaxCollated \in Nat
  /\ Gaps \subseteq 1 .. Frames
  /\ StackMayBeZero \in BOOLEAN /\ Modes \subseteq BOOLEAN

VARIABLES
  pc,       \* what the programs do next
  frame,    \* the frame they work on
  current,  \* the current cluster list in memory
  file      \* the cluster files, a function on the frames that have one

vars == <<pc, frame, current, file>>

Frame == 1 .. Frames
Stored == DOMAIN file
Store(k, l) == [j \in Stored \cup {k} |-> IF j = k THEN l ELSE file[j]]
Fresh(N) == [a \in 1 .. N |-> <<frame, a>>]

Nothing == Detected(0, [a \in {} |-> 0])

Init ==
  /\ pc = "detect" /\ frame = 1
  /\ current = Nothing
  /\ file = [k \in {} |-> Nothing]

(* The list of a frame as detected or, if asked for and behind another     *)
(* one, collated with the file of the frame before: no more new clusters   *)
(* than that file has.                                                     *)
DetectsAlone == \E N \in 0 .. MaxClusters : current' = Detected(N, Fresh(N))

Collates ==
  /\ frame > 1
  /\ \E H \in 2 .. MaxCollated : \E K \in 0 .. H - 2, new \in 1 .. file[frame - 1].N :
       /\ K + new <= MaxClusters
       /\ \E kept \in Injection(1 .. K, 1 .. H), order \in Injection(1 .. new, 1 .. new),
            last \in 1 .. H :
            current' = Collated(H, K, kept, new, order, last, Fresh(K + new))

(* The detection writes its result, unless it goes on to the tracking by   *)
(* itself.  The first frame has none to be tracked against.                *)
Detect ==
  /\ pc = "detect" /\ frame \in Frame
  /\ DetectsAlone \/ Collates
  /\ \E inline \in Modes :
       LET writes == frame = 1 \/ ~inline
       IN  /\ file' = IF writes /\ Writable(current') THEN Store(frame, current') ELSE file
           /\ pc' = IF ~writes THEN "track"
                    ELSE IF ~Writable(current') THEN "exited"
                    ELSE IF frame = 1 THEN "done" ELSE "read"
  /\ UNCHANGED frame

(* meanie3D-track reads the current list from its file: behind the         *)
(* detection or, run by hand, on the files of a frame that is done.        *)
Read ==
  /\ pc = "read" \/ (pc = "done" /\ frame > 1)
  /\ current' = ReadBack(file[frame])
  /\ pc' = "track"
  /\ UNCHANGED <<frame, file>>

(* Tracking skips a frame far from the last one, and when the emptiness    *)
(* test, made before run.N is assigned, says so.                           *)
Skip ==
  /\ pc = "track"
  /\ frame \in Gaps \/ current.N = 0 \/ StackMayBeZero
  /\ pc' = "save"
  /\ UNCHANGED <<frame, current, file>>

Track ==
  /\ pc = "track"
  /\ frame \notin Gaps
  /\ LET prev == ReadBack(file[frame - 1])
     IN  \E h, u \in Counters(prev), continued \in Continuations(prev, current) :
           \E matched \in SUBSET DOMAIN continued :
             /\ IsHighestId(prev, h) /\ IsHighestUuid(prev, u)
             /\ current' = Tracked(prev, current, h, u, matched, continued,
                                   Fresh(current.N))
  /\ pc' = "save"
  /\ UNCHANGED <<frame, file>>

Save ==
  /\ pc = "save"
  /\ file' = IF Writable(current) THEN Store(frame, current) ELSE file
  /\ pc' = IF Writable(current) THEN "done" ELSE "exited"
  /\ UNCHANGED <<frame, current>>

NextFrameUnsaved ==
  /\ pc \in {"done", "save"} /\ frame < Frames
  /\ frame' = frame + 1
  /\ pc' = "detect"
  /\ UNCHANGED <<current, file>>

NextFrame ==
  /\ pc = "done" /\ frame < Frames
  /\ frame' = frame + 1
  /\ pc' = "detect"
  /\ UNCHANGED <<current, file>>

Next == Detect \/ Read \/ Skip \/ Track \/ Save \/ NextFrame

Spec == Init /\ [][Next]_vars

-----------------------------------------------------------------------------
(* A list as a file holds it.                                              *)
IsList(l) ==
  /\ l.N \in Nat
  /\ l.id \in [1 .. l.N -> Nat] /\ l.uuid \in [1 .. l.N -> Nat \cup {NoUuid}]
  /\ l.highest_id \in Nat \cup {NoId} /\ l.highest_uuid \in Nat
  /\ l.performed \in BOOLEAN

(* Types; at every moment the files are those of the frames up to the      *)
(* current one.                                                            *)
TypeOK ==
  /\ pc \in {"detect", "read", "track", "save", "done", "exited"}
  /\ frame \in Nat \ {0}
  /\ IsList(current)
  /\ \A k \in Stored : IsList(file[k])
  /\ 1 .. frame - 1 \subseteq Stored /\ Stored \subseteq 1 .. frame
  /\ pc \in {"read", "done"} => frame \in Stored

(* The frames between which tracking was performed without an exception.   *)
Linked(j, k) == j <= k /\ \A i \in j + 1 .. k : file[i].performed

(* Along frames that were tracked one against the other, an id names one   *)
(* track: clusters of one id are the same object, and an object keeps its  *)
(* id, whichever frames are tracked again.                                 *)
IdNamesOneTrack ==
  \A j, k \in Stored : Linked(j, k) =>
    \A a \in Clusters(file[j]), b \in Clusters(file[k]) :
      file[j].id[a] = file[k].id[b] <=> file[j].track[a] = file[k].track[b]

(* Along such frames, two clusters of one uuid are the same cluster or     *)
(* have none, and none of a frame that was tracked is without a uuid: only *)
(* collating with the previous output leaves clusters without, and only    *)
(* the tracking gives them one.                                            *)
UuidsDiffer ==
  \A j, k \in Stored : Linked(j, k) =>
    \A a \in Clusters(file[j]), b \in Clusters(file[k]) :
      file[j].uuid[a] = file[k].uuid[b] =>
        \/ j = k /\ a = b
        \/ j = k /\ file[k].uuid[b] = NoUuid /\ ~file[k].performed
=============================================================================
