------------------------------ MODULE Tracking ------------------------------
(***************************************************************************)
(* One call of Tracking<T>::track (tracking_impl.h): the clusters of the   *)
(* current list are matched with those of the previous list, get an id,    *)
(* and merges and splits are recorded.  The measurements the decisions     *)
(* depend on (sizes, overlaps, distances, histogram correlation) are the   *)
(* run's input; every decision taken from them is modelled, one action per *)
(* loop iteration of the code.                                             *)
(***************************************************************************)
EXTENDS Integers, FiniteSets

CONSTANTS
  Runs,             \* the inputs a run may be given, see RunsAssumption
  MaxId,            \* MAX_ID of id.h
  NoId,             \* NO_ID of id.h
  ContinueIDs,      \* --discontinue-id-in-merge-and-split is absent
  UseOverlapConstraint,
  MaxVelocity, MaxDeltaT, MaxSizeDeviation,
  MergeSplitThreshold, ContinuationThreshold  \* fractions [num, den]

MinId == 0
Id == MinId .. MaxId
Pairs(r) == (1 .. r.N) \X (1 .. r.M)

(* A file never holds two clusters of one id (ClusterList::write names a   *)
(* NetCDF dimension after it), highest_id, when present, bounds the ids of *)
(* the previous list, and a run does not use up the ids of id_t.           *)
RunsAssumption ==
  \A r \in Runs :
    /\ r.N \in Nat /\ r.M \in Nat
    /\ r.prevId \in [1 .. r.M -> Id]
    /\ \A a, b \in 1 .. r.M : r.prevId[a] = r.prevId[b] => a = b
    /\ r.prevHighest \in Id \cup {NoId}
    /\ r.prevHighestUuid \in Nat
    /\ r.prevHighest # NoId =>
         /\ r.prevHighest + r.N <= MaxId
         /\ \A m \in 1 .. r.M : r.prevId[m] <= r.prevHighest
    /\ r.N <= MaxId
    /\ \A m \in 1 .. r.M : r.prevId[m] + r.N <= MaxId

ASSUME ConstantsAssumption ==
  /\ MaxId \in Nat /\ NoId \notin Id
  /\ ContinueIDs \in BOOLEAN /\ UseOverlapConstraint \in BOOLEAN
  /\ MaxVelocity \in Nat /\ MaxDeltaT \in Nat /\ MaxSizeDeviation \in Nat
  /\ MergeSplitThreshold \in [num : Nat, den : Nat \ {0}]
  /\ ContinuationThreshold \in [num : Nat, den : Nat \ {0}]

ASSUME RunsAreLegal == RunsAssumption

VARIABLES
  run,            \* the input, tracking_run_t's lists and parameters
  pc, n, m,       \* where track() is; the loop indexes of its phases
  id, uuid,       \* id and uuid of every current cluster
  highestId, highestUuid,
  matches,        \* run.matches not yet visited
  matched_uuids,
  tracked_ids, new_ids, dropped_ids,
  merges, splits, \* functions from an id to a set of ids
  performed       \* current->tracking_performed

lists == <<tracked_ids, new_ids, dropped_ids, merges, splits>>
vars == <<run, pc, n, m, id, uuid, highestId, highestUuid, matches,
          matched_uuids, lists, performed>>

Cur == 1 .. run.N
Prev == 1 .. run.M
PrevIds == {run.prevId[b] : b \in Prev}
CurIds == {id[a] : a \in Cur}
Empty == [i \in {} |-> {}]

(* nextId and nextUuid count upwards and rotate around at the maximum.     *)
NextId(i) == IF i >= MaxId THEN MinId ELSE i + 1

(***************************************************************************)
(* Quantities derived from the input.                                      *)
(***************************************************************************)
DeltaT == run.curTime - run.prevTime

AtLeast(part, whole, threshold) == part * threshold.den >= threshold.num * whole

(* coverOldByNew and coverNewByOld relate the shared grid points to the    *)
(* size of the previous and of the current cluster.                        *)
OldByNew(a, b, threshold) == AtLeast(run.common[a][b], run.prevSize[b], threshold)
NewByOld(a, b, threshold) == AtLeast(run.common[a][b], run.curSize[a], threshold)

MatchPossible(a, b) ==
  LET p == run.prevSize[b]
      c == run.curSize[a]
      larger == IF p > c THEN p ELSE c
      smaller == IF p > c THEN c ELSE p
  IN  /\ \/ ~UseOverlapConstraint
         \/ 2 * run.radius[b] < DeltaT * MaxVelocity
         \/ run.common[a][b] > 0
      /\ larger - smaller <= MaxSizeDeviation * smaller
      /\ run.midDisplacement[a][b] <= DeltaT * MaxVelocity

(* Merge and split criterion are cover * (erfc(dR) + erfc(dH)); closeness  *)
(* stands for the bracket.  Candidates of one cluster share the            *)
(* denominator, rivals for one candidate do not.                           *)
Criterion(a, b) == run.common[a][b] * run.closeness[a][b]
BetterMerge(aa, a, b) ==
  Criterion(aa, b) * run.curSize[a] > Criterion(a, b) * run.curSize[aa]
BetterSplit(bb, a, b) ==
  Criterion(a, bb) * run.prevSize[b] > Criterion(a, b) * run.prevSize[bb]

(* findBestMergeCandidate and findBestSplitCandidate scan the candidates   *)
(* in index order; the tie flag, once set, stays set.  The result is the   *)
(* set of winners, empty for the code's -1.                                *)
Tied(Q, s) ==
  \E i, j \in Q : i < j /\ s[i] = s[j] /\ \A k \in Q : k < j => s[k] <= s[j]
FindBest(Q, s) == {q \in Q : ~Tied(Q, s) /\ \A k \in Q : s[k] <= s[q]}

FindBestMergeCandidate(a, C) ==
  FindBest({b \in C : NewByOld(a, b, ContinuationThreshold)},
           [b \in C |-> Criterion(a, b)])
FindBestSplitCandidate(b, C) ==
  FindBest({a \in C : OldByNew(a, b, ContinuationThreshold)},
           [a \in C |-> Criterion(a, b)])

(* getMergeCandidates and getSplitCandidates: the matched partner, and any *)
(* unmatched cluster with enough overlap for which no rival fits better.   *)
MergeCandidatesWithRivals(a) ==
  {b \in Prev :
     \/ id[a] = run.prevId[b]
     \/ /\ run.prevId[b] \notin tracked_ids
        /\ OldByNew(a, b, MergeSplitThreshold)}

MergeCandidates(a) ==
  {b \in Prev :
     \/ id[a] = run.prevId[b]
     \/ /\ run.prevId[b] \notin tracked_ids
        /\ OldByNew(a, b, MergeSplitThreshold)
        /\ \A aa \in Cur \ {a} : ~BetterMerge(aa, a, b)}

SplitCandidatesTracked(b) ==
  {a \in Cur :
     \/ id[a] = run.prevId[b]
     \/ /\ NewByOld(a, b, MergeSplitThreshold)
        /\ \A bb \in Prev \ {b} : ~BetterSplit(bb, a, b)}

SplitCandidates(b) ==
  {a \in Cur :
     \/ id[a] = run.prevId[b]
     \/ /\ id[a] \notin tracked_ids
        /\ NewByOld(a, b, MergeSplitThreshold)
        /\ \A bb \in Prev \ {b} : ~BetterSplit(bb, a, b)}

(***************************************************************************)
(* The run.                                                                *)
(***************************************************************************)
Init ==
  /\ run \in Runs
  /\ pc = "initialise" /\ n = 1 /\ m = 1
  /\ id = [a \in Cur |-> a]        \* the ids the detection gave them
  /\ uuid = [a \in Cur |-> a]
  /\ highestId = NoId /\ highestUuid = 0
  /\ matches = {} /\ matched_uuids = {}
  /\ tracked_ids = {} /\ new_ids = {} /\ dropped_ids = {}
  /\ merges = Empty /\ splits = Empty
  /\ performed = FALSE

Unchanged == UNCHANGED <<run, n, m, id, uuid, highestId, highestUuid, matches,
                         matched_uuids, lists, performed>>

(* initialise() tests run.N before anything assigns it: the value is       *)
(* whatever the stack holds, so the run may end here for any input.        *)
SkipUninitialised ==
  /\ pc = "initialise"
  /\ pc' = "skipped"
  /\ Unchanged

Fatal ==
  /\ pc = "initialise"
  /\ ~run.sameVariables \/ ~run.trackingVariableFound
  /\ pc' = "exit"
  /\ Unchanged

(* The highest id of the previous list, from the file or from its clusters.*)
InitialiseHighest ==
  IF run.prevHighest = NoId \/ (run.prevHighest = 0 /\ run.M > 0)
  THEN /\ highestId' \in {0} \cup PrevIds
       /\ \A b \in Prev : run.prevId[b] <= highestId'
  ELSE highestId' = run.prevHighest

(* provideUuids counts on from the highest uuid.  Where the list has none, *)
(* the highest ID of the previous clusters stands in for it.               *)
InitialiseUuids ==
  \E base \in {0, run.prevHighestUuid} \cup PrevIds :
    /\ IF run.prevHighestUuid = 0 /\ run.M > 0
       THEN \A b \in Prev : run.prevId[b] <= base
       ELSE base = run.prevHighestUuid
    /\ uuid' = [a \in Cur |-> base + a]
    /\ highestUuid' = base + run.N

Accepted == run.sameVariables /\ run.trackingVariableFound

SkipByTime ==
  /\ pc = "initialise" /\ Accepted
  /\ DeltaT <= 0 \/ DeltaT > MaxDeltaT
  /\ InitialiseHighest
  /\ pc' = "skipped"
  /\ UNCHANGED <<run, n, m, id, uuid, highestUuid, matches, matched_uuids,
                 lists, performed>>

Initialise ==
  /\ pc = "initialise" /\ Accepted
  /\ DeltaT > 0 /\ DeltaT <= MaxDeltaT
  /\ InitialiseHighest
  /\ InitialiseUuids
  /\ pc' = "correlate"
  /\ UNCHANGED <<run, n, m, id, matches, matched_uuids, lists, performed>>

(* calculateCorrelationData, calculateProbabilities, the list of possible  *)
(* matches; the ids are used as index tags meanwhile and then erased.      *)
Correlate ==
  /\ pc = "correlate"
  /\ id' = [a \in Cur |-> NoId]
  /\ matches' = {p \in Pairs(run) : MatchPossible(p[1], p[2])}
  /\ tracked_ids' = {} /\ new_ids' = {} /\ dropped_ids' = {}
  /\ merges' = Empty /\ splits' = Empty
  /\ pc' = "match"
  /\ UNCHANGED <<run, n, m, uuid, highestId, highestUuid, matched_uuids, performed>>

(* The matches are sorted by descending likelihood, in any order among     *)
(* equals (std::sort is not stable); a match is skipped once the id or the *)
(* current cluster was taken by an earlier one.                            *)
LeastLikelyFirst(a, b) ==
  \A p \in matches : run.likelihood[p[1]][p[2]] >= run.likelihood[a][b]
NextInOrder(a, b) ==
  \A p \in matches : run.likelihood[p[1]][p[2]] <= run.likelihood[a][b]

TakenByCluster(a, b) == uuid[a] \in matched_uuids
Taken(a, b) == run.prevId[b] \in tracked_ids \/ uuid[a] \in matched_uuids

(* One iteration of the matchmaking loop.                                  *)
Match(a, b) ==
  /\ pc = "match"
  /\ <<a, b>> \in matches
  /\ NextInOrder(a, b)
  /\ matches' = matches \ {<<a, b>>}
  /\ IF Taken(a, b)
     THEN UNCHANGED <<id, tracked_ids, matched_uuids>>
     ELSE /\ id' = [id EXCEPT ![a] = run.prevId[b]]
          /\ tracked_ids' = tracked_ids \cup {run.prevId[b]}
          /\ matched_uuids' = matched_uuids \cup {uuid[a]}
  /\ UNCHANGED <<run, pc, n, m, uuid, highestId, highestUuid, new_ids,
                 dropped_ids, merges, splits, performed>>

MatchEndSkipsFirst ==
  /\ pc = "match" /\ matches = {}
  /\ pc' = "fresh" /\ n' = 2
  /\ UNCHANGED <<run, m, id, uuid, highestId, highestUuid, matches,
                 matched_uuids, lists, performed>>

MatchEnd ==
  /\ pc = "match" /\ matches = {}
  /\ pc' = "fresh"
  /\ Unchanged

AdvanceIfFresh == n' = IF id[n] = NoId THEN n + 1 ELSE n
Advance == n' = n + 1

(* A cluster without a match gets the next id.                             *)
FreshId ==
  /\ pc = "fresh" /\ n <= run.N
  /\ IF id[n] = NoId
     THEN /\ highestId' = NextId(highestId)
          /\ id' = [id EXCEPT ![n] = highestId']
          /\ new_ids' = new_ids \cup {highestId'}
     ELSE UNCHANGED <<highestId, id, new_ids>>
  /\ Advance
  /\ UNCHANGED <<run, pc, m, uuid, highestUuid, matches, matched_uuids,
                 tracked_ids, dropped_ids, merges, splits, performed>>

UntrackedButLast == {run.prevId[b] : b \in 1 .. run.M - 1} \ tracked_ids
Untracked == PrevIds \ tracked_ids

(* The ids of the previous list no match continued are dropped.            *)
DropOuts ==
  /\ pc = "fresh" /\ n > run.N
  /\ dropped_ids' = dropped_ids \cup Untracked
  /\ n' = 1
  /\ pc' = "merge"
  /\ UNCHANGED <<run, m, id, uuid, highestId, highestUuid, matches, matched_uuids,
                 tracked_ids, new_ids, merges, splits, performed>>

Record(f, key, value) == [k \in DOMAIN f \cup {key} |-> IF k = key THEN value ELSE f[k]]

(* Giving cluster a the id of another track: new_ids loses the id it had.  *)
EraseNew(a) == new_ids \ {id[a]}

(* One iteration of handleMerges, for the current cluster n.               *)
HandleMerge ==
  /\ pc = "merge" /\ n <= run.N
  /\ LET C == MergeCandidates(n)
         tracked == \E b \in Prev : id[n] = run.prevId[b]
         winner == IF ~tracked /\ ContinueIDs
                   THEN FindBestMergeCandidate(n, C) ELSE {}
         merged == {run.prevId[b] : b \in C}
     IN  \/ /\ Cardinality(C) <= 1
            /\ UNCHANGED <<id, lists>>
         \/ /\ Cardinality(C) > 1 /\ winner = {}
            /\ merges' = Record(merges, id[n], merged)
            /\ UNCHANGED <<id, tracked_ids, new_ids, dropped_ids, splits>>
         \/ /\ Cardinality(C) > 1
            /\ \E b \in winner :
                 /\ new_ids' = EraseNew(n)
                 /\ tracked_ids' = tracked_ids \cup {run.prevId[b]}
                 /\ id' = [id EXCEPT ![n] = run.prevId[b]]
                 /\ merges' = Record(merges, run.prevId[b], merged)
            /\ UNCHANGED <<dropped_ids, splits>>
  /\ n' = n + 1
  /\ UNCHANGED <<run, pc, m, uuid, highestId, highestUuid, matches, matched_uuids,
                 performed>>

MergesEnd ==
  /\ pc = "merge" /\ n > run.N
  /\ pc' = "split"
  /\ Unchanged

(* One iteration of handleSplits, for the previous cluster m.  The id that *)
(* enters tracked_ids is the one the current cluster is about to lose.     *)
HandleSplit ==
  /\ pc = "split" /\ m <= run.M
  /\ LET C == SplitCandidates(m)
         tracked == \E a \in Cur : id[a] = run.prevId[m]
         winner == IF ~tracked /\ ContinueIDs
                   THEN FindBestSplitCandidate(m, C) ELSE {}
     IN  \/ /\ Cardinality(C) <= 1
            /\ UNCHANGED <<id, lists>>
         \/ /\ Cardinality(C) > 1 /\ winner = {}
            /\ splits' = Record(splits, run.prevId[m], {id[a] : a \in C})
            /\ UNCHANGED <<id, tracked_ids, new_ids, dropped_ids, merges>>
         \/ /\ Cardinality(C) > 1
            /\ \E a \in winner :
                 /\ new_ids' = EraseNew(a)
                 /\ tracked_ids' = tracked_ids \cup {id[a]}
                 /\ id' = [id EXCEPT ![a] = run.prevId[m]]
            /\ splits' = Record(splits, run.prevId[m], {id'[a] : a \in C})
            /\ UNCHANGED <<dropped_ids, merges>>
  /\ m' = m + 1
  /\ UNCHANGED <<run, pc, n, uuid, highestId, highestUuid, matches, matched_uuids,
                 performed>>

(* removeScheduled has nothing to remove (no code schedules an id); the    *)
(* run's counters become the list's highest_id and highest_uuid.           *)
Finish ==
  /\ pc = "split" /\ m > run.M
  /\ performed' = TRUE
  /\ pc' = "done"
  /\ UNCHANGED <<run, n, m, id, uuid, highestId, highestUuid, matches,
                 matched_uuids, lists>>

Ended == pc \in {"done", "skipped", "exit"}

Terminated == Ended /\ UNCHANGED vars

Next ==
  \/ SkipUninitialised \/ Fatal \/ SkipByTime \/ Initialise \/ Correlate
  \/ \E a \in Cur, b \in Prev : Match(a, b)
  \/ MatchEnd \/ FreshId \/ DropOuts
  \/ HandleMerge \/ MergesEnd \/ HandleSplit \/ Finish
  \/ Terminated

Spec == Init /\ [][Next]_vars

(* A run is one thread and nothing it calls blocks.                        *)
FairSpec == Spec /\ WF_vars(Next)

-----------------------------------------------------------------------------
(***************************************************************************)
(* Properties.                                                             *)
(***************************************************************************)
Phases == {"initialise", "correlate", "match", "fresh", "merge", "split",
           "done", "skipped", "exit"}

Assigned == pc \in {"merge", "split", "done"}   \* every cluster has its id

(* Types of the run's state.                                               *)
TypeOK ==
  /\ pc \in Phases
  /\ n \in 1 .. run.N + 1 /\ m \in 1 .. run.M + 1
  /\ id \in [Cur -> Id \cup {NoId}] /\ (Assigned => NoId \notin CurIds)
  /\ uuid \in [Cur -> Nat]
  /\ highestId \in Id \cup {NoId} /\ highestUuid \in Nat
  /\ matches \subseteq Pairs(run) /\ matched_uuids \subseteq Nat
  /\ tracked_ids \subseteq Id /\ new_ids \subseteq Id /\ dropped_ids \subseteq Id
  /\ \A k \in DOMAIN merges : merges[k] \subseteq Id
  /\ \A k \in DOMAIN splits : splits[k] \subseteq Id
  /\ performed \in BOOLEAN

(* No two current clusters ever carry one id, through matching, fresh ids  *)
(* and every re-tagging of a merge or a split: ClusterList::write names a  *)
(* dimension after the id and ends the process on the second.              *)
DistinctIds ==
  \A a, b \in Cur : a # b /\ id[a] # NoId => id[a] # id[b]

(* new_ids stays exactly the set of ids that current clusters have and no  *)
(* previous cluster had, whatever is re-tagged after it was filled.        *)
NewIdsAreFresh == Assigned => new_ids = CurIds \ PrevIds

(* The counter a run leaves in highest_id bounds every id of both lists:   *)
(* the next run, which counts on from it, cannot hand out one of them.     *)
HighestIdBounds == Assigned => \A i \in CurIds \cup PrevIds : i <= highestId

(* Greedy matchmaking leaves no better pair behind: a possible match not   *)
(* taken lost one of its clusters to a match at least as likely.           *)
StableMatching ==
  pc = "fresh" =>
    \A a \in Cur, b \in Prev :
      MatchPossible(a, b) =>
        \/ \E bb \in Prev : /\ id[a] = run.prevId[bb]
                            /\ run.likelihood[a][bb] >= run.likelihood[a][b]
        \/ \E aa \in Cur : /\ id[aa] = run.prevId[b]
                           /\ run.likelihood[aa][b] >= run.likelihood[a][b]

(* No track is lost from the books: an id of the previous list is carried  *)
(* on by a current cluster or listed as dropped.                           *)
NoTrackLost == Assigned => PrevIds \subseteq CurIds \cup dropped_ids

(* A previous cluster is recorded as a part of two merges only when none   *)
(* of the two current clusters has the better merge criterion.             *)
OneMergePerCluster ==
  pc \in {"split"} =>
    \A a, aa \in Cur, b \in Prev :
      /\ a # aa /\ {id[a], id[aa]} \subseteq DOMAIN merges
      /\ m = 1
      /\ run.prevId[b] \in merges[id[a]] \cap merges[id[aa]]
      => ~BetterMerge(a, aa, b) /\ ~BetterMerge(aa, a, b)

(* Every run comes to an end.                                              *)
RunEnds == <>Ended

(* What a run does with ids is an id assignment: whatever it decides, each *)
(* id it gives is of a previous track nobody continues or of no track, and *)
(* merge and split handling never take the id of a matched cluster.        *)
Assigning == pc \in {"match", "fresh", "merge", "split", "done"}
Settled == {a \in Cur : uuid[a] \in matched_uuids}
Assignment ==
  INSTANCE IdAssignment WITH
    clusters <- Cur, carried <- PrevIds, None <- NoId,
    open <- Assigning, settled <- Settled
AssignsIds == Assignment!Spec
=============================================================================
