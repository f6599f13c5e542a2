--------------------------- MODULE TrackingProofs ---------------------------
(***************************************************************************)
(* For every input a run can be given: the ids of the current list stay    *)
(* distinct, new_ids and highest_id are right, and the run implements an   *)
(* id assignment.                                                          *)
(***************************************************************************)
EXTENDS Tracking, TLAPS

(* Before an id is needed for a cluster without a match, the ids left      *)
(* above highestId suffice, so NextId does not rotate around.              *)
Headroom ==
  /\ pc \in {"initialise", "correlate", "match"} => n = 1
  /\ pc \in {"correlate", "match"} => highestId + run.N <= MaxId
  /\ pc = "fresh" => highestId + (run.N + 1 - n) <= MaxId

(* highestId bounds the ids of both lists, as far as they are assigned.    *)
Bounded ==
  /\ pc = "correlate" \/ Assigning =>
       highestId \in Id /\ \A i \in PrevIds : i <= highestId
  /\ Assigning => \A a \in Cur : id[a] # NoId => id[a] <= highestId

(* Until splits are handled, the id of a previous cluster that a current   *)
(* one carries is in tracked_ids: a candidate not in there is free.        *)
CarriedIsTracked ==
  pc \in {"match", "fresh", "merge"} =>
    \A a \in Cur : id[a] \in PrevIds => id[a] \in tracked_ids

TaggedSoFar ==
  /\ pc = "match" => new_ids = {} /\ CurIds \subseteq PrevIds \cup {NoId}
  /\ pc = "fresh" => \A a \in Cur : a < n => id[a] # NoId
  /\ Assigning => new_ids = (CurIds \ PrevIds) \ {NoId}

TypeInv == run \in Runs /\ TypeOK

IInv ==
  TypeInv /\ DistinctIds /\ Headroom /\ Bounded /\ CarriedIsTracked /\ TaggedSoFar

-----------------------------------------------------------------------------
(* What the assumptions say of the run at hand.                            *)
LEMMA RunFacts ==
  ASSUME run \in Runs
  PROVE  /\ run.N \in Nat /\ run.M \in Nat /\ run.N <= MaxId
         /\ run.prevId \in [Prev -> Id]
         /\ PrevIds \subseteq Id
         /\ \A a, b \in Prev : run.prevId[a] = run.prevId[b] => a = b
         /\ run.prevHighest \in Id \cup {NoId} /\ run.prevHighestUuid \in Nat
         /\ run.prevHighest # NoId =>
              /\ run.prevHighest + run.N <= MaxId
              /\ \A i \in PrevIds : i <= run.prevHighest
         /\ \A i \in PrevIds : i + run.N <= MaxId
         /\ MaxId \in Nat /\ Id = 0 .. MaxId /\ NoId \notin Id
  BY RunsAreLegal, ConstantsAssumption
  DEF RunsAssumption, Prev, PrevIds, Id, MinId

(* The invariant holds for the lists a run is given. *)
LEMMA InitIInv == Init => IInv
  <1> SUFFICES ASSUME Init PROVE IInv
    OBVIOUS
  <1>1. run \in Runs
    BY DEF Init
  <1>2. TypeInv
    <2>1. pc \in Phases /\ ~Assigned
      BY DEF Init, Phases, Assigned
    <2>2. n \in 1 .. run.N + 1 /\ m \in 1 .. run.M + 1
      BY <1>1, RunFacts DEF Init
    <2>3. id \in [Cur -> Id \cup {NoId}] /\ uuid \in [Cur -> Nat]
      BY <1>1, RunFacts DEF Init, Cur
    <2>4. /\ highestId \in Id \cup {NoId} /\ highestUuid \in Nat
          /\ matches \subseteq Pairs(run) /\ matched_uuids \subseteq Nat
          /\ tracked_ids \subseteq Id /\ new_ids \subseteq Id /\ dropped_ids \subseteq Id
          /\ performed \in BOOLEAN
      BY DEF Init
    <2>5. DOMAIN merges = {} /\ DOMAIN splits = {}
      BY DEF Init, Empty
    <2> QED
      BY <1>1, <2>1, <2>2, <2>3, <2>4, <2>5 DEF TypeInv, TypeOK
  <1>3. DistinctIds
    BY DEF Init, DistinctIds
  <1> QED
    BY <1>2, <1>3 DEF Init, IInv, Headroom, Bounded, CarriedIsTracked,
       TaggedSoFar, Assigning

(* The highest id the run starts from leaves room above both lists.        *)
LEMMA HighestFacts ==
  ASSUME run \in Runs, InitialiseHighest
  PROVE  /\ highestId' \in Id /\ highestId' + run.N <= MaxId
         /\ \A i \in PrevIds : i <= highestId'
  <1>1. CASE run.prevHighest = NoId \/ (run.prevHighest = 0 /\ run.M > 0)
    <2>1. highestId' \in {0} \cup PrevIds
      BY <1>1 DEF InitialiseHighest
    <2>2. \A i \in PrevIds : i <= highestId'
      BY <1>1 DEF InitialiseHighest, PrevIds
    <2> QED
      BY <2>1, <2>2, RunFacts
  <1>2. CASE ~(run.prevHighest = NoId \/ (run.prevHighest = 0 /\ run.M > 0))
    BY <1>2, RunFacts DEF InitialiseHighest
  <1> QED
    BY <1>1, <1>2

-----------------------------------------------------------------------------
(* Every action keeps the invariant.                                       *)
LEMMA InitialiseStep ==
  ASSUME IInv, Initialise
  PROVE  IInv'
  <1> USE DEF IInv, TypeInv
  <1>1. /\ run' = run /\ pc = "initialise" /\ pc' = "correlate"
        /\ UNCHANGED <<n, m, id, matches, matched_uuids, tracked_ids, new_ids,
                       dropped_ids, merges, splits, performed>>
    BY DEF Initialise, lists
  <1>2. /\ highestId' \in Id /\ highestId' + run.N <= MaxId
        /\ \A i \in PrevIds : i <= highestId'
    BY HighestFacts DEF Initialise
  <1>3. uuid' \in [Cur -> Nat] /\ highestUuid' \in Nat
    <2>1. PICK base \in {0, run.prevHighestUuid} \cup PrevIds :
            uuid' = [a \in Cur |-> base + a] /\ highestUuid' = base + run.N
      BY DEF Initialise, InitialiseUuids
    <2>2. base \in Nat
      BY <2>1, RunFacts
    <2> QED
      BY <2>1, <2>2, RunFacts DEF Cur
  <1>4. TypeInv'
    BY <1>1, <1>2, <1>3 DEF TypeOK, Phases, Cur, CurIds, Assigned
  <1>5. DistinctIds'
    BY <1>1 DEF DistinctIds, Cur
  <1>6. n = 1
    BY <1>1 DEF Headroom
  <1> QED
    BY <1>1, <1>2, <1>4, <1>5, <1>6
    DEF Headroom, Bounded, CarriedIsTracked, TaggedSoFar, Assigning, PrevIds, Prev

(* The first step tags no cluster; all fresh ids are still to come. *)
LEMMA CorrelateStep ==
  ASSUME IInv, Correlate
  PROVE  IInv'
  <1> USE DEF IInv, TypeInv
  <1>1. /\ run' = run /\ pc = "correlate" /\ pc' = "match"
        /\ id' = [a \in Cur |-> NoId] /\ new_ids' = {} /\ tracked_ids' = {}
        /\ dropped_ids' = {}
        /\ DOMAIN merges' = {} /\ DOMAIN splits' = {}
        /\ matches' \subseteq Pairs(run)
        /\ UNCHANGED <<n, m, uuid, highestId, highestUuid, matched_uuids, performed>>
    BY DEF Correlate, Empty
  <1>2. CurIds' \subseteq {NoId} /\ Cur' = Cur /\ PrevIds' = PrevIds
    BY <1>1 DEF CurIds, Cur, PrevIds, Prev
  <1>3. id' \in [Cur -> Id \cup {NoId}] /\ ~Assigned'
    BY <1>1 DEF Assigned
  <1>4. TypeInv'
    BY <1>1, <1>2, <1>3 DEF TypeOK, Phases
  <1>5. PrevIds \subseteq Id /\ NoId \notin Id
    BY RunFacts
  <1> QED
    BY <1>1, <1>2, <1>4, <1>5
    DEF DistinctIds, Headroom, Bounded, CarriedIsTracked, TaggedSoFar, Assigning

(* An accepted match: the previous id is not tracked, so no current cluster*)
(* carries it.                                                             *)
LEMMA MatchStep ==
  ASSUME IInv, NEW a \in Cur, NEW b \in Prev, Match(a, b)
  PROVE  IInv'
  <1> USE DEF IInv, TypeInv
  <1>1. /\ pc = "match" /\ pc' = "match"
        /\ UNCHANGED <<run, n, m, uuid, highestId, highestUuid, new_ids,
                       dropped_ids, merges, splits, performed>>
        /\ matches' \subseteq matches
    BY DEF Match
  <1>2. Cur' = Cur /\ PrevIds' = PrevIds /\ Prev' = Prev
    BY <1>1 DEF Cur, PrevIds, Prev
  <1>3. PrevIds \subseteq Id /\ NoId \notin Id /\ run.prevId[b] \in PrevIds
    BY RunFacts DEF PrevIds
  <1>4. CASE Taken(a, b)
    <2>1. UNCHANGED <<id, tracked_ids, matched_uuids>>
      BY <1>4 DEF Match
    <2>2. TypeInv' /\ DistinctIds'
      BY <1>1, <1>2, <2>1 DEF TypeOK, Phases, Assigned, DistinctIds, Pairs
    <2> QED
      BY <1>1, <1>2, <2>1, <2>2
      DEF Headroom, Bounded, CarriedIsTracked, TaggedSoFar, Assigning, CurIds
  <1>5. CASE ~Taken(a, b)
    <2>1. /\ id' = [id EXCEPT ![a] = run.prevId[b]]
          /\ tracked_ids' = tracked_ids \cup {run.prevId[b]}
          /\ matched_uuids' = matched_uuids \cup {uuid[a]}
      BY <1>5 DEF Match
    <2>2. \A c \in Cur : id[c] # run.prevId[b]
      BY <1>1, <1>3, <1>5 DEF Taken, CarriedIsTracked
    <2>3. /\ id' \in [Cur -> Id \cup {NoId}]
          /\ \A c \in Cur : id'[c] = IF c = a THEN run.prevId[b] ELSE id[c]
      BY <2>1, <1>3 DEF TypeOK
    <2>4. TypeInv'
      BY <1>1, <1>2, <1>3, <2>1, <2>3 DEF TypeOK, Phases, Assigned, Pairs
    <2>5. DistinctIds'
      BY <1>2, <2>2, <2>3 DEF DistinctIds
    <2>6. Bounded' /\ CarriedIsTracked'
      BY <1>1, <1>2, <1>3, <2>1, <2>3 DEF Bounded, CarriedIsTracked, Assigning
    <2>7. new_ids = {} /\ CurIds' \subseteq PrevIds \cup {NoId}
      BY <1>1, <1>2, <1>3, <2>3 DEF TaggedSoFar, CurIds
    <2> QED
      BY <1>1, <1>2, <1>3, <2>4, <2>5, <2>6, <2>7
      DEF Headroom, TaggedSoFar, Assigning
  <1> QED
    BY <1>4, <1>5

(* The end of the matching leaves the ids alone. *)
LEMMA MatchEndStep ==
  ASSUME IInv, MatchEnd
  PROVE  IInv'
  <1>1. /\ pc = "match" /\ pc' = "fresh"
        /\ UNCHANGED <<run, n, m, id, uuid, highestId, highestUuid, matches,
                       matched_uuids, tracked_ids, new_ids, dropped_ids, merges,
                       splits, performed>>
    BY DEF MatchEnd, Unchanged, lists
  <1>2. run.N \in Nat /\ n = 1 /\ highestId \in Id /\ Id = 0 .. MaxId
    BY <1>1, RunFacts DEF IInv, TypeInv, Headroom, Bounded, Assigning
  <1>3. TypeInv'
    BY <1>1 DEF IInv, TypeInv, TypeOK, Phases, Assigned, Cur, Pairs
  <1>4. Headroom'
    BY <1>1, <1>2 DEF IInv, Headroom
  <1>5. TaggedSoFar'
    BY <1>1, <1>2 DEF IInv, TaggedSoFar, Assigning, Cur, CurIds, PrevIds, Prev
  <1> QED
    BY <1>1, <1>3, <1>4, <1>5
    DEF IInv, DistinctIds, Bounded, CarriedIsTracked, Assigning, Cur, PrevIds, Prev

(* A fresh id is above every id of both lists.                             *)
LEMMA FreshIdStep ==
  ASSUME IInv, FreshId
  PROVE  IInv'
  <1> USE DEF IInv, TypeInv
  <1>1. /\ pc = "fresh" /\ pc' = "fresh" /\ n \in Cur /\ n' = n + 1
        /\ UNCHANGED <<run, m, uuid, highestUuid, matches, matched_uuids,
                       tracked_ids, dropped_ids, merges, splits, performed>>
    BY RunFacts DEF FreshId, Advance, TypeOK, Cur
  <1>2. Cur' = Cur /\ PrevIds' = PrevIds /\ Prev' = Prev
    BY <1>1 DEF Cur, PrevIds, Prev
  <1>3. /\ run.N \in Nat /\ MaxId \in Nat /\ Id = 0 .. MaxId /\ NoId \notin Id
        /\ PrevIds \subseteq Id /\ n \in Nat /\ n <= run.N
        /\ highestId \in Id /\ highestId + (run.N + 1 - n) <= MaxId
    BY <1>1, RunFacts DEF Headroom, Bounded, Assigning, Cur
  <1>4. n' \in 1 .. run.N + 1
    BY <1>1, <1>3 DEF Cur
  <1>5. CASE id[n] # NoId
    <2>1. UNCHANGED <<highestId, id, new_ids>>
      BY <1>5 DEF FreshId
    <2>2. TypeInv' /\ DistinctIds'
      BY <1>1, <1>2, <1>4, <2>1 DEF TypeOK, Phases, Assigned, DistinctIds, Pairs
    <2>3. Headroom' /\ Bounded' /\ CarriedIsTracked'
      <3>1. Headroom'
        BY <1>1, <1>3, <2>1 DEF Headroom
      <3>2. Bounded' /\ CarriedIsTracked'
        BY <1>1, <1>2, <2>1 DEF Bounded, CarriedIsTracked, Assigning
      <3> QED
        BY <3>1, <3>2
    <2>4. \A a \in Cur : a < n' => id'[a] # NoId
      BY <1>1, <1>3, <1>5, <2>1 DEF TaggedSoFar, Cur
    <2> QED
      BY <1>1, <1>2, <2>1, <2>2, <2>3, <2>4 DEF TaggedSoFar, Assigning, CurIds
  <1>6. CASE id[n] = NoId
    <2>1. /\ highestId' = NextId(highestId)
          /\ id' = [id EXCEPT ![n] = highestId'] /\ new_ids' = new_ids \cup {highestId'}
      BY <1>6 DEF FreshId
    <2>2. highestId' = highestId + 1 /\ highestId' \in Id /\ highestId' # NoId
      BY <1>3, <2>1 DEF NextId
    <2>3. /\ \A i \in PrevIds : i < highestId'
          /\ \A a \in Cur : id[a] # NoId => id[a] < highestId'
      <3>1. \A i \in PrevIds : i <= highestId
        BY <1>1 DEF Bounded, Assigning
      <3>2. \A a \in Cur : id[a] # NoId => id[a] <= highestId
        BY <1>1 DEF Bounded, Assigning
      <3> QED
        BY <1>3, <2>2, <3>1, <3>2 DEF TypeOK
    <2>4. /\ id' \in [Cur -> Id \cup {NoId}]
          /\ \A c \in Cur : id'[c] = IF c = n THEN highestId' ELSE id[c]
      BY <2>1, <2>2 DEF TypeOK
    <2>5. TypeInv'
      BY <1>1, <1>2, <1>4, <2>1, <2>2, <2>4 DEF TypeOK, Phases, Assigned, Pairs
    <2>6. DistinctIds'
      BY <1>2, <1>3, <2>2, <2>3, <2>4 DEF DistinctIds, TypeOK
    <2>7. Headroom'
      BY <1>1, <1>3, <2>2 DEF Headroom
    <2>8. \A i \in PrevIds : i <= highestId'
      BY <1>3, <2>2, <2>3
    <2>9. \A c \in Cur : id'[c] # NoId => id'[c] <= highestId'
      BY <1>3, <2>2, <2>3, <2>4 DEF TypeOK
    <2>10. highestId' \notin PrevIds
      BY <1>3, <2>2, <2>3
    <2>11. CarriedIsTracked'
      BY <1>1, <1>2, <2>4, <2>10 DEF CarriedIsTracked
    <2>12. \A a \in Cur : a < n' => id'[a] # NoId
      BY <1>1, <1>3, <2>2, <2>4 DEF TaggedSoFar, Cur
    <2>13. new_ids' = (CurIds' \ PrevIds) \ {NoId}
      BY <1>1, <1>2, <1>6, <2>1, <2>2, <2>4, <2>10 DEF TaggedSoFar, Assigning, CurIds
    <2> QED
      BY <1>1, <1>2, <2>2, <2>5, <2>6, <2>7, <2>8, <2>9, <2>11, <2>12, <2>13
      DEF Bounded, TaggedSoFar, Assigning
  <1> QED
    BY <1>5, <1>6

(* After the fresh ids every cluster has an id of its own. *)
LEMMA DropOutsStep ==
  ASSUME IInv, DropOuts
  PROVE  IInv'
  <1> USE DEF IInv, TypeInv
  <1>1. /\ pc = "fresh" /\ pc' = "merge" /\ n > run.N /\ n' = 1
        /\ dropped_ids' = dropped_ids \cup Untracked
        /\ UNCHANGED <<run, m, id, uuid, highestId, highestUuid, matches,
                       matched_uuids, tracked_ids, new_ids, merges, splits, performed>>
    BY DEF DropOuts
  <1>2. Cur' = Cur /\ PrevIds' = PrevIds /\ Prev' = Prev /\ CurIds' = CurIds
    BY <1>1 DEF Cur, PrevIds, Prev, CurIds
  <1>3. run.N \in Nat /\ PrevIds \subseteq Id /\ NoId \notin Id
    BY RunFacts
  <1>4. NoId \notin CurIds
    <2>1. \A a \in Cur : a < n
      BY <1>1, <1>3 DEF TypeOK, Cur
    <2> QED
      BY <1>1, <2>1 DEF TaggedSoFar, CurIds
  <1>5. TypeInv'
    <2>1. dropped_ids' \subseteq Id
      BY <1>1, <1>3 DEF TypeOK, Untracked
    <2>2. n' \in 1 .. run'.N + 1 /\ pc' \in Phases
      BY <1>1, <1>3 DEF Phases
    <2> QED
      BY <1>1, <1>2, <1>4, <2>1, <2>2 DEF TypeOK, Pairs
  <1> QED
    BY <1>1, <1>2, <1>5
    DEF DistinctIds, Headroom, Bounded, CarriedIsTracked, TaggedSoFar, Assigning

(* Giving a cluster the id of a previous cluster nobody carries.           *)
LEMMA Retag ==
  ASSUME IInv, Assigned, pc' = pc, run' = run, highestId' = highestId,
         NEW a \in Cur, NEW b \in Prev,
         \A c \in Cur : id[c] # run.prevId[b],
         id' = [id EXCEPT ![a] = run.prevId[b]],
         new_ids' = EraseNew(a)
  PROVE  /\ id' \in [Cur -> Id \cup {NoId}] /\ NoId \notin CurIds' /\ new_ids' \subseteq Id
         /\ \A c \in Cur : id'[c] = IF c = a THEN run.prevId[b] ELSE id[c]
         /\ DistinctIds' /\ Bounded' /\ TaggedSoFar'
  <1> USE DEF IInv, TypeInv
  <1>1. Cur' = Cur /\ PrevIds' = PrevIds /\ Prev' = Prev
    BY DEF Cur, PrevIds, Prev
  <1>2. PrevIds \subseteq Id /\ NoId \notin Id /\ run.prevId[b] \in PrevIds
    BY RunFacts DEF PrevIds
  <1>3. /\ id' \in [Cur -> Id \cup {NoId}]
        /\ \A c \in Cur : id'[c] = IF c = a THEN run.prevId[b] ELSE id[c]
    BY <1>2 DEF TypeOK
  <1>4. NoId \notin CurIds' /\ new_ids' \subseteq Id
    BY <1>1, <1>2, <1>3 DEF TypeOK, CurIds, EraseNew
  <1>5. DistinctIds'
    BY <1>1, <1>3 DEF DistinctIds
  <1>6. Bounded'
    BY <1>1, <1>2, <1>3 DEF Bounded, Assigning
  <1>7. new_ids = CurIds \ PrevIds
    BY DEF TaggedSoFar, Assigning, Assigned, TypeOK
  <1>8. new_ids' = CurIds' \ PrevIds
    <2>1. ASSUME NEW i, i \in new_ids' PROVE i \in CurIds' \ PrevIds
      BY <1>1, <1>3, <1>7, <2>1 DEF EraseNew, CurIds
    <2>2. ASSUME NEW i, i \in CurIds' \ PrevIds PROVE i \in new_ids'
      <3>1. PICK c \in Cur : i = id'[c]
        BY <1>1, <2>2 DEF CurIds
      <3>2. c # a /\ i = id[c]
        BY <1>2, <1>3, <2>2, <3>1
      <3>3. i # id[a]
        BY <3>2 DEF DistinctIds, TypeOK, CurIds
      <3> QED
        BY <1>7, <2>2, <3>2, <3>3 DEF EraseNew, CurIds
    <2> QED
      BY <2>1, <2>2
  <1> QED
    BY <1>1, <1>3, <1>4, <1>5, <1>6, <1>8 DEF TaggedSoFar, Assigned

(* The winner of a merge is not tracked, so no current cluster carries its *)
(* id; it is tracked from then on.                                         *)
LEMMA HandleMergeStep ==
  ASSUME IInv, HandleMerge
  PROVE  IInv'
  <1> USE DEF IInv, TypeInv
  <1> DEFINE C == MergeCandidates(n)
             merged == {run.prevId[b] : b \in C}
  <1>1. /\ pc = "merge" /\ pc' = "merge" /\ n \in Cur /\ n' = n + 1
        /\ UNCHANGED <<run, m, uuid, highestId, highestUuid, matches,
                       matched_uuids, performed>>
    BY RunFacts DEF HandleMerge, TypeOK, Cur
  <1>2. Cur' = Cur /\ PrevIds' = PrevIds /\ Prev' = Prev
    BY <1>1 DEF Cur, PrevIds, Prev
  <1>3. n' \in 1 .. run.N + 1 /\ Assigned /\ Assigned'
    BY <1>1, RunFacts DEF Cur, Assigned
  <1>4. C \subseteq Prev /\ merged \subseteq PrevIds /\ PrevIds \subseteq Id
    BY RunFacts DEF MergeCandidates, PrevIds
  <1>5. CASE UNCHANGED <<id, tracked_ids, new_ids, dropped_ids, splits>>
             /\ (merges' = merges \/ merges' = Record(merges, id[n], merged))
    <2>1. \A k \in DOMAIN merges' : merges'[k] \subseteq Id
      BY <1>4, <1>5 DEF Record, TypeOK
    <2>2. TypeInv'
      BY <1>1, <1>2, <1>3, <1>5, <2>1 DEF TypeOK, Pairs, CurIds
    <2> QED
      BY <1>1, <1>2, <1>5, <2>2
      DEF DistinctIds, Headroom, Bounded, CarriedIsTracked, TaggedSoFar,
          Assigning, CurIds
  <1>6. ASSUME NEW b \in C, ~\E bb \in Prev : id[n] = run.prevId[bb],
               new_ids' = EraseNew(n),
               tracked_ids' = tracked_ids \cup {run.prevId[b]},
               id' = [id EXCEPT ![n] = run.prevId[b]],
               merges' = Record(merges, run.prevId[b], merged),
               UNCHANGED <<dropped_ids, splits>>
        PROVE IInv'
    <2>1. b \in Prev /\ run.prevId[b] \notin tracked_ids
      BY <1>4, <1>6 DEF MergeCandidates
    <2>2. \A c \in Cur : id[c] # run.prevId[b]
      BY <1>1, <2>1 DEF CarriedIsTracked, PrevIds
    <2>3. /\ id' \in [Cur -> Id \cup {NoId}] /\ NoId \notin CurIds' /\ new_ids' \subseteq Id
          /\ \A c \in Cur : id'[c] = IF c = n THEN run.prevId[b] ELSE id[c]
          /\ DistinctIds' /\ Bounded' /\ TaggedSoFar'
      BY <1>1, <1>3, <1>6, <2>1, <2>2, Retag
    <2>4. \A k \in DOMAIN merges' : merges'[k] \subseteq Id
      BY <1>4, <1>6 DEF Record, TypeOK
    <2>5. TypeInv'
      BY <1>1, <1>2, <1>3, <1>4, <1>6, <2>1, <2>3, <2>4 DEF TypeOK, Pairs, PrevIds
    <2>6. CarriedIsTracked'
      BY <1>1, <1>2, <1>6, <2>3 DEF CarriedIsTracked
    <2>7. Headroom'
      BY <1>1 DEF Headroom
    <2> QED
      BY <2>3, <2>5, <2>6, <2>7
  <1>7. \/ UNCHANGED <<id, tracked_ids, new_ids, dropped_ids, splits>>
           /\ (merges' = merges \/ merges' = Record(merges, id[n], merged))
        \/ \E b \in C :
             /\ ~\E bb \in Prev : id[n] = run.prevId[bb]
             /\ new_ids' = EraseNew(n)
             /\ tracked_ids' = tracked_ids \cup {run.prevId[b]}
             /\ id' = [id EXCEPT ![n] = run.prevId[b]]
             /\ merges' = Record(merges, run.prevId[b], merged)
             /\ UNCHANGED <<dropped_ids, splits>>
    BY DEF HandleMerge, FindBestMergeCandidate, FindBest, lists
  <1> QED
    BY <1>5, <1>6, <1>7

(* The end of the merges leaves the ids alone. *)
LEMMA MergesEndStep ==
  ASSUME IInv, MergesEnd
  PROVE  IInv'
  <1>1. /\ pc = "merge" /\ pc' = "split"
        /\ UNCHANGED <<run, n, m, id, uuid, highestId, highestUuid, matches,
                       matched_uuids, tracked_ids, new_ids, dropped_ids, merges,
                       splits, performed>>
    BY DEF MergesEnd, Unchanged, lists
  <1>2. Cur' = Cur /\ PrevIds' = PrevIds /\ Prev' = Prev /\ CurIds' = CurIds
    BY <1>1 DEF Cur, PrevIds, Prev, CurIds
  <1>3. TypeInv'
    BY <1>1, <1>2 DEF IInv, TypeInv, TypeOK, Phases, Pairs, Assigned
  <1> QED
    BY <1>1, <1>2, <1>3
    DEF IInv, DistinctIds, Headroom, Bounded, CarriedIsTracked, TaggedSoFar, Assigning

(* A split re-tags only when no current cluster carries the previous id.   *)
LEMMA HandleSplitStep ==
  ASSUME IInv, HandleSplit
  PROVE  IInv'
  <1> USE DEF IInv, TypeInv
  <1> DEFINE C == SplitCandidates(m)
  <1>1. /\ pc = "split" /\ pc' = "split" /\ m \in Prev /\ m' = m + 1
        /\ UNCHANGED <<run, n, uuid, highestId, highestUuid, matches,
                       matched_uuids, performed>>
    BY RunFacts DEF HandleSplit, TypeOK, Prev
  <1>2. Cur' = Cur /\ PrevIds' = PrevIds /\ Prev' = Prev
    BY <1>1 DEF Cur, PrevIds, Prev
  <1>3. m' \in 1 .. run.M + 1 /\ Assigned /\ Assigned'
    BY <1>1, RunFacts DEF Prev, Assigned
  <1>4. C \subseteq Cur /\ PrevIds \subseteq Id
    BY RunFacts DEF SplitCandidates
  <1>5. CASE UNCHANGED <<id, lists>>
    <2>1. UNCHANGED <<tracked_ids, new_ids, dropped_ids, merges, splits>>
      BY <1>5 DEF lists
    <2>2. TypeInv'
      BY <1>1, <1>2, <1>3, <1>5, <2>1 DEF TypeOK, Pairs, CurIds
    <2> QED
      BY <1>1, <1>2, <1>5, <2>1, <2>2
      DEF DistinctIds, Headroom, Bounded, CarriedIsTracked, TaggedSoFar,
          Assigning, CurIds
  <1>6. CASE UNCHANGED <<id, tracked_ids, new_ids, dropped_ids, merges>>
             /\ splits' = Record(splits, run.prevId[m], {id[a] : a \in C})
    <2>1. \A k \in DOMAIN splits' : splits'[k] \subseteq Id
      <3>1. {id[a] : a \in C} \subseteq Id
        BY <1>3, <1>4 DEF TypeOK, CurIds
      <3> QED
        BY <1>6, <3>1 DEF Record, TypeOK
    <2>2. TypeInv'
      BY <1>1, <1>2, <1>3, <1>6, <2>1 DEF TypeOK, Pairs, CurIds
    <2> QED
      BY <1>1, <1>2, <1>6, <2>2
      DEF DistinctIds, Headroom, Bounded, CarriedIsTracked, TaggedSoFar,
          Assigning, CurIds
  <1>7. ASSUME NEW a \in C, ~\E c \in Cur : id[c] = run.prevId[m],
               new_ids' = EraseNew(a),
               tracked_ids' = tracked_ids \cup {id[a]},
               id' = [id EXCEPT ![a] = run.prevId[m]],
               splits' = Record(splits, run.prevId[m], {id'[c] : c \in C}),
               UNCHANGED <<dropped_ids, merges>>
        PROVE IInv'
    <2>1. /\ id' \in [Cur -> Id \cup {NoId}] /\ NoId \notin CurIds' /\ new_ids' \subseteq Id
          /\ \A c \in Cur : id'[c] = IF c = a THEN run.prevId[m] ELSE id[c]
          /\ DistinctIds' /\ Bounded' /\ TaggedSoFar'
      BY <1>1, <1>3, <1>4, <1>7, Retag
    <2>2. \A k \in DOMAIN splits' : splits'[k] \subseteq Id
      <3>1. {id'[c] : c \in C} \subseteq Id
        BY <1>2, <1>4, <2>1 DEF CurIds
      <3> QED
        BY <1>7, <3>1 DEF Record, TypeOK
    <2>3. tracked_ids' \subseteq Id
      BY <1>3, <1>4, <1>7 DEF TypeOK, CurIds
    <2>4. TypeInv'
      BY <1>1, <1>2, <1>3, <1>7, <2>1, <2>2, <2>3 DEF TypeOK, Pairs
    <2>5. Headroom' /\ CarriedIsTracked'
      BY <1>1 DEF Headroom, CarriedIsTracked
    <2> QED
      BY <2>1, <2>4, <2>5
  <1>8. \/ UNCHANGED <<id, lists>>
        \/ UNCHANGED <<id, tracked_ids, new_ids, dropped_ids, merges>>
           /\ splits' = Record(splits, run.prevId[m], {id[a] : a \in C})
        \/ \E a \in C :
             /\ ~\E c \in Cur : id[c] = run.prevId[m]
             /\ new_ids' = EraseNew(a)
             /\ tracked_ids' = tracked_ids \cup {id[a]}
             /\ id' = [id EXCEPT ![a] = run.prevId[m]]
             /\ splits' = Record(splits, run.prevId[m], {id'[c] : c \in C})
             /\ UNCHANGED <<dropped_ids, merges>>
    BY DEF HandleSplit, FindBestSplitCandidate, FindBest
  <1> QED
    BY <1>5, <1>6, <1>7, <1>8

(* The steps that end a run change no id.                                  *)
LEMMA EndingStep ==
  ASSUME IInv, SkipUninitialised \/ Fatal \/ SkipByTime \/ Finish \/ UNCHANGED vars
  PROVE  IInv'
  <1> USE DEF IInv, TypeInv
  <1>1. UNCHANGED <<run, n, m, id, uuid, highestUuid, matches, matched_uuids,
                    tracked_ids, new_ids, dropped_ids, merges, splits>>
    BY DEF SkipUninitialised, Fatal, SkipByTime, Finish, vars, lists, Unchanged
  <1>2. Cur' = Cur /\ PrevIds' = PrevIds /\ Prev' = Prev /\ CurIds' = CurIds
    BY <1>1 DEF Cur, PrevIds, Prev, CurIds
  <1>3. CASE SkipUninitialised \/ Fatal \/ SkipByTime
    <2>1. pc' \in {"skipped", "exit"} /\ performed' = performed
      BY <1>3 DEF SkipUninitialised, Fatal, SkipByTime, Unchanged
    <2>2. highestId' \in Id \cup {NoId}
      BY <1>3, HighestFacts DEF SkipUninitialised, Fatal, SkipByTime, Unchanged, TypeOK
    <2>3. TypeInv'
      BY <1>1, <1>2, <2>1, <2>2 DEF TypeOK, Phases, Assigned, Pairs
    <2> QED
      BY <1>1, <1>2, <2>1, <2>3
      DEF DistinctIds, Headroom, Bounded, CarriedIsTracked, TaggedSoFar, Assigning
  <1>4. CASE Finish \/ UNCHANGED vars
    <2>1. /\ pc' = pc \/ (pc = "split" /\ pc' = "done")
          /\ performed' \in BOOLEAN /\ highestId' = highestId
      BY <1>4 DEF Finish, vars, TypeOK
    <2>2. TypeInv'
      BY <1>1, <1>2, <2>1 DEF TypeOK, Phases, Assigned, Pairs
    <2> QED
      BY <1>1, <1>2, <2>1, <2>2
      DEF DistinctIds, Headroom, Bounded, CarriedIsTracked, TaggedSoFar, Assigning
  <1> QED
    BY <1>3, <1>4

(* Every step keeps the invariant. *)
LEMMA Invariance == Spec => []IInv
  <1>1. ASSUME IInv, [Next]_vars PROVE IInv'
    BY <1>1, InitialiseStep, CorrelateStep, MatchStep, MatchEndStep, FreshIdStep,
       DropOutsStep, HandleMergeStep, MergesEndStep, HandleSplitStep, EndingStep
    DEF Next, Terminated
  <1> QED
    BY InitIInv, <1>1, PTL DEF Spec

-----------------------------------------------------------------------------
(* The types of tracking_run_t's state hold throughout every run.          *)
THEOREM TypeCorrect == Spec => []TypeOK
  <1>1. IInv => TypeOK
    BY DEF IInv, TypeInv
  <1> QED
    BY Invariance, <1>1, PTL

(* No run gives two current clusters one id.                               *)
THEOREM IdsStayDistinct == Spec => []DistinctIds
  <1>1. IInv => DistinctIds
    BY DEF IInv
  <1> QED
    BY Invariance, <1>1, PTL

(* new_ids is the set of ids no previous cluster had.                      *)
THEOREM NewIdsCorrect == Spec => []NewIdsAreFresh
  <1>1. IInv => NewIdsAreFresh
    BY DEF IInv, TypeInv, TypeOK, TaggedSoFar, NewIdsAreFresh, Assigned, Assigning
  <1> QED
    BY Invariance, <1>1, PTL

(* highest_id bounds the ids of both lists: what RunsAssumption asks of    *)
(* the previous list holds again of the list a run leaves.                 *)
THEOREM HighestIdCorrect == Spec => []HighestIdBounds
  <1>1. IInv => HighestIdBounds
    BY DEF IInv, TypeInv, TypeOK, Bounded, HighestIdBounds, Assigned, Assigning, CurIds
  <1> QED
    BY Invariance, <1>1, PTL

-----------------------------------------------------------------------------
(* A run implements an id assignment.  Uuids are distinct, so that a       *)
(* matched uuid names one cluster; a cluster has an id in the matchmaking  *)
(* exactly if it is matched, and a matched cluster carries a tracked id.   *)
UuidInv ==
  /\ \A a, b \in Cur : uuid[a] = uuid[b] => a = b
  /\ ~Assigning => matched_uuids = {}
  /\ pc = "match" => \A a \in Cur : uuid[a] \notin matched_uuids => id[a] = NoId
  /\ Assigning =>
       \A a \in Cur : uuid[a] \in matched_uuids =>
                        id[a] \in tracked_ids /\ id[a] \in PrevIds

(* Every step keeps the facts about uuids. *)
LEMMA UuidInvariance == Spec => []UuidInv
  <1>1. Init => UuidInv
    BY DEF Init, UuidInv, Assigning
  <1>2. ASSUME UuidInv, IInv, [Next]_vars PROVE UuidInv'
    <2> USE <1>2 DEF UuidInv, IInv, TypeInv
    <2>1. run' = run /\ Cur' = Cur /\ PrevIds' = PrevIds /\ Prev' = Prev
      BY DEF Next, SkipUninitialised, Fatal, SkipByTime, Initialise, Correlate,
         Match, MatchEnd, FreshId, DropOuts, HandleMerge, MergesEnd, HandleSplit,
         Finish, Terminated, Unchanged, vars, Cur, PrevIds, Prev
    <2>2. CASE Initialise
      <3>1. PICK base \in {0, run.prevHighestUuid} \cup PrevIds :
              uuid' = [a \in Cur |-> base + a]
        BY <2>2 DEF Initialise, InitialiseUuids
      <3>2. base \in Nat
        BY <3>1, RunFacts
      <3>3. \A a, b \in Cur : uuid'[a] = uuid'[b] => a = b
        BY <3>1, <3>2, RunFacts DEF Cur
      <3> QED
        BY <2>1, <2>2, <3>3 DEF Initialise, Assigning
    <2>3. CASE Correlate
      BY <2>1, <2>3 DEF Correlate, Assigning
    <2>4. ASSUME NEW a \in Cur, NEW b \in Prev, Match(a, b) PROVE UuidInv'
      <3>1. pc = "match" /\ pc' = "match" /\ uuid' = uuid
        BY <2>4 DEF Match
      <3>2. CASE Taken(a, b)
        BY <2>1, <2>4, <3>1, <3>2 DEF Match, Assigning
      <3>3. CASE ~Taken(a, b)
        <4>1. /\ id' = [id EXCEPT ![a] = run.prevId[b]]
              /\ tracked_ids' = tracked_ids \cup {run.prevId[b]}
              /\ matched_uuids' = matched_uuids \cup {uuid[a]}
          BY <2>4, <3>3 DEF Match
        <4>2. \A c \in Cur : id'[c] = IF c = a THEN run.prevId[b] ELSE id[c]
          BY <4>1 DEF TypeOK
        <4>3. run.prevId[b] \in PrevIds
          BY DEF PrevIds
        <4> QED
          BY <2>1, <3>1, <4>1, <4>2, <4>3 DEF Assigning
      <3> QED
        BY <3>2, <3>3
    <2>5. CASE FreshId
      <3>1. /\ pc = "fresh" /\ pc' = "fresh"
            /\ UNCHANGED <<uuid, matched_uuids, tracked_ids>>
        BY <2>5 DEF FreshId
      <3>2. \A c \in Cur : uuid[c] \in matched_uuids => id'[c] = id[c]
        <4>1. NoId \notin PrevIds
          BY RunFacts
        <4> QED
          BY <2>5, <3>1, <4>1 DEF FreshId, TypeOK, Assigning
      <3> QED
        BY <2>1, <3>1, <3>2 DEF Assigning
    <2>6. CASE HandleMerge
      <3>1. /\ pc = "merge" /\ pc' = "merge" /\ UNCHANGED <<uuid, matched_uuids>>
            /\ tracked_ids \subseteq tracked_ids'
        BY <2>6 DEF HandleMerge, lists
      <3>2. \A c \in Cur : uuid[c] \in matched_uuids => id'[c] = id[c]
        <4>1. id' = id \/ \E b \in Prev : /\ \A bb \in Prev : id[n] # run.prevId[bb]
                                         /\ id' = [id EXCEPT ![n] = run.prevId[b]]
          BY <2>6 DEF HandleMerge, FindBestMergeCandidate, FindBest, MergeCandidates
        <4> QED
          BY <3>1, <4>1 DEF TypeOK, Assigning, PrevIds
      <3> QED
        BY <2>1, <3>1, <3>2 DEF Assigning
    <2>7. CASE HandleSplit
      <3>1. /\ pc = "split" /\ pc' = "split" /\ UNCHANGED <<uuid, matched_uuids>>
            /\ tracked_ids \subseteq tracked_ids'
        BY <2>7 DEF HandleSplit, lists
      <3>2. \A c \in Cur : uuid[c] \in matched_uuids => id'[c] = id[c]
        <4>1. id' = id \/ \E a \in Cur : /\ id[a] \notin tracked_ids
                                        /\ id' = [id EXCEPT ![a] = run.prevId[m]]
          BY <2>7 DEF HandleSplit, FindBestSplitCandidate, FindBest, SplitCandidates
        <4> QED
          BY <3>1, <4>1 DEF TypeOK, Assigning
      <3> QED
        BY <2>1, <3>1, <3>2 DEF Assigning
    <2>8. CASE MatchEnd \/ DropOuts \/ MergesEnd \/ Finish
      <3>1. /\ Assigning /\ Assigning' /\ pc' # "match"
            /\ UNCHANGED <<id, uuid, matched_uuids, tracked_ids>>
        BY <2>8 DEF MatchEnd, DropOuts, MergesEnd, Finish, Unchanged, lists, Assigning
      <3> QED
        BY <2>1, <3>1
    <2>9. CASE SkipUninitialised \/ Fatal \/ SkipByTime \/ UNCHANGED vars
      <3>1. /\ Assigning' = Assigning /\ (pc' = "match" => pc = "match")
            /\ UNCHANGED <<id, uuid, matched_uuids, tracked_ids>>
        BY <2>9 DEF SkipUninitialised, Fatal, SkipByTime, Unchanged, lists, vars, Assigning
      <3> QED
        BY <2>1, <3>1
    <2> QED
      BY <2>2, <2>3, <2>4, <2>5, <2>6, <2>7, <2>8, <2>9 DEF Next, Terminated
  <1> QED
    BY <1>1, <1>2, Invariance, PTL DEF Spec

-----------------------------------------------------------------------------
(* No track is lost.  Up to the drop-outs a tracked id is carried by a     *)
(* cluster; from there on an id of the previous list that is not tracked   *)
(* is dropped, and only such an id is ever taken away from a cluster.      *)
TracksInv ==
  /\ pc \in {"match", "fresh"} => tracked_ids \subseteq CurIds
  /\ Assigned => PrevIds \ tracked_ids \subseteq dropped_ids
  /\ NoTrackLost

(* TracksInv is kept by every step of a run. *)
LEMMA TracksInvariance == Spec => []TracksInv
  <1>1. Init => TracksInv
    BY DEF Init, TracksInv, NoTrackLost, Assigned
  <1>2. ASSUME TracksInv, UuidInv, IInv, [Next]_vars PROVE TracksInv'
    <2> USE <1>2 DEF TracksInv, NoTrackLost, IInv, TypeInv
    <2>1. run' = run /\ Cur' = Cur /\ PrevIds' = PrevIds /\ Prev' = Prev
      BY DEF Next, SkipUninitialised, Fatal, SkipByTime, Initialise, Correlate,
         Match, MatchEnd, FreshId, DropOuts, HandleMerge, MergesEnd, HandleSplit,
         Finish, Terminated, Unchanged, vars, Cur, PrevIds, Prev
    <2>2. CASE Initialise \/ SkipUninitialised \/ Fatal \/ SkipByTime
      BY <2>2 DEF Initialise, SkipUninitialised, Fatal, SkipByTime, Assigned
    <2>3. CASE Correlate
      BY <2>3 DEF Correlate, Assigned
    <2>4. ASSUME NEW a \in Cur, NEW b \in Prev, Match(a, b) PROVE TracksInv'
      <3>1. pc = "match" /\ pc' = "match" /\ ~Assigned'
        BY <2>4 DEF Match, Assigned
      <3>2. CASE Taken(a, b)
        BY <2>1, <2>4, <3>1, <3>2 DEF Match, CurIds
      <3>3. CASE ~Taken(a, b)
        <4>1. /\ id[a] = NoId
              /\ id' = [id EXCEPT ![a] = run.prevId[b]]
              /\ tracked_ids' = tracked_ids \cup {run.prevId[b]}
          BY <2>4, <3>1, <3>3 DEF Match, Taken, UuidInv
        <4>2. \A c \in Cur : id'[c] = IF c = a THEN run.prevId[b] ELSE id[c]
          BY <4>1 DEF TypeOK
        <4>3. NoId \notin tracked_ids
          BY RunFacts DEF TypeOK
        <4> QED
          BY <2>1, <3>1, <4>1, <4>2, <4>3 DEF CurIds
      <3> QED
        BY <3>2, <3>3
    <2>5. CASE MatchEnd
      BY <2>1, <2>5 DEF MatchEnd, Unchanged, lists, CurIds, Assigned
    <2>6. CASE FreshId
      <3>1. pc = "fresh" /\ pc' = "fresh" /\ ~Assigned' /\ UNCHANGED tracked_ids
        BY <2>6 DEF FreshId, Assigned
      <3>2. NoId \notin tracked_ids
        BY RunFacts DEF TypeOK
      <3>3. \A c \in Cur : id[c] # NoId => id'[c] = id[c]
        BY <2>6 DEF FreshId, TypeOK
      <3> QED
        BY <2>1, <3>1, <3>2, <3>3 DEF CurIds
    <2>7. CASE DropOuts
      <3>1. /\ pc = "fresh" /\ pc' = "merge" /\ UNCHANGED <<id, tracked_ids>>
            /\ dropped_ids' = dropped_ids \cup (PrevIds \ tracked_ids)
        BY <2>7 DEF DropOuts, Untracked
      <3> QED
        BY <2>1, <3>1 DEF CurIds
    <2>8. CASE HandleMerge
      <3>1. /\ pc = "merge" /\ pc' = "merge"
            /\ tracked_ids \subseteq tracked_ids' /\ dropped_ids' = dropped_ids
        BY <2>8 DEF HandleMerge, lists
      <3>2. id' = id \/ (id[n] \notin PrevIds /\ \E i \in Id : id' = [id EXCEPT ![n] = i])
        <4>1. id' = id \/ \E b \in Prev : /\ \A bb \in Prev : id[n] # run.prevId[bb]
                                         /\ id' = [id EXCEPT ![n] = run.prevId[b]]
          BY <2>8 DEF HandleMerge, FindBestMergeCandidate, FindBest, MergeCandidates
        <4> QED
          BY <4>1, RunFacts DEF PrevIds
      <3>3. \A i \in PrevIds \cap CurIds : i \in CurIds'
        BY <2>1, <3>1, <3>2 DEF TypeOK, CurIds
      <3> QED
        BY <2>1, <3>1, <3>3 DEF Assigned
    <2>9. CASE HandleSplit
      <3>1. /\ pc = "split" /\ pc' = "split"
            /\ tracked_ids \subseteq tracked_ids' /\ dropped_ids' = dropped_ids
        BY <2>9 DEF HandleSplit, lists
      <3>2. id' = id \/ \E a \in Cur : /\ id[a] \notin tracked_ids
                                      /\ id' = [id EXCEPT ![a] = run.prevId[m]]
        BY <2>9 DEF HandleSplit, FindBestSplitCandidate, FindBest, SplitCandidates
      <3>3. \A i \in tracked_ids \cap CurIds : i \in CurIds'
        BY <2>1, <3>2 DEF TypeOK, CurIds
      <3> QED
        BY <2>1, <3>1, <3>3 DEF Assigned
    <2>10. CASE MergesEnd \/ Finish \/ UNCHANGED vars
      <3>1. /\ pc' \in {"match", "fresh"} => pc = pc'
            /\ Assigned' = Assigned
            /\ UNCHANGED <<id, tracked_ids, dropped_ids>>
        BY <2>10 DEF MergesEnd, Finish, Unchanged, lists, vars, Assigned
      <3> QED
        BY <2>1, <3>1 DEF CurIds
    <2> QED
      BY <2>2, <2>3, <2>4, <2>5, <2>6, <2>7, <2>8, <2>9, <2>10 DEF Next, Terminated
  <1> QED
    BY <1>1, <1>2, Invariance, UuidInvariance, PTL DEF Spec

(* Every track of the previous list is carried on or listed as dropped.    *)
THEOREM TracksSurvive == Spec => []NoTrackLost
  <1>1. TracksInv => NoTrackLost
    BY DEF TracksInv
  <1> QED
    BY TracksInvariance, <1>1, PTL

-----------------------------------------------------------------------------
(* The matchmaking goes through the matches from the likeliest on: what is *)
(* taken is at least as likely as all that is left, and what was passed    *)
(* over lost one of its clusters to such a match.                          *)
Likelihood(a, b) == run.likelihood[a][b]

Beaten(a, b) ==
  \/ \E bb \in Prev : id[a] = run.prevId[bb] /\ Likelihood(a, b) <= Likelihood(a, bb)
  \/ \E aa \in Cur : id[aa] = run.prevId[b] /\ Likelihood(a, b) <= Likelihood(aa, b)

MatchInv ==
  /\ pc = "match" => /\ \A a \in Cur, b \in Prev :
                          MatchPossible(a, b) => <<a, b>> \in matches \/ Beaten(a, b)
                     /\ \A a \in Cur, b \in Prev : id[a] = run.prevId[b] =>
                          \A p \in matches : Likelihood(p[1], p[2]) <= Likelihood(a, b)
  /\ pc = "fresh" => \A a \in Cur, b \in Prev : MatchPossible(a, b) => Beaten(a, b)

(* One iteration of the matchmaking. *)
LEMMA MatchStepInv ==
  ASSUME MatchInv, TracksInv, UuidInv, IInv, NEW a \in Cur, NEW b \in Prev, Match(a, b),
         run' = run, Cur' = Cur, Prev' = Prev, PrevIds' = PrevIds
  PROVE  MatchInv'
  <1> USE DEF TypeInv
  <1>1. /\ pc = "match" /\ pc' = "match" /\ <<a, b>> \in matches
        /\ matches' = matches \ {<<a, b>>}
        /\ \A p \in matches : Likelihood(p[1], p[2]) <= Likelihood(a, b)
    BY DEF Match, NextInOrder, Likelihood
  <1>2. Likelihood(a, b) <= Likelihood(a, b)
    BY <1>1
  <1>3. \A x, y : Likelihood(x, y)' = Likelihood(x, y)
    BY DEF Likelihood
  <1>4. \A x \in Cur, y \in Prev : MatchPossible(x, y)' = MatchPossible(x, y)
    BY DEF MatchPossible, DeltaT
  <1>5. CASE Taken(a, b)
    <2>1. id' = id
      BY <1>5 DEF Match
    <2>2. Beaten(a, b)
      <3>1. CASE run.prevId[b] \in tracked_ids
        <4>1. PICK aa \in Cur : id[aa] = run.prevId[b]
          BY <1>1, <3>1 DEF TracksInv, CurIds
        <4>2. Likelihood(a, b) <= Likelihood(aa, b)
          <5>1. Likelihood(<<a, b>>[1], <<a, b>>[2]) <= Likelihood(aa, b)
            BY <1>1, <4>1 DEF MatchInv
          <5> QED
            BY <5>1
        <4> QED
          BY <4>1, <4>2 DEF Beaten
      <3>2. CASE uuid[a] \in matched_uuids
        <4>1. PICK bb \in Prev : id[a] = run.prevId[bb]
          BY <1>1, <3>2 DEF UuidInv, Assigning, PrevIds
        <4>2. Likelihood(a, b) <= Likelihood(a, bb)
          <5>1. Likelihood(<<a, b>>[1], <<a, b>>[2]) <= Likelihood(a, bb)
            BY <1>1, <4>1 DEF MatchInv
          <5> QED
            BY <5>1
        <4> QED
          BY <4>1, <4>2 DEF Beaten
      <3> QED
        BY <1>5, <3>1, <3>2 DEF Taken
    <2>3. \A x \in Cur, y \in Prev : Beaten(x, y)' = Beaten(x, y)
      BY <1>3, <2>1 DEF Beaten
    <2>4. \A x \in Cur, y \in Prev : <<x, y>> \in matches => <<x, y>> \in matches' \/ (x = a /\ y = b)
      BY <1>1
    <2>5. \A x \in Cur, y \in Prev : MatchPossible(x, y)' => <<x, y>> \in matches' \/ Beaten(x, y)'
      BY <1>1, <1>4, <2>2, <2>3, <2>4 DEF MatchInv
    <2>6. \A x \in Cur, y \in Prev : id'[x] = run.prevId[y] =>
            \A p \in matches' : Likelihood(p[1], p[2])' <= Likelihood(x, y)'
      BY <1>1, <1>3, <2>1 DEF MatchInv
    <2> QED
      BY <1>1, <2>5, <2>6 DEF MatchInv
  <1>6. CASE ~Taken(a, b)
    <2>1. /\ id[a] = NoId
          /\ id' = [id EXCEPT ![a] = run.prevId[b]]
      BY <1>1, <1>6 DEF Match, Taken, UuidInv
    <2>2. \A c \in Cur : id'[c] = IF c = a THEN run.prevId[b] ELSE id[c]
      BY <2>1 DEF IInv, TypeOK
    <2>3. \A y \in Prev : run.prevId[y] # NoId
      BY RunFacts DEF IInv, PrevIds
    <2>4. Beaten(a, b)'
      BY <1>2, <1>3, <2>2 DEF Beaten
    <2>5. ASSUME NEW x \in Cur, NEW y \in Prev, Beaten(x, y)
          PROVE  Beaten(x, y)'
      <3>1. CASE \E bb \in Prev : id[x] = run.prevId[bb] /\ Likelihood(x, y) <= Likelihood(x, bb)
        BY <1>3, <2>1, <2>2, <2>3, <3>1 DEF Beaten
      <3>2. CASE \E aa \in Cur : id[aa] = run.prevId[y] /\ Likelihood(x, y) <= Likelihood(aa, y)
        BY <1>3, <2>1, <2>2, <2>3, <3>2 DEF Beaten
      <3> QED
        BY <2>5, <3>1, <3>2 DEF Beaten
    <2>6. \A x \in Cur, y \in Prev : <<x, y>> \in matches => <<x, y>> \in matches' \/ (x = a /\ y = b)
      BY <1>1
    <2>7. \A x \in Cur, y \in Prev : MatchPossible(x, y)' => <<x, y>> \in matches' \/ Beaten(x, y)'
      BY <1>1, <1>4, <2>4, <2>5, <2>6 DEF MatchInv
    <2>8. ASSUME NEW x \in Cur, NEW y \in Prev, id'[x] = run.prevId[y], NEW p \in matches'
          PROVE  Likelihood(p[1], p[2])' <= Likelihood(x, y)'
      <3>1. p \in matches
        BY <1>1
      <3>2. CASE x = a
        <4>1. y = b
          BY <2>2, <2>8, <3>2, RunFacts DEF IInv
        <4> QED
          BY <1>1, <1>3, <3>1, <3>2, <4>1
      <3>3. CASE x # a
        BY <1>1, <1>3, <2>2, <2>8, <3>1, <3>3 DEF MatchInv
      <3> QED
        BY <3>2, <3>3
    <2> QED
      BY <1>1, <2>7, <2>8 DEF MatchInv
  <1> QED
    BY <1>5, <1>6

(* No possible match is left that is likelier than what both its clusters  *)
(* got, in whatever order equal likelihoods were visited.                  *)
THEOREM MatchingIsStable == Spec => []StableMatching
  <1>1. Init => MatchInv
    BY DEF Init, MatchInv
  <1>2. ASSUME MatchInv, TracksInv, UuidInv, IInv, [Next]_vars PROVE MatchInv'
    <2>1. run' = run /\ Cur' = Cur /\ PrevIds' = PrevIds /\ Prev' = Prev
      BY <1>2 DEF Next, SkipUninitialised, Fatal, SkipByTime, Initialise, Correlate,
         Match, MatchEnd, FreshId, DropOuts, HandleMerge, MergesEnd, HandleSplit,
         Finish, Terminated, Unchanged, vars, Cur, PrevIds, Prev
    <2>2. CASE Initialise \/ SkipUninitialised \/ Fatal \/ SkipByTime \/ DropOuts
               \/ HandleMerge \/ MergesEnd \/ HandleSplit \/ Finish
      BY <2>2 DEF Initialise, SkipUninitialised, Fatal, SkipByTime, DropOuts, HandleMerge,
         MergesEnd, HandleSplit, Finish, MatchInv
    <2>3. CASE Correlate
      <3>1. /\ pc' = "match" /\ id' = [c \in Cur |-> NoId]
            /\ matches' = {p \in Pairs(run) : MatchPossible(p[1], p[2])}
        BY <2>3 DEF Correlate
      <3>2. \A a \in Cur, b \in Prev : <<a, b>> \in Pairs(run)
        BY DEF Pairs, Cur, Prev
      <3>3. \A a \in Cur, b \in Prev : MatchPossible(a, b)' => <<a, b>> \in matches'
        BY <2>1, <3>1, <3>2 DEF MatchPossible, DeltaT
      <3>4. \A a \in Cur, b \in Prev : id'[a] # run.prevId[b]
        BY <1>2, <3>1, RunFacts DEF IInv, TypeInv, PrevIds
      <3> QED
        BY <2>1, <3>1, <3>3, <3>4 DEF MatchInv
    <2>4. ASSUME NEW a \in Cur, NEW b \in Prev, Match(a, b) PROVE MatchInv'
      BY <1>2, <2>1, <2>4, MatchStepInv
    <2>5. CASE MatchEnd
      <3>1. pc = "match" /\ matches = {} /\ pc' = "fresh" /\ id' = id
        BY <2>5 DEF MatchEnd, Unchanged
      <3>2. \A a \in Cur, b \in Prev : /\ Beaten(a, b)' = Beaten(a, b)
                                      /\ MatchPossible(a, b)' = MatchPossible(a, b)
        BY <2>1, <3>1 DEF Beaten, Likelihood, MatchPossible, DeltaT
      <3> QED
        BY <1>2, <2>1, <3>1, <3>2 DEF MatchInv
    <2>6. CASE FreshId
      <3>1. pc = "fresh" /\ pc' = "fresh" /\ \A c \in Cur : id[c] # NoId => id'[c] = id[c]
        BY <1>2, <2>6 DEF FreshId, IInv, TypeInv, TypeOK
      <3>2. \A y \in Prev : run.prevId[y] # NoId
        BY <1>2, RunFacts DEF IInv, TypeInv, PrevIds
      <3>3. \A a \in Cur, b \in Prev : /\ Beaten(a, b) => Beaten(a, b)'
                                      /\ MatchPossible(a, b)' = MatchPossible(a, b)
        BY <2>1, <3>1, <3>2 DEF Beaten, Likelihood, MatchPossible, DeltaT
      <3> QED
        BY <1>2, <2>1, <3>1, <3>3 DEF MatchInv
    <2>7. CASE UNCHANGED vars
      <3>1. pc' = pc /\ matches' = matches /\ id' = id
        BY <2>7 DEF vars
      <3>2. \A a \in Cur, b \in Prev : /\ Beaten(a, b)' = Beaten(a, b)
                                      /\ MatchPossible(a, b)' = MatchPossible(a, b)
        BY <2>1, <3>1 DEF Beaten, Likelihood, MatchPossible, DeltaT
      <3>3. \A x, y : Likelihood(x, y)' = Likelihood(x, y)
        BY <2>1 DEF Likelihood
      <3> QED
        BY <1>2, <2>1, <3>1, <3>2, <3>3 DEF MatchInv
    <2> QED
      BY <1>2, <2>2, <2>3, <2>4, <2>5, <2>6, <2>7 DEF Next, Terminated
  <1>3. MatchInv => StableMatching
    BY DEF MatchInv, StableMatching, Beaten, Likelihood
  <1> QED
    BY <1>1, <1>2, <1>3, Invariance, UuidInvariance, TracksInvariance, PTL DEF Spec

-----------------------------------------------------------------------------
(* What a merge is recorded to consist of: the cluster the merged one was  *)
(* matched with, and clusters nobody was matched with and for which no     *)
(* other current cluster has the better criterion.                         *)
Matched(a, b) == uuid[a] \in matched_uuids /\ id[a] = run.prevId[b]

Uncontested(a, b) ==
  /\ \A aa \in Cur \ {a} : ~BetterMerge(aa, a, b)
  /\ \A c \in Cur : ~Matched(c, b)

Merging == pc = "merge" \/ (pc = "split" /\ m = 1)

MergesInv ==
  /\ pc = "match" => merges = Empty
  /\ pc = "fresh" => /\ merges = Empty
                     /\ \A a \in Cur : id[a] \in PrevIds => uuid[a] \in matched_uuids
  /\ pc = "merge" => \A a \in Cur : a >= n =>
                       /\ id[a] \in PrevIds => uuid[a] \in matched_uuids
                       /\ id[a] \notin DOMAIN merges
  /\ Merging => \A a \in Cur, b \in Prev :
       id[a] \in DOMAIN merges /\ run.prevId[b] \in merges[id[a]]
         => Matched(a, b) \/ Uncontested(a, b)

(* One iteration of handleMerges. *)
LEMMA MergeStepInv ==
  ASSUME MergesInv, UuidInv, IInv, IInv', HandleMerge,
         run' = run, Cur' = Cur, Prev' = Prev, PrevIds' = PrevIds
  PROVE  MergesInv'
  <1> USE DEF TypeInv
  <1> DEFINE C == MergeCandidates(n)
             key == id'[n]
             merged == {run.prevId[b] : b \in C}
  <1>1. /\ pc = "merge" /\ pc' = "merge" /\ n' = n + 1 /\ n \in Cur /\ n \in Nat
        /\ uuid' = uuid /\ matched_uuids' = matched_uuids
    BY RunFacts DEF HandleMerge, IInv, TypeOK, Cur
  <1>2. \A a \in Cur : a \in Nat
    BY RunFacts DEF IInv, Cur
  <1>3. \A a \in Cur : a # n => id'[a] = id[a]
    BY <1>1 DEF HandleMerge, lists, IInv, TypeOK
  <1>4. \A a \in Cur : a # n => id[a] # key /\ id'[a] # key
    <2>1. \A a \in Cur : id'[a] # NoId
      BY <1>1 DEF IInv, TypeOK, Assigned, CurIds
    <2> QED
      BY <1>1, <1>3, <2>1 DEF IInv, DistinctIds
  <1>5. id'[n] = id[n] \/ id[n] \notin PrevIds
    BY <1>1 DEF HandleMerge, FindBestMergeCandidate, FindBest, PrevIds, lists
  <1>6. \A a \in Cur, b \in Prev : Matched(a, b)' <=> Matched(a, b)
    <2>1. \A a \in Cur : uuid[a] \in matched_uuids => id'[a] = id[a]
      BY <1>1, <1>3, <1>5 DEF UuidInv, Assigning
    <2> QED
      BY <1>1, <2>1 DEF Matched
  <1>7. \A a \in Cur, b \in Prev : Uncontested(a, b)' <=> Uncontested(a, b)
    BY <1>6 DEF Uncontested, BetterMerge, Criterion
  <1>8. \/ merges' = merges /\ id' = id
        \/ merges' = Record(merges, key, merged)
    BY <1>1 DEF HandleMerge, lists, IInv, TypeOK
  <1>9. ASSUME NEW b \in Prev, b \in C
        PROVE  Matched(n, b) \/ Uncontested(n, b)
    <2>1. CASE id[n] = run.prevId[b]
      BY <1>1, <1>2, <2>1 DEF MergesInv, Matched, PrevIds
    <2>2. CASE id[n] # run.prevId[b]
      <3>1. /\ run.prevId[b] \notin tracked_ids
            /\ \A aa \in Cur \ {n} : ~BetterMerge(aa, n, b)
        BY <1>9, <2>2 DEF MergeCandidates
      <3>2. \A c \in Cur : ~Matched(c, b)
        BY <1>1, <3>1 DEF UuidInv, Assigning, Matched
      <3> QED
        BY <3>1, <3>2 DEF Uncontested
    <2> QED
      BY <2>1, <2>2
  <1>10. \A a \in Cur : a >= n' => /\ id'[a] \in PrevIds => uuid'[a] \in matched_uuids'
                                   /\ id'[a] \notin DOMAIN merges'
    <2> SUFFICES ASSUME NEW a \in Cur, a >= n'
                 PROVE  /\ id'[a] \in PrevIds => uuid'[a] \in matched_uuids'
                        /\ id'[a] \notin DOMAIN merges'
      OBVIOUS
    <2>1. a # n /\ a >= n
      BY <1>1, <1>2
    <2>2. id'[a] = id[a] /\ id[a] # key
      BY <1>3, <1>4, <2>1
    <2>3. DOMAIN merges' \subseteq DOMAIN merges \cup {key}
      BY <1>8 DEF Record
    <2> QED
      BY <1>1, <2>1, <2>2, <2>3 DEF MergesInv
  <1>11. ASSUME NEW a \in Cur, NEW b \in Prev,
                id'[a] \in DOMAIN merges', run.prevId[b] \in merges'[id'[a]]
         PROVE  Matched(a, b)' \/ Uncontested(a, b)'
    <2>1. CASE a # n
      <3>1. id'[a] = id[a] /\ id[a] # key
        BY <1>3, <1>4, <2>1
      <3>2. id[a] \in DOMAIN merges /\ merges'[id[a]] = merges[id[a]]
        BY <1>8, <1>11, <3>1 DEF Record
      <3> QED
        BY <1>1, <1>6, <1>7, <1>11, <3>1, <3>2 DEF MergesInv, Merging
    <2>2. CASE a = n /\ merges' = merges /\ id' = id
      <3>1. id[n] \notin DOMAIN merges
        BY <1>1, <1>2 DEF MergesInv
      <3> QED
        BY <1>11, <2>2, <3>1
    <2>3. CASE a = n /\ merges' = Record(merges, key, merged)
      <3>1. merges'[key] = merged
        BY <2>3 DEF Record
      <3>2. PICK d \in C : run.prevId[b] = run.prevId[d]
        BY <1>11, <2>3, <3>1
      <3>3. d = b
        BY <3>2, RunFacts DEF IInv, MergeCandidates
      <3> QED
        BY <1>6, <1>7, <1>9, <2>3, <3>2, <3>3
    <2> QED
      BY <1>8, <2>1, <2>2, <2>3
  <1> QED
    BY <1>1, <1>10, <1>11 DEF MergesInv, Merging

(* A previous cluster is recorded as a part of two merges only when none   *)
(* of the two current clusters has the better criterion, however the       *)
(* iterations before have re-tagged clusters.                              *)
THEOREM OneMerge == Spec => []OneMergePerCluster
  <1>1. Init => MergesInv
    BY DEF Init, MergesInv, Merging
  <1>2. ASSUME MergesInv, UuidInv, IInv, IInv', [Next]_vars PROVE MergesInv'
    <2>1. run' = run /\ Cur' = Cur /\ PrevIds' = PrevIds /\ Prev' = Prev
      BY <1>2 DEF Next, SkipUninitialised, Fatal, SkipByTime, Initialise, Correlate,
         Match, MatchEnd, FreshId, DropOuts, HandleMerge, MergesEnd, HandleSplit,
         Finish, Terminated, Unchanged, vars, Cur, PrevIds, Prev
    <2>2. CASE Initialise \/ SkipUninitialised \/ Fatal \/ SkipByTime \/ Finish
      BY <2>2 DEF Initialise, SkipUninitialised, Fatal, SkipByTime, Finish, MergesInv, Merging
    <2>3. CASE Correlate
      BY <2>3 DEF Correlate, MergesInv, Merging
    <2>4. ASSUME NEW a \in Cur, NEW b \in Prev, Match(a, b) PROVE MergesInv'
      BY <1>2, <2>4 DEF Match, MergesInv, Merging
    <2>5. CASE MatchEnd
      <3>1. /\ pc = "match" /\ pc' = "fresh" /\ merges' = merges
            /\ id' = id /\ uuid' = uuid /\ matched_uuids' = matched_uuids
        BY <2>5 DEF MatchEnd, Unchanged, lists
      <3>2. \A a \in Cur : id[a] \in PrevIds => uuid[a] \in matched_uuids
        BY <1>2, <3>1, RunFacts DEF UuidInv, IInv, TypeInv
      <3> QED
        BY <1>2, <2>1, <3>1, <3>2 DEF MergesInv, Merging
    <2>6. CASE FreshId
      <3>1. /\ pc = "fresh" /\ pc' = "fresh" /\ merges' = merges
            /\ uuid' = uuid /\ matched_uuids' = matched_uuids
        BY <2>6 DEF FreshId
      <3>2. \A a \in Cur : id'[a] \in PrevIds => id'[a] = id[a]
        <4>1. CASE id[n] # NoId
          BY <2>6, <4>1 DEF FreshId
        <4>2. CASE id[n] = NoId
          <5>1. n \in Cur
            BY <1>2, <2>6, RunFacts DEF FreshId, IInv, TypeInv, TypeOK, Cur
          <5>2. highestId' = highestId + 1 /\ highestId \in Nat
            BY <1>2, <2>6, <3>1, <4>2, <5>1, RunFacts
            DEF FreshId, NextId, IInv, TypeInv, Headroom, Bounded, Assigning, Cur
          <5>3. highestId' \notin PrevIds
            BY <1>2, <3>1, <5>2, RunFacts DEF IInv, TypeInv, Bounded, Assigning
          <5>4. id' = [id EXCEPT ![n] = highestId']
            BY <2>6, <4>2 DEF FreshId
          <5> QED
            BY <1>2, <5>3, <5>4 DEF IInv, TypeInv, TypeOK
        <4> QED
          BY <4>1, <4>2
      <3> QED
        BY <1>2, <2>1, <3>1, <3>2 DEF MergesInv, Merging
    <2>7. CASE DropOuts
      <3>1. /\ pc = "fresh" /\ pc' = "merge" /\ merges' = merges
            /\ id' = id /\ uuid' = uuid /\ matched_uuids' = matched_uuids
        BY <2>7 DEF DropOuts
      <3>2. DOMAIN merges = {}
        BY <1>2, <3>1 DEF MergesInv, Empty
      <3> QED
        BY <1>2, <2>1, <3>1, <3>2 DEF MergesInv, Merging
    <2>8. CASE HandleMerge
      BY <1>2, <2>1, <2>8, MergeStepInv
    <2>9. CASE HandleSplit
      <3>1. pc = "split" /\ pc' = "split" /\ m' # 1
        BY <1>2, <2>9, RunFacts DEF HandleSplit, IInv, TypeInv, TypeOK
      <3> QED
        BY <3>1 DEF MergesInv, Merging
    <2>10. CASE MergesEnd \/ UNCHANGED vars
      <3>1. /\ merges' = merges /\ id' = id /\ uuid' = uuid /\ matched_uuids' = matched_uuids
            /\ n' = n /\ m' = m
            /\ pc' = pc \/ (pc = "merge" /\ pc' = "split")
        BY <2>10 DEF MergesEnd, Unchanged, lists, vars
      <3>2. \A a \in Cur, b \in Prev : /\ Matched(a, b)' = Matched(a, b)
                                      /\ Uncontested(a, b)' = Uncontested(a, b)
        BY <2>1, <3>1 DEF Matched, Uncontested, BetterMerge, Criterion
      <3>3. Merging' => Merging
        BY <3>1 DEF Merging
      <3> QED
        BY <1>2, <2>1, <3>1, <3>2, <3>3 DEF MergesInv
    <2> QED
      BY <1>2, <2>2, <2>3, <2>4, <2>5, <2>6, <2>7, <2>8, <2>9, <2>10 DEF Next, Terminated
  <1>3. MergesInv /\ IInv => OneMergePerCluster
    <2> SUFFICES ASSUME MergesInv, pc = "split", m = 1, NEW a \in Cur, NEW aa \in Cur,
                        NEW b \in Prev, a # aa, {id[a], id[aa]} \subseteq DOMAIN merges,
                        run.prevId[b] \in merges[id[a]] \cap merges[id[aa]],
                        IInv
                 PROVE  ~BetterMerge(a, aa, b) /\ ~BetterMerge(aa, a, b)
      BY DEF OneMergePerCluster
    <2>1. /\ Matched(a, b) \/ Uncontested(a, b)
          /\ Matched(aa, b) \/ Uncontested(aa, b)
      BY DEF MergesInv, Merging
    <2>2. ~(Matched(a, b) /\ Matched(aa, b))
      <3>1. run.prevId[b] # NoId
        BY RunFacts DEF IInv, TypeInv, PrevIds
      <3> QED
        BY <3>1 DEF IInv, DistinctIds, Matched
    <2>3. Uncontested(a, b) /\ Uncontested(aa, b)
      BY <2>1, <2>2 DEF Uncontested
    <2> QED
      BY <2>3 DEF Uncontested
  <1> QED
    BY <1>1, <1>2, <1>3, Invariance, UuidInvariance, PTL DEF Spec

-----------------------------------------------------------------------------
(* The id assignment sees a step only when an id changes or is settled.    *)
LEMMA StutterStep ==
  ASSUME run' = run, id' = id, uuid' = uuid, matched_uuids' = matched_uuids,
         Assigning' = Assigning
  PROVE  UNCHANGED Assignment!vars
  BY DEF Assignment!vars, Settled, Cur, PrevIds, Prev

(* A current cluster that takes the id of a previous one nobody carries.   *)
LEMMA TakeStep ==
  ASSUME IInv, Assigning, Assigning', run' = run, NEW a \in Cur, NEW i,
         id' = [id EXCEPT ![a] = i], i # NoId, \A c \in Cur : id[c] # i
  PROVE  /\ id'[a] = i
         /\ Assignment!OnlyChanges(a)
         /\ Cur' = Cur /\ PrevIds' = PrevIds
  <1>1. id'[a] = i /\ Cur' = Cur /\ PrevIds' = PrevIds
    BY DEF IInv, TypeInv, TypeOK, Cur, PrevIds, Prev
  <1>2. i \notin Assignment!Used
    BY DEF Assignment!Used
  <1> QED
    BY <1>1, <1>2 DEF Assignment!OnlyChanges

(* Every step of a run is a step of the id assignment or a stutter. *)
LEMMA StepAssigns ==
  ASSUME IInv, UuidInv, UuidInv', [Next]_vars
  PROVE  [Assignment!Next]_(Assignment!vars)
  <1> USE DEF IInv, TypeInv
  <1>1. CASE Initialise
    <2>1. /\ UNCHANGED <<run, id, matched_uuids>> /\ ~Assigning /\ ~Assigning'
      BY <1>1 DEF Initialise, Assigning
    <2>2. Settled = {} /\ Settled' = {}
      BY <2>1 DEF UuidInv, Settled
    <2>3. Assigning' = Assigning /\ Settled' = Settled
      BY <2>1, <2>2 DEF Assigning
    <2>4. Cur' = Cur /\ PrevIds' = PrevIds /\ id' = id
      BY <2>1 DEF Cur, PrevIds, Prev
    <2> QED
      BY <2>3, <2>4 DEF Assignment!vars
  <1>2. CASE Correlate
    <2>1. /\ run' = run /\ uuid' = uuid /\ matched_uuids' = matched_uuids
          /\ ~Assigning /\ Assigning' /\ id' = [a \in Cur |-> NoId]
      BY <1>2 DEF Correlate, Assigning
    <2>2. Cur' = Cur /\ PrevIds' = PrevIds /\ Settled' = Settled
      BY <2>1 DEF Settled, Cur, PrevIds, Prev
    <2>3. Assignment!Begin
      BY <2>1, <2>2 DEF Assignment!Begin
    <2> QED
      BY <2>3 DEF Assignment!Next
  <1>3. ASSUME NEW a \in Cur, NEW b \in Prev, Match(a, b)
        PROVE  [Assignment!Next]_(Assignment!vars)
    <2>1. pc = "match" /\ run' = run /\ uuid' = uuid /\ Assigning /\ Assigning'
      BY <1>3 DEF Match, Assigning
    <2>2. CASE Taken(a, b)
      BY <1>3, <2>1, <2>2, StutterStep DEF Match
    <2>3. CASE ~Taken(a, b)
      <3>1. /\ id' = [id EXCEPT ![a] = run.prevId[b]]
            /\ matched_uuids' = matched_uuids \cup {uuid[a]}
        BY <1>3, <2>3 DEF Match
      <3>2. run.prevId[b] \in PrevIds /\ run.prevId[b] # NoId
        BY RunFacts DEF PrevIds
      <3>3. \A c \in Cur : id[c] # run.prevId[b]
        BY <2>1, <2>3, <3>2 DEF Taken, CarriedIsTracked
      <3>4. id'[a] = run.prevId[b] /\ Assignment!OnlyChanges(a) /\ Cur' = Cur
        BY <2>1, <3>1, <3>2, <3>3, TakeStep
      <3>5. id[a] = NoId
        BY <2>1, <2>3 DEF UuidInv, Taken
      <3>6. Settled' = Settled \cup {a}
        BY <2>1, <3>1, <3>4 DEF UuidInv, Settled
      <3>7. Assignment!Continue(a)
        BY <3>2, <3>4, <3>5, <3>6 DEF Assignment!Continue
      <3> QED
        BY <3>7 DEF Assignment!Next
    <2> QED
      BY <2>2, <2>3
  <1>4. CASE FreshId
    <2>1. /\ pc = "fresh" /\ run' = run /\ uuid' = uuid /\ Assigning /\ Assigning'
          /\ matched_uuids' = matched_uuids /\ n \in Cur
      BY <1>4, RunFacts DEF FreshId, Assigning, TypeOK, Cur
    <2>2. CASE id[n] # NoId
      BY <1>4, <2>1, <2>2, StutterStep DEF FreshId
    <2>3. CASE id[n] = NoId
      <3>1. highestId' = highestId + 1 /\ highestId \in Nat /\ highestId' \in Id
        BY <1>4, <2>1, <2>3, RunFacts
        DEF FreshId, NextId, Headroom, Bounded, Cur
      <3>2. \A i \in PrevIds : i <= highestId
        BY <2>1 DEF Bounded
      <3>3. \A c \in Cur : id[c] # NoId => id[c] <= highestId
        BY <2>1 DEF Bounded
      <3>4. highestId' # NoId /\ highestId' \notin PrevIds
        BY <3>1, <3>2, RunFacts
      <3>5. \A c \in Cur : id[c] # highestId'
        BY <3>1, <3>3, <3>4
      <3>6. id' = [id EXCEPT ![n] = highestId']
        BY <1>4, <2>3 DEF FreshId
      <3>7. id'[n] = highestId' /\ Assignment!OnlyChanges(n) /\ Cur' = Cur
        BY <2>1, <3>4, <3>5, <3>6, TakeStep
      <3>8. Settled' = Settled
        BY <2>1, <3>7 DEF Settled
      <3>9. Assignment!Fresh(n)
        BY <2>3, <3>4, <3>7, <3>8 DEF Assignment!Fresh
      <3> QED
        BY <2>1, <3>9 DEF Assignment!Next
    <2> QED
      BY <2>2, <2>3
  <1>5. CASE HandleMerge
    <2>1. /\ pc = "merge" /\ run' = run /\ uuid' = uuid /\ Assigning /\ Assigning'
          /\ matched_uuids' = matched_uuids /\ n \in Cur
      BY <1>5, RunFacts DEF HandleMerge, Assigning, TypeOK, Cur
    <2>2. \/ id' = id
          \/ \E b \in Prev : /\ \A bb \in Prev : id[n] # run.prevId[bb]
                            /\ run.prevId[b] \notin tracked_ids
                            /\ id' = [id EXCEPT ![n] = run.prevId[b]]
      BY <1>5 DEF HandleMerge, FindBestMergeCandidate, FindBest, MergeCandidates
    <2>3. CASE id' = id
      BY <2>1, <2>3, StutterStep
    <2>4. ASSUME NEW b \in Prev, \A bb \in Prev : id[n] # run.prevId[bb],
                 run.prevId[b] \notin tracked_ids,
                 id' = [id EXCEPT ![n] = run.prevId[b]]
          PROVE  Assignment!Retag(n)
      <3>1. run.prevId[b] \in PrevIds /\ run.prevId[b] # NoId
        BY RunFacts DEF PrevIds
      <3>2. \A c \in Cur : id[c] # run.prevId[b]
        BY <2>1, <2>4, <3>1 DEF CarriedIsTracked
      <3>3. /\ id'[n] = run.prevId[b] /\ Assignment!OnlyChanges(n) /\ Cur' = Cur
        BY <2>1, <2>4, <3>1, <3>2, TakeStep
      <3>4. Settled' = Settled
        BY <2>1, <3>3 DEF Settled
      <3>5. n \notin Settled
        BY <2>1, <2>4 DEF UuidInv, Settled, PrevIds
      <3> QED
        BY <3>1, <3>3, <3>4, <3>5 DEF Assignment!Retag
    <2> QED
      BY <2>1, <2>2, <2>3, <2>4 DEF Assignment!Next
  <1>6. CASE HandleSplit
    <2>1. /\ pc = "split" /\ run' = run /\ uuid' = uuid /\ Assigning /\ Assigning'
          /\ matched_uuids' = matched_uuids /\ m \in Prev
      BY <1>6, RunFacts DEF HandleSplit, Assigning, TypeOK, Prev
    <2>2. \/ id' = id
          \/ \E a \in Cur : /\ \A c \in Cur : id[c] # run.prevId[m]
                           /\ id[a] \notin tracked_ids
                           /\ id' = [id EXCEPT ![a] = run.prevId[m]]
      BY <1>6 DEF HandleSplit, FindBestSplitCandidate, FindBest, SplitCandidates
    <2>3. CASE id' = id
      BY <2>1, <2>3, StutterStep
    <2>4. ASSUME NEW a \in Cur, \A c \in Cur : id[c] # run.prevId[m],
                 id[a] \notin tracked_ids, id' = [id EXCEPT ![a] = run.prevId[m]]
          PROVE  Assignment!Retag(a)
      <3>1. run.prevId[m] \in PrevIds /\ run.prevId[m] # NoId
        BY <2>1, RunFacts DEF PrevIds
      <3>2. /\ id'[a] = run.prevId[m] /\ Assignment!OnlyChanges(a) /\ Cur' = Cur
        BY <2>1, <2>4, <3>1, TakeStep
      <3>3. Settled' = Settled
        BY <2>1, <3>2 DEF Settled
      <3>4. a \notin Settled
        BY <2>1, <2>4 DEF UuidInv, Settled
      <3> QED
        BY <3>1, <3>2, <3>3, <3>4 DEF Assignment!Retag
    <2> QED
      BY <2>2, <2>3, <2>4 DEF Assignment!Next
  <1>7. CASE MatchEnd \/ DropOuts \/ MergesEnd \/ Finish \/ SkipUninitialised
             \/ Fatal \/ SkipByTime \/ UNCHANGED vars
    <2>1. UNCHANGED <<run, id, uuid, matched_uuids>> /\ Assigning' = Assigning
      BY <1>7 DEF MatchEnd, DropOuts, MergesEnd, Finish, SkipUninitialised, Fatal,
         SkipByTime, Unchanged, lists, vars, Assigning
    <2> QED
      BY <2>1, StutterStep
  <1> QED
    BY <1>1, <1>2, <1>3, <1>4, <1>5, <1>6, <1>7 DEF Next, Terminated

(* For every input, what a run does with ids is an id assignment: no id is *)
(* given twice, none of a carried track, and no matched cluster loses its. *)
THEOREM RunAssignsIds == Spec => AssignsIds
  <1>1. Init /\ UuidInv => Assignment!Init
    BY DEF Init, UuidInv, Assignment!Init, Assigning, Settled
  <1>2. ASSUME IInv, UuidInv, UuidInv', [Next]_vars
        PROVE  [Assignment!Next]_(Assignment!vars)
    BY <1>2, StepAssigns
  <1> QED
    BY <1>1, <1>2, Invariance, UuidInvariance, PTL
    DEF Spec, AssignsIds, Assignment!Spec
=============================================================================
