----------------------------- MODULE MCTracking -----------------------------
(***************************************************************************)
(* Inputs of tracking runs for TLC.  The times of the lists are 1 and, but *)
(* for the runs that are skipped, 2; a displacement of more than 1 is too  *)
(* far.                                                                    *)
(***************************************************************************)
EXTENDS Tracking

Total(f) == LET sum[k \in Nat] == IF k = 0 THEN 0 ELSE sum[k - 1] + f[k]
            IN  sum[Cardinality(DOMAIN f)]
Matrix(N, M, S) == [1 .. N -> [1 .. M -> S]]
Same(N, M, x) == [a \in 1 .. N |-> [b \in 1 .. M |-> x]]

MkRun(N, M, common, dr, likelihood) ==
  [N |-> N, M |-> M,
   prevId |-> [b \in 1 .. M |-> 2 * (M - b) + 1],
   prevHighest |-> NoId, prevHighestUuid |-> 0,
   prevTime |-> 1, curTime |-> 2,
   sameVariables |-> TRUE, trackingVariableFound |-> TRUE,
   common |-> common,
   curSize |-> [a \in 1 .. N |-> 1 + Total(common[a])],
   prevSize |-> [b \in 1 .. M |-> 1 + Total([a \in 1 .. N |-> common[a][b]])],
   radius |-> [b \in 1 .. M |-> IF b = 1 THEN 1 ELSE 0],
   midDisplacement |-> dr,
   closeness |-> [a \in 1 .. N |-> [b \in 1 .. M |-> 3 - dr[a][b]]],
   likelihood |-> likelihood]

(* Empty lists, lists out of order or too far apart in time, missing       *)
(* variables, lists with and without counters.                             *)
Edges ==
  {[MkRun(N, M, Same(N, M, 0), Same(N, M, 0), Same(N, M, 1)) EXCEPT
      !.prevHighest = highest, !.prevHighestUuid = IF highest = NoId THEN 0 ELSE 7,
      !.curTime = time, !.sameVariables = flag, !.trackingVariableFound = flag] :
     N \in 0 .. 2, M \in 0 .. 2, highest \in {NoId, 5}, time \in 0 .. 4, flag \in BOOLEAN}

(* Every pattern of possible matches and of likelihoods, with ties: no     *)
(* overlaps, but clusters so small that they need not overlap, so that the *)
(* displacement alone tells which pairs can match.                         *)
Matchings(N) ==
  {[MkRun(N, 2, Same(N, 2, 0), dr, l) EXCEPT !.radius = [b \in 1 .. 2 |-> 0]] :
     dr \in Matrix(N, 2, {0, 2}), l \in Matrix(N, 2, {1, 2})}

(* Every pattern of overlaps and distances of two clusters and two.        *)
Overlappings(N, M) ==
  {MkRun(N, M, common, dr, Same(N, M, 1)) :
     common \in Matrix(N, M, {0, 1, 6}), dr \in Matrix(N, M, {0, 2})}

(* Every pattern of overlaps of N and M clusters, the first ones of the    *)
(* current clusters too far away to be matched.                            *)
Regroupings(N, M) ==
  {MkRun(N, M, common, [a \in 1 .. N |-> [b \in 1 .. M |-> IF a <= far THEN 2 ELSE 0]],
         Same(N, M, 1)) :
     common \in Matrix(N, M, {0, 1, 6}), far \in 0 .. N}

TheRuns ==
  Edges \cup Matchings(2) \cup Matchings(3) \cup Overlappings(2, 2)
  \cup Regroupings(2, 3) \cup Regroupings(3, 2)

OneThird == [num |-> 1, den |-> 3]
ThreeQuarters == [num |-> 3, den |-> 4]
=============================================================================
