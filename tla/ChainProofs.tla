---------------------------- MODULE ChainProofs ----------------------------
(***************************************************************************)
(* For any number of frames and clusters, any gaps, lists collated with    *)
(* the previous output and any re-run of the tracking: along tracked       *)
(* frames an id names one track and no uuid is given twice.                *)
(***************************************************************************)
EXTENDS Chain, FiniteSetTheorems, TLAPS

(* What a list of frame k is by itself: distinct ids and tracks, distinct  *)
(* uuids but for clusters that were not given one yet, and counters that   *)
(* bound them.                                                             *)
Own(l, k) ==
  /\ IsList(l)
  /\ l.track \in [1 .. l.N -> (1 .. k) \X Nat]
  /\ \A a, b \in 1 .. l.N :
       /\ l.id[a] = l.id[b] \/ l.track[a] = l.track[b] => a = b
       /\ l.uuid[a] = l.uuid[b] /\ l.uuid[a] # NoUuid => a = b
  /\ \A a \in 1 .. l.N : /\ l.id[a] >= 1 /\ l.highest_uuid >= 1
                         /\ l.uuid[a] # NoUuid => l.uuid[a] <= l.highest_uuid
                         /\ l.performed => l.uuid[a] # NoUuid
  /\ l.performed => /\ l.highest_id \in Nat
                    /\ \A a \in 1 .. l.N : l.id[a] <= l.highest_id

(* How clusters of an earlier list and a later one relate.                 *)
Agree(e, l) ==
  \A a \in 1 .. e.N, b \in 1 .. l.N :
    /\ e.id[a] = l.id[b] <=> e.track[a] = l.track[b]
    /\ e.uuid[a] # l.uuid[b]

Below(e, h, u) ==
  \A a \in 1 .. e.N : e.id[a] <= h /\ (e.uuid[a] # NoUuid => e.uuid[a] <= u)

(* What a tracked list of frame k promises of the frames it is linked to.  *)
Link(l, k) ==
  l.performed =>
    \A j \in Stored : j <= k - 1 /\ Linked(j, k - 1) =>
      /\ Agree(file[j], l)
      /\ Below(file[j], l.highest_id, l.highest_uuid)

Fits(l, k) == Own(l, k) /\ Link(l, k)

IInv ==
  /\ TypeOK
  /\ pc \in {"read", "track", "save"} => frame > 1
  /\ \A k \in Stored : Fits(file[k], k)
  /\ pc \in {"track", "save"} /\ Writable(current) => Fits(current, frame)

-----------------------------------------------------------------------------
(* Ranks number the elements of a set of clusters.                         *)
LEMMA RankFacts ==
  ASSUME NEW N \in Nat, NEW S \in SUBSET (1 .. N)
  PROVE  /\ Cardinality(S) \in Nat
         /\ \A a \in S : /\ Rank(S, a) \in Nat
                         /\ 1 <= Rank(S, a) /\ Rank(S, a) <= Cardinality(S)
         /\ \A a, b \in S : Rank(S, a) = Rank(S, b) => a = b
  <1>1. IsFiniteSet(S) /\ S \subseteq Nat
    <2>1. IsFiniteSet(1 .. N)
      BY FS_Interval
    <2>2. IsFiniteSet(S)
      BY <2>1, FS_Subset
    <2>3. S \subseteq Nat
      OBVIOUS
    <2> QED
      BY <2>2, <2>3
  <1>2. Cardinality(S) \in Nat
    BY <1>1, FS_CardinalityType
  <1> DEFINE UpTo(a) == {b \in S : b <= a}
  <1>3. ASSUME NEW a \in S
        PROVE  /\ IsFiniteSet(UpTo(a)) /\ Rank(S, a) = Cardinality(UpTo(a))
               /\ Rank(S, a) \in Nat /\ 1 <= Rank(S, a) /\ Rank(S, a) <= Cardinality(S)
    <2>1. UpTo(a) \in SUBSET S
      OBVIOUS
    <2>2. IsFiniteSet(UpTo(a)) /\ Cardinality(UpTo(a)) <= Cardinality(S)
      BY <1>1, <2>1, FS_Subset
    <2>3. Cardinality(UpTo(a)) \in Nat
      BY <2>2, FS_CardinalityType
    <2>4. a \in UpTo(a)
      OBVIOUS
    <2>5. Cardinality(UpTo(a)) # 0
      BY <2>2, <2>4, FS_EmptySet
    <2>6. Rank(S, a) = Cardinality(UpTo(a))
      BY DEF Rank
    <2> HIDE DEF UpTo
    <2> QED
      BY <2>2, <2>3, <2>5, <2>6
  <1>4. ASSUME NEW a \in S, NEW b \in S, a < b
        PROVE  Rank(S, a) # Rank(S, b)
    <2>1. /\ a \in Int /\ b \in Int
          /\ \A c \in S : c \in Int
      BY <1>1
    <2>2. UpTo(a) \in SUBSET UpTo(b)
      <3>1. \A c \in S : c <= a => c <= b
        BY <1>4, <2>1
      <3> QED
        BY <3>1
    <2>3. b \in UpTo(b) /\ b \notin UpTo(a)
      BY <1>4, <2>1
    <2>4. IsFiniteSet(UpTo(b)) /\ Rank(S, a) = Cardinality(UpTo(a))
          /\ Rank(S, b) = Cardinality(UpTo(b))
      BY <1>3
    <2> HIDE DEF UpTo
    <2>5. Cardinality(UpTo(a)) = Cardinality(UpTo(b)) => UpTo(a) = UpTo(b)
      BY <2>2, <2>4, FS_Subset
    <2> QED
      BY <2>3, <2>4, <2>5
  <1>5. \A a, b \in S : a # b => a < b \/ b < a
    BY <1>1
  <1> HIDE DEF UpTo
  <1> QED
    BY <1>2, <1>3, <1>4, <1>5

(* A list read back from its file fits where the file did.                 *)
LEMMA ReadBackFits ==
  ASSUME NEW l, NEW k \in Nat, Fits(l, k)
  PROVE  LET r == ReadBack(l)
         IN  /\ Fits(r, k) /\ ~r.performed
             /\ r.N = l.N /\ r.id = l.id /\ r.uuid = l.uuid /\ r.track = l.track
             /\ r.highest_uuid = l.highest_uuid
             /\ r.highest_id = IF l.performed THEN l.highest_id ELSE NoId
  BY DEF Fits, Own, Link, ReadBack, IsList

(* The counters the tracking starts from bound the previous list and, when *)
(* that was tracked, every list it is linked to.                           *)
LEMMA CountersBound ==
  ASSUME NEW k \in Stored, Stored \subseteq Nat, Fits(file[k], k),
         \A j \in Stored : Own(file[j], j),
         NEW h, NEW u, IsHighestId(ReadBack(file[k]), h),
         IsHighestUuid(ReadBack(file[k]), u)
  PROVE  /\ h \in Nat /\ u \in Nat
         /\ \A j \in Stored : j <= k /\ Linked(j, k) => Below(file[j], h, u)
  <1> DEFINE p == file[k]
             r == ReadBack(p)
  <1>1. /\ r.N = p.N /\ r.id = p.id /\ r.highest_uuid = p.highest_uuid
        /\ r.highest_id = IF p.performed THEN p.highest_id ELSE NoId
    BY ReadBackFits
  <1>2. Own(p, k) /\ Link(p, k)
    BY DEF Fits
  <1> HIDE DEF r
  <1>3. Ids(r) = {p.id[a] : a \in 1 .. p.N}
    BY <1>1 DEF Ids, Clusters
  <1>4. u = p.highest_uuid
    <2>1. p.N = 0 \/ p.highest_uuid # 0
      <3>1. /\ p.N \in Nat /\ p.highest_uuid \in Nat
            /\ \A a \in 1 .. p.N : p.highest_uuid >= 1
        BY <1>2 DEF Own, IsList
      <3>2. p.N # 0 => 1 \in 1 .. p.N
        BY <3>1
      <3> HIDE DEF p
      <3> QED
        BY <3>1, <3>2
    <2> QED
      BY <1>1, <1>2, <2>1 DEF IsHighestUuid, Own, IsList, r
  <1>5. h \in Nat /\ \A a \in 1 .. p.N : p.id[a] <= h
    <2>1. Ids(r) \subseteq Nat
      <3>1. p.id \in [1 .. p.N -> Nat]
        BY <1>2 DEF Own, IsList
      <3> HIDE DEF p
      <3> QED
        BY <1>3, <3>1
    <2>2. CASE IsHighestOf(r, h)
      BY <1>3, <2>1, <2>2 DEF IsHighestOf
    <2>3. CASE ~IsHighestOf(r, h)
      <3>1. h = r.highest_id /\ r.highest_id # NoId
        BY <2>3 DEF IsHighestId, r
      <3>2. p.performed /\ h = p.highest_id
        BY <1>1, <3>1
      <3> QED
        BY <1>2, <3>2 DEF Own
    <2> QED
      BY <2>2, <2>3
  <1>6. p.performed => h = p.highest_id
    <2>1. ASSUME p.performed PROVE p.N = 0 \/ p.highest_id # 0
      <3>1. /\ p.N \in Nat /\ p.highest_id \in Nat /\ p.id \in [1 .. p.N -> Nat]
            /\ \A a \in 1 .. p.N : p.id[a] >= 1 /\ p.id[a] <= p.highest_id
        BY <1>2, <2>1 DEF Own, IsList
      <3>2. p.N # 0 => 1 \in 1 .. p.N
        BY <3>1
      <3> HIDE DEF p
      <3> QED
        BY <3>1, <3>2
    <2> QED
      BY <1>1, <1>2, <2>1, NoIdAssumption DEF IsHighestId, Own, IsList, r
  <1>7. ASSUME NEW j \in Stored, j <= k, Linked(j, k) PROVE Below(file[j], h, u)
    <2>1. CASE j = k
      BY <1>2, <1>4, <1>5, <2>1 DEF Below, Own
    <2>2. CASE j # k
      <3>1. p.performed /\ j <= k - 1 /\ Linked(j, k - 1)
        BY <1>7, <2>2 DEF Linked
      <3>2. Below(file[j], p.highest_id, p.highest_uuid)
        BY <1>2, <3>1 DEF Link
      <3> QED
        BY <1>4, <1>6, <3>1, <3>2
    <2> QED
      BY <2>1, <2>2
  <1>8. u \in Nat
    BY <1>2, <1>4 DEF Own, IsList
  <1> QED
    BY <1>5, <1>7, <1>8

(* Along linked frames, the previous list agrees with what came before it. *)
LEMMA TracksOfPrevious ==
  ASSUME NEW k \in Stored, NEW j \in Stored, Stored \subseteq Nat,
         Fits(file[k], k), j <= k, Linked(j, k),
         NEW a \in 1 .. file[j].N, NEW b \in 1 .. file[k].N
  PROVE  /\ file[j].id[a] = file[k].id[b] <=> file[j].track[a] = file[k].track[b]
         /\ file[j].uuid[a] = file[k].uuid[b] =>
              \/ j = k /\ a = b
              \/ j = k /\ file[k].uuid[b] = NoUuid /\ ~file[k].performed
  <1>1. CASE j = k
    BY <1>1 DEF Fits, Own
  <1>2. CASE j # k
    <2>1. file[k].performed /\ j <= k - 1 /\ Linked(j, k - 1)
      BY <1>2 DEF Linked
    <2>2. Agree(file[j], file[k])
      BY <2>1 DEF Fits, Link
    <2> QED
      BY <2>2 DEF Agree
  <1> QED
    BY <1>1, <1>2

(* What is written over the current frame leaves the earlier frames alone. *)
LEMMA StoreFits ==
  ASSUME TypeOK, \A k \in Stored : Fits(file[k], k),
         NEW l, Fits(l, frame), file' = Store(frame, l)
  PROVE  /\ Stored' = Stored \cup {frame}
         /\ \A k \in Stored' : IsList(file'[k])
         /\ \A k \in Stored' : Fits(file[k], k)'
  <1>1. /\ Stored' = Stored \cup {frame}
        /\ \A k \in Stored' : file'[k] = IF k = frame THEN l ELSE file[k]
    BY DEF Store, Stored
  <1>2. /\ frame \in Nat /\ frame >= 1
        /\ 1 .. frame - 1 \subseteq Stored /\ Stored \subseteq 1 .. frame
    BY DEF TypeOK
  <1>3. ASSUME NEW k \in Stored' PROVE Own(file'[k], k)
    BY <1>1 DEF Fits
  <1>4. ASSUME NEW k \in Stored', NEW j \in Stored', j <= k - 1
        PROVE  /\ j \in Stored /\ file'[j] = file[j]
               /\ Linked(j, k - 1)' => Linked(j, k - 1)
    <2>1. k \in 1 .. frame /\ j \in 1 .. frame
      BY <1>1, <1>2
    <2>2. j \in Stored /\ j # frame
      BY <1>1, <1>2, <1>4, <2>1
    <2>3. \A i \in j + 1 .. k - 1 : i \in Stored' /\ i # frame
      BY <1>1, <1>2, <2>1
    <2> QED
      BY <1>1, <2>2, <2>3 DEF Linked
  <1>5. ASSUME NEW k \in Stored' PROVE Link(file[k], k)'
    <2>1. Link(file'[k], k)
      BY <1>1 DEF Fits
    <2> QED
      BY <1>4, <2>1 DEF Link
  <1>6. \A k \in Stored' : Own(file[k], k)'
    BY <1>3 DEF Own, IsList
  <1> QED
    BY <1>1, <1>3, <1>5, <1>6 DEF Fits, Own

-----------------------------------------------------------------------------
(* What the tracking makes of the current list fits behind the file of the *)
(* previous frame.                                                         *)
LEMMA TrackedFits ==
  ASSUME IInv, frame > 1, IsList(current),
         NEW h, NEW u,
         IsHighestId(ReadBack(file[frame - 1]), h),
         IsHighestUuid(ReadBack(file[frame - 1]), u),
         NEW continued \in Continuations(ReadBack(file[frame - 1]), current),
         NEW matched \in SUBSET DOMAIN continued
  PROVE  Fits(Tracked(ReadBack(file[frame - 1]), current, h, u, matched,
                      continued, Fresh(current.N)), frame)
  <1> DEFINE k == frame - 1
             p == file[k]
             r == ReadBack(p)
             D == DOMAIN continued
             fresh == Clusters(current) \ matched
             t == Tracked(r, current, h, u, matched, continued, Fresh(current.N))
  <1>1. /\ frame \in Nat /\ k \in Stored /\ k \in Nat /\ k >= 1 /\ k < frame
        /\ Stored \subseteq Nat /\ Stored \subseteq 1 .. frame
    BY DEF IInv, TypeOK
  <1>2. /\ Fits(p, k)
        /\ \A j \in Stored : Own(file[j], j)
    BY <1>1 DEF IInv, Fits
  <1>3. r.N = p.N /\ r.id = p.id /\ r.track = p.track
    BY <1>1, <1>2, ReadBackFits
  <1>4. /\ h \in Nat /\ u \in Nat
        /\ \A j \in Stored : j <= k /\ Linked(j, k) => Below(file[j], h, u)
    BY <1>1, <1>2, CountersBound
  <1>5. /\ current.N \in Nat
        /\ D \subseteq 1 .. current.N
        /\ \A a \in D : continued[a] \in 1 .. p.N
        /\ \A a, b \in D : continued[a] = continued[b] => a = b
    BY <1>3 DEF Continuations, Clusters, IsList
  <1>6. fresh \in SUBSET (1 .. current.N)
    BY DEF Clusters
  <1> HIDE DEF r
  <1>7. /\ t.N = current.N /\ t.performed
        /\ t.highest_id = h + Cardinality(fresh) /\ t.highest_uuid = u + current.N
        /\ t.id = [a \in 1 .. current.N |->
                     IF a \in D THEN p.id[continued[a]] ELSE h + Rank(fresh, a)]
        /\ t.uuid = [a \in 1 .. current.N |-> u + a]
        /\ t.track = [a \in 1 .. current.N |->
                        IF a \in D THEN p.track[continued[a]] ELSE <<frame, a>>]
    BY <1>3 DEF Tracked, Clusters, Fresh
  <1>8. /\ Cardinality(fresh) \in Nat
        /\ \A a \in fresh : /\ Rank(fresh, a) \in Nat
                            /\ 1 <= Rank(fresh, a) /\ Rank(fresh, a) <= Cardinality(fresh)
        /\ \A a, b \in fresh : Rank(fresh, a) = Rank(fresh, b) => a = b
    BY <1>5, <1>6, RankFacts
  <1>9. \A a \in (1 .. current.N) \ D : a \in fresh
    BY DEF Clusters
  <1>10. /\ p.N \in Nat /\ p.id \in [1 .. p.N -> Nat]
         /\ p.track \in [1 .. p.N -> (1 .. k) \X Nat]
         /\ \A c \in 1 .. p.N : p.id[c] >= 1 /\ p.id[c] <= h
         /\ \A c, d \in 1 .. p.N : p.id[c] = p.id[d] \/ p.track[c] = p.track[d] => c = d
    <2>1. Linked(k, k)
      BY <1>1 DEF Linked
    <2>2. Below(p, h, u)
      BY <1>1, <1>4, <2>1
    <2> QED
      BY <1>2, <2>2 DEF Fits, Own, IsList, Below
  <1> HIDE DEF p, t, k, D, fresh
  <1>11. ASSUME NEW a \in 1 .. current.N
         PROVE  /\ t.id[a] \in Nat /\ t.id[a] >= 1 /\ t.id[a] <= t.highest_id
                /\ t.uuid[a] \in Nat /\ t.highest_uuid >= 1 /\ t.uuid[a] <= t.highest_uuid
                /\ t.track[a] \in (1 .. frame) \X Nat
                /\ a \in D => t.id[a] <= h /\ t.track[a][1] <= k
                /\ a \notin D => t.id[a] > h /\ t.track[a] = <<frame, a>>
    <2>1. t.uuid[a] = u + a /\ a >= 1 /\ a <= current.N /\ a \in Nat
      BY <1>5, <1>7
    <2>2. CASE a \in D
      <3>1. /\ t.id[a] = p.id[continued[a]] /\ t.track[a] = p.track[continued[a]]
            /\ continued[a] \in 1 .. p.N
        BY <1>5, <1>7, <2>2
      <3>2. /\ t.id[a] \in Nat /\ t.id[a] >= 1 /\ t.id[a] <= h
            /\ t.track[a] \in (1 .. k) \X Nat
        BY <1>10, <3>1
      <3>3. t.id[a] <= h + Cardinality(fresh)
        BY <1>4, <1>8, <3>2
      <3>4. t.track[a] \in (1 .. frame) \X Nat /\ t.track[a][1] <= k
        BY <1>1, <3>2 DEF k
      <3> QED
        BY <1>4, <1>5, <1>7, <2>1, <2>2, <3>2, <3>3, <3>4
    <2>3. CASE a \notin D
      <3>1. t.id[a] = h + Rank(fresh, a) /\ t.track[a] = <<frame, a>> /\ a \in fresh
        BY <1>7, <1>9, <2>3
      <3>2. /\ t.id[a] \in Nat /\ t.id[a] >= 1 /\ t.id[a] > h
            /\ t.id[a] <= h + Cardinality(fresh)
        BY <1>4, <1>8, <3>1
      <3>3. t.track[a] \in (1 .. frame) \X Nat
        BY <1>1, <2>1, <3>1
      <3> QED
        BY <1>4, <1>5, <1>7, <2>1, <2>3, <3>1, <3>2, <3>3
    <2> QED
      BY <2>2, <2>3
  <1>12. ASSUME NEW a \in 1 .. current.N, NEW b \in 1 .. current.N,
                t.id[a] = t.id[b] \/ t.uuid[a] = t.uuid[b] \/ t.track[a] = t.track[b]
         PROVE  a = b
    <2>1. t.uuid[a] = t.uuid[b] => a = b
      BY <1>4, <1>7
    <2>2. CASE a \in D /\ b \in D
      <3>1. /\ t.id[a] = p.id[continued[a]] /\ t.track[a] = p.track[continued[a]]
            /\ t.id[b] = p.id[continued[b]] /\ t.track[b] = p.track[continued[b]]
            /\ continued[a] \in 1 .. p.N /\ continued[b] \in 1 .. p.N
        BY <1>5, <1>7, <2>2
      <3>2. t.id[a] = t.id[b] \/ t.track[a] = t.track[b] => continued[a] = continued[b]
        BY <1>10, <3>1
      <3> QED
        BY <1>5, <1>12, <2>1, <2>2, <3>2
    <2>3. CASE a \notin D /\ b \notin D
      <3>1. /\ t.id[a] = h + Rank(fresh, a) /\ t.track[a] = <<frame, a>> /\ a \in fresh
            /\ t.id[b] = h + Rank(fresh, b) /\ t.track[b] = <<frame, b>> /\ b \in fresh
        BY <1>7, <1>9, <2>3
      <3>2. t.id[a] = t.id[b] => Rank(fresh, a) = Rank(fresh, b)
        BY <1>4, <1>8, <3>1
      <3> QED
        BY <1>8, <1>12, <2>1, <3>1, <3>2
    <2>4. CASE (a \in D /\ b \notin D) \/ (a \notin D /\ b \in D)
      <3>1. t.id[a] # t.id[b]
        BY <1>4, <1>11, <2>4
      <3>2. t.track[a] # t.track[b]
        <4>1. t.track[a][1] # t.track[b][1]
          BY <1>1, <1>11, <2>4 DEF k
        <4> QED
          BY <4>1
      <3> QED
        BY <1>12, <2>1, <3>1, <3>2
    <2> QED
      BY <2>2, <2>3, <2>4
  <1>13. Own(t, frame)
    <2>1. IsList(t)
      <3>1. /\ DOMAIN t.id = 1 .. current.N /\ DOMAIN t.uuid = 1 .. current.N
            /\ t.id = [a \in DOMAIN t.id |-> t.id[a]]
            /\ t.uuid = [a \in DOMAIN t.uuid |-> t.uuid[a]]
        BY <1>7
      <3>2. t.id \in [1 .. t.N -> Nat] /\ t.uuid \in [1 .. t.N -> Nat \cup {NoUuid}]
        BY <1>7, <1>11, <3>1
      <3> QED
        BY <1>4, <1>5, <1>7, <1>8, <3>2 DEF IsList
    <2>2. t.track \in [1 .. t.N -> (1 .. frame) \X Nat]
      <3>1. /\ DOMAIN t.track = 1 .. current.N
            /\ t.track = [a \in DOMAIN t.track |-> t.track[a]]
        BY <1>7
      <3> QED
        BY <1>7, <1>11, <3>1
    <2>3. /\ t.highest_id \in Nat
          /\ \A a \in 1 .. t.N : /\ t.id[a] >= 1 /\ t.id[a] <= t.highest_id
                                 /\ t.highest_uuid >= 1 /\ t.uuid[a] <= t.highest_uuid
                                 /\ t.uuid[a] # NoUuid
      <3>1. t.N = current.N
        BY <1>7
      <3>2. t.highest_id \in Nat
        <4>1. t.highest_id = h + Cardinality(fresh)
          BY <1>7
        <4> QED
          BY <1>4, <1>8, <4>1
      <3> QED
        BY <1>11, <3>1, <3>2, NoIdAssumption
    <2>4. \A a, b \in 1 .. t.N :
            t.id[a] = t.id[b] \/ t.uuid[a] = t.uuid[b] \/ t.track[a] = t.track[b] => a = b
      BY <1>7, <1>12
    <2> QED
      BY <2>1, <2>2, <2>3, <2>4 DEF Own
  <1>14. ASSUME NEW j \in Stored, j <= k, Linked(j, k)
         PROVE  Agree(file[j], t) /\ Below(file[j], t.highest_id, t.highest_uuid)
    <2> DEFINE e == file[j]
    <2>1. Own(e, j) /\ Below(e, h, u)
      BY <1>2, <1>4, <1>14
    <2>2. \A a \in 1 .. e.N, c \in 1 .. p.N : e.id[a] = p.id[c] <=> e.track[a] = p.track[c]
      BY <1>1, <1>2, <1>14, TracksOfPrevious DEF p
    <2> HIDE DEF e
    <2>3. \A a \in 1 .. e.N : /\ e.id[a] \in Nat
                              /\ e.track[a] \in (1 .. j) \X Nat
                              /\ e.id[a] <= h
                              /\ \/ e.uuid[a] \in Nat /\ e.uuid[a] <= u
                                 \/ e.uuid[a] = NoUuid
      BY <2>1 DEF Own, IsList, Below
    <2>4. ASSUME NEW a \in 1 .. e.N, NEW b \in 1 .. t.N
          PROVE  /\ e.id[a] = t.id[b] <=> e.track[a] = t.track[b]
                 /\ e.uuid[a] # t.uuid[b]
      <3>1. b \in 1 .. current.N
        BY <1>7
      <3>2. t.uuid[b] = u + b
        BY <1>7, <3>1
      <3>5. e.uuid[a] # t.uuid[b]
        <4>1. t.uuid[b] \in Nat /\ t.uuid[b] > u
          BY <1>4, <1>5, <3>1, <3>2
        <4> QED
          BY <1>4, <2>3, <4>1, NoIdAssumption
      <3>3. CASE b \in D
        <4>1. /\ t.id[b] = p.id[continued[b]] /\ t.track[b] = p.track[continued[b]]
              /\ continued[b] \in 1 .. p.N
          BY <1>5, <1>7, <3>1, <3>3
        <4>2. e.id[a] = t.id[b] <=> e.track[a] = t.track[b]
          BY <2>2, <4>1
        <4> QED
          BY <3>5, <4>2
      <3>4. CASE b \notin D
        <4>1. t.id[b] > h /\ t.track[b] = <<frame, b>> /\ t.id[b] \in Nat
          BY <1>11, <3>1, <3>4
        <4>2. e.id[a] # t.id[b]
          BY <1>4, <2>3, <4>1
        <4>3. e.track[a] # t.track[b]
          BY <1>1, <1>14, <2>3, <4>1
        <4> QED
          BY <3>5, <4>2, <4>3
      <3> QED
        BY <3>3, <3>4
    <2>5. Agree(e, t)
      BY <2>4 DEF Agree
    <2>6. Below(e, t.highest_id, t.highest_uuid)
      BY <1>4, <1>5, <1>7, <1>8, <2>3 DEF Below
    <2> QED
      BY <2>5, <2>6 DEF e
  <1>15. Link(t, frame)
    BY <1>14 DEF Link, k
  <1> QED
    BY <1>13, <1>15 DEF Fits, t, r, p, k

-----------------------------------------------------------------------------
(* The initial state has no files.                                         *)
LEMMA InitFits == ASSUME Init PROVE IInv
  BY DEF Init, IInv, TypeOK, Stored, Nothing, Detected, IsList

(* Steps that leave the files alone keep what holds of the files.          *)
LEMMA FilesUnchanged ==
  ASSUME IInv, file' = file
  PROVE  /\ Stored' = Stored
         /\ \A k \in Stored' : IsList(file[k])'
         /\ \A j, k : Linked(j, k)' <=> Linked(j, k)
         /\ \A k \in Stored' : Fits(file[k], k)'
  <1>1. Stored' = Stored
    BY DEF Stored
  <1>2. \A k \in Stored' : IsList(file[k])'
    BY <1>1 DEF IInv, TypeOK, IsList
  <1>3. \A j, k : Linked(j, k)' <=> Linked(j, k)
    BY DEF Linked
  <1>4. ASSUME NEW k \in Stored' PROVE Fits(file[k], k)'
    <2>1. Own(file[k], k) /\ Link(file[k], k)
      BY <1>1 DEF IInv, Fits
    <2>2. Own(file[k], k)'
      BY <2>1 DEF Own, IsList
    <2>3. Link(file[k], k)'
      BY <1>1, <1>3, <2>1 DEF Link
    <2> QED
      BY <2>2, <2>3 DEF Fits
  <1> QED
    BY <1>1, <1>2, <1>3, <1>4

(* A detected list fits; one collated with the previous output fits if it  *)
(* can be written at all.                                                  *)
LEMMA DetectedFits ==
  ASSUME IInv, DetectsAlone \/ Collates
  PROVE  /\ IsList(current') /\ ~current'.performed
         /\ Writable(current') => Fits(current', frame)
  <1>1. frame \in Nat /\ frame >= 1
    BY DEF IInv, TypeOK
  <1>2. CASE DetectsAlone
    <2>1. PICK N \in 0 .. MaxClusters : current' = Detected(N, Fresh(N))
      BY <1>2 DEF DetectsAlone
    <2>2. N \in Nat
      BY ChainAssumption
    <2> QED
      BY <1>1, <2>1, <2>2, NoIdAssumption DEF Fits, Own, Link, Detected, IsList, Fresh
  <1>3. CASE Collates
    <2>1. PICK H \in 2 .. MaxCollated :
            \E K \in 0 .. H - 2, new \in 1 .. file[frame - 1].N :
              \E kept \in Injection(1 .. K, 1 .. H), order \in Injection(1 .. new, 1 .. new),
                 last \in 1 .. H :
                current' = Collated(H, K, kept, new, order, last, Fresh(K + new))
      BY <1>3 DEF Collates
    <2>2. PICK K \in 0 .. H - 2, new \in 1 .. file[frame - 1].N :
            \E kept \in Injection(1 .. K, 1 .. H), order \in Injection(1 .. new, 1 .. new),
               last \in 1 .. H :
              current' = Collated(H, K, kept, new, order, last, Fresh(K + new))
      BY <2>1
    <2>3. PICK kept \in Injection(1 .. K, 1 .. H), order \in Injection(1 .. new, 1 .. new),
               last \in 1 .. H :
            current' = Collated(H, K, kept, new, order, last, Fresh(K + new))
      BY <2>2
    <2>4. H \in Nat /\ H >= 2 /\ K \in Nat /\ last \in Nat /\ last >= 1
      BY ChainAssumption
    <2>5. new \in Nat
      <3>1. frame - 1 \in 1 .. frame - 1
        BY <1>1, <1>3 DEF Collates
      <3>2. file[frame - 1].N \in Nat
        BY <3>1 DEF IInv, TypeOK, IsList
      <3> QED
        BY <3>2
    <2>6. /\ \A a \in 1 .. K : kept[a] \in 1 .. H
          /\ \A a, b \in 1 .. K : kept[a] = kept[b] => a = b
          /\ \A a \in 1 .. new : order[a] \in 1 .. new
      BY <2>3 DEF Injection, IsInjective
    <2> DEFINE l == Collated(H, K, kept, new, order, last, Fresh(K + new))
    <2>7. /\ l.N = K + new /\ l.highest_id = H /\ l.highest_uuid = H /\ l.performed = FALSE
          /\ l.id = [a \in 1 .. K + new |-> IF a <= K THEN kept[a] ELSE last + order[a - K]]
          /\ l.uuid = [a \in 1 .. K + new |-> IF a <= K THEN kept[a] ELSE NoUuid]
          /\ l.track = [a \in 1 .. K + new |-> <<frame, a>>]
      BY DEF Collated, Fresh
    <2> HIDE DEF l
    <2>8. ASSUME NEW a \in 1 .. K + new
          PROVE  /\ l.id[a] \in Nat /\ l.id[a] >= 1
                 /\ a <= K => l.uuid[a] = kept[a] /\ l.uuid[a] \in Nat /\ l.uuid[a] <= H
                 /\ ~(a <= K) => l.uuid[a] = NoUuid
                 /\ l.track[a] = <<frame, a>> /\ a \in Nat
      <3>1. CASE a <= K
        <4>1. a \in 1 .. K
          BY <2>4, <2>5, <3>1
        <4>2. l.id[a] = kept[a] /\ l.uuid[a] = kept[a] /\ l.track[a] = <<frame, a>>
          BY <2>7, <3>1
        <4> QED
          BY <2>4, <2>6, <3>1, <4>1, <4>2
      <3>2. CASE ~(a <= K)
        <4>1. a - K \in 1 .. new
          BY <2>4, <2>5, <3>2
        <4>2. l.id[a] = last + order[a - K] /\ l.uuid[a] = NoUuid /\ l.track[a] = <<frame, a>>
          BY <2>7, <3>2
        <4>3. order[a - K] \in Nat
          BY <2>5, <2>6, <4>1
        <4> QED
          BY <2>4, <2>5, <3>2, <4>2, <4>3
      <3> QED
        BY <3>1, <3>2
    <2>9. IsList(l)
      <3>1. l.id \in [1 .. l.N -> Nat] /\ l.uuid \in [1 .. l.N -> Nat \cup {NoUuid}]
        BY <2>7, <2>8
      <3>2. l.N \in Nat /\ l.highest_id \in Nat /\ l.highest_uuid \in Nat
        BY <2>4, <2>5, <2>7
      <3> QED
        BY <2>7, <3>1, <3>2 DEF IsList
    <2>10. ASSUME Writable(l) PROVE Fits(l, frame)
      <3>1. l.track \in [1 .. l.N -> (1 .. frame) \X Nat]
        BY <1>1, <2>7, <2>8
      <3>2. \A a, b \in 1 .. l.N : l.id[a] = l.id[b] => a = b
        BY <2>10 DEF Writable, Clusters
      <3>3. \A a, b \in 1 .. l.N : l.track[a] = l.track[b] => a = b
        BY <2>7, <2>8
      <3>4. ASSUME NEW a \in 1 .. l.N, NEW b \in 1 .. l.N,
                   l.uuid[a] = l.uuid[b], l.uuid[a] # NoUuid
            PROVE  a = b
        <4>1. a \in 1 .. K /\ b \in 1 .. K
          BY <2>4, <2>5, <2>7, <2>8, <3>4
        <4>2. kept[a] = kept[b]
          BY <2>4, <2>7, <2>8, <3>4, <4>1
        <4> QED
          BY <2>6, <4>1, <4>2
      <3>5. \A a \in 1 .. l.N : /\ l.id[a] >= 1 /\ l.highest_uuid >= 1
                                /\ l.uuid[a] # NoUuid => l.uuid[a] <= l.highest_uuid
        BY <2>4, <2>7, <2>8
      <3>6. Own(l, frame)
        BY <2>7, <2>9, <3>1, <3>2, <3>3, <3>4, <3>5 DEF Own
      <3> QED
        BY <2>7, <3>6 DEF Fits, Link
    <2>11. current' = l
      BY <2>3 DEF l
    <2> QED
      BY <2>7, <2>9, <2>10, <2>11
  <1> QED
    BY <1>2, <1>3

(* The detection gives ids and uuids from scratch, or ends the process.    *)
LEMMA DetectFits == ASSUME IInv, Detect PROVE IInv'
  <1> DEFINE writes(inline) == frame = 1 \/ ~inline
  <1>1. PICK inline \in Modes :
          /\ file' = IF writes(inline) /\ Writable(current')
                     THEN Store(frame, current') ELSE file
          /\ pc' = IF ~writes(inline) THEN "track"
                   ELSE IF ~Writable(current') THEN "exited"
                   ELSE IF frame = 1 THEN "done" ELSE "read"
    BY DEF Detect
  <1>2. frame \in Nat /\ frame >= 1 /\ frame' = frame
    BY DEF IInv, TypeOK, Detect
  <1>3. /\ IsList(current') /\ ~current'.performed
        /\ Writable(current') => Fits(current', frame)
    BY DetectedFits DEF Detect
  <1>4. CASE writes(inline) /\ Writable(current')
    <2>1. /\ file' = Store(frame, current') /\ pc' \in {"done", "read"}
          /\ pc' = "read" => frame > 1
      BY <1>1, <1>2, <1>4
    <2>2. /\ Stored' = Stored \cup {frame}
          /\ \A k \in Stored' : IsList(file'[k])
          /\ \A k \in Stored' : Fits(file[k], k)'
      BY <1>3, <1>4, <2>1, StoreFits DEF IInv
    <2>3. TypeOK'
      BY <1>2, <1>3, <2>1, <2>2 DEF IInv, TypeOK, IsList
    <2> QED
      BY <1>2, <2>1, <2>2, <2>3 DEF IInv
  <1>5. CASE ~(writes(inline) /\ Writable(current'))
    <2>1. /\ file' = file /\ pc' \in {"track", "exited"}
          /\ pc' = "track" => frame > 1
      BY <1>1, <1>2, <1>5
    <2>2. ASSUME Writable(current)' PROVE Fits(current, frame)'
      <3>1. Writable(current')
        BY <2>2 DEF Writable, Clusters
      <3>2. Own(current, frame)'
        BY <1>2, <1>3, <3>1 DEF Fits, Own, IsList
      <3>3. Link(current, frame)'
        BY <1>3 DEF Link
      <3> QED
        BY <3>2, <3>3 DEF Fits
    <2>3. TypeOK'
      BY <1>2, <1>3, <2>1 DEF IInv, TypeOK, IsList, Stored
    <2> QED
      BY <1>2, <2>1, <2>2, <2>3, FilesUnchanged DEF IInv
  <1> QED
    BY <1>4, <1>5

(* Reading, tracking or skipping leaves a current list that fits.          *)
LEMMA CurrentFits ==
  ASSUME IInv, file' = file, frame' = frame, frame > 1, pc' \in {"track", "save"},
         IsList(current'), Writable(current') => Fits(current', frame)
  PROVE  IInv'
  <1>2. TypeOK'
    BY FilesUnchanged DEF IInv, TypeOK, IsList
  <1>3. ASSUME Writable(current)' PROVE Fits(current, frame)'
    <2>0. Fits(current', frame)
      BY <1>3 DEF Writable, Clusters
    <2>1. Own(current, frame)'
      BY <2>0 DEF Fits, Own, IsList
    <2>2. Link(current, frame)'
      BY <2>0, FilesUnchanged DEF Fits, Link
    <2> QED
      BY <2>1, <2>2 DEF Fits
  <1> QED
    BY <1>2, <1>3, FilesUnchanged DEF IInv

(* Every step keeps the invariant.                                         *)
LEMMA StepFits == ASSUME IInv, [Next]_vars PROVE IInv'
  <1>1. CASE Detect
    BY <1>1, DetectFits
  <1>2. CASE Read
    <2>1. frame \in Stored /\ frame > 1 /\ frame \in Nat /\ Fits(file[frame], frame)
      BY <1>2 DEF Read, IInv, TypeOK
    <2>2. Fits(ReadBack(file[frame]), frame)
      BY <2>1, ReadBackFits
    <2>3. IsList(ReadBack(file[frame]))
      BY <2>2 DEF Fits, Own
    <2> QED
      BY <1>2, <2>1, <2>2, <2>3, CurrentFits DEF Read
  <1>3. CASE Skip
    <2>1. IsList(current) /\ frame > 1 /\ (Writable(current) => Fits(current, frame))
      BY <1>3 DEF Skip, IInv, TypeOK
    <2> QED
      BY <1>3, <2>1, CurrentFits DEF Skip
  <1>4. CASE Track
    <2>1. IsList(current) /\ frame > 1
      BY <1>4 DEF Track, IInv, TypeOK
    <2>2. Fits(current', frame)
      BY <1>4, <2>1, TrackedFits DEF Track
    <2>3. IsList(current')
      BY <2>2 DEF Fits, Own
    <2> QED
      BY <1>4, <2>1, <2>2, <2>3, CurrentFits DEF Track
  <1>5. CASE Save
    <2>1. IsList(current) /\ frame' = frame /\ current' = current
      BY <1>5 DEF Save, IInv, TypeOK
    <2>2. CASE Writable(current)
      <3>1. Fits(current, frame)
        BY <1>5, <2>2 DEF Save, IInv
      <3>2. file' = Store(frame, current) /\ pc' = "done"
        BY <1>5, <2>2 DEF Save
      <3>3. /\ Stored' = Stored \cup {frame}
            /\ \A k \in Stored' : IsList(file'[k])
            /\ \A k \in Stored' : Fits(file[k], k)'
        BY <3>1, <3>2, StoreFits DEF IInv
      <3>4. TypeOK'
        BY <2>1, <3>2, <3>3 DEF IInv, TypeOK, IsList
      <3> QED
        BY <3>2, <3>3, <3>4 DEF IInv
    <2>3. CASE ~Writable(current)
      <3>1. file' = file /\ pc' = "exited"
        BY <1>5, <2>3 DEF Save
      <3>2. TypeOK'
        BY <2>1, <3>1, FilesUnchanged DEF IInv, TypeOK, IsList
      <3> QED
        BY <3>1, <3>2, FilesUnchanged DEF IInv
    <2> QED
      BY <2>2, <2>3
  <1>7. CASE NextFrame
    <2>1. TypeOK'
      <3>1. /\ Stored \subseteq 1 .. frame /\ 1 .. frame - 1 \subseteq Stored
            /\ frame \in Stored /\ frame \in Nat /\ frame' = frame + 1
            /\ Stored' = Stored
        BY <1>7, FilesUnchanged DEF NextFrame, IInv, TypeOK
      <3>2. 1 .. frame' - 1 \subseteq Stored' /\ Stored' \subseteq 1 .. frame'
        BY <3>1
      <3>3. IsList(current)'
        BY <1>7 DEF NextFrame, IInv, TypeOK, IsList
      <3> QED
        BY <1>7, <3>1, <3>2, <3>3, FilesUnchanged DEF NextFrame, TypeOK
    <2> QED
      BY <1>7, <2>1, FilesUnchanged DEF NextFrame, IInv
  <1>8. CASE UNCHANGED vars
    <2>1. TypeOK'
      BY <1>8, FilesUnchanged DEF vars, IInv, TypeOK, IsList
    <2>2. pc \in {"track", "save"} /\ Writable(current) => Fits(current, frame)'
      BY <1>8 DEF vars, IInv, Fits, Own, Link, IsList, Linked, Agree, Below, Stored
    <2>3. Writable(current)' <=> Writable(current)
      BY <1>8 DEF vars, Writable, Clusters
    <2> QED
      BY <1>8, <2>1, <2>2, <2>3, FilesUnchanged DEF vars, IInv
  <1> QED
    BY <1>1, <1>2, <1>3, <1>4, <1>5, <1>7, <1>8 DEF Next

(* The invariant of every chain.                                           *)
THEOREM ChainInvariant == Spec => []IInv
  <1>1. Init => IInv
    BY InitFits
  <1>2. IInv /\ [Next]_vars => IInv'
    BY StepFits
  <1> QED
    BY <1>1, <1>2, PTL DEF Spec

(* The files are, at every moment, those of the frames so far.             *)
THEOREM ChainTypes == Spec => []TypeOK
  <1>1. IInv => TypeOK
    BY DEF IInv
  <1> QED
    BY <1>1, ChainInvariant, PTL

(* An id names one track along tracked frames (Tracking::matchmaking,      *)
(* handleMerges, handleSplits and what read() returns of the counters).    *)
THEOREM ChainIds == Spec => []IdNamesOneTrack
  <1>1. IInv => IdNamesOneTrack
    <2> SUFFICES ASSUME IInv, NEW j \in Stored, NEW k \in Stored, Linked(j, k),
                        NEW a \in Clusters(file[j]), NEW b \in Clusters(file[k])
                 PROVE  file[j].id[a] = file[k].id[b] <=> file[j].track[a] = file[k].track[b]
      BY DEF IdNamesOneTrack
    <2> QED
      BY TracksOfPrevious DEF IInv, TypeOK, Linked, Clusters
  <1> QED
    BY <1>1, ChainInvariant, PTL

(* No uuid is given twice along tracked frames (provideUuids).             *)
THEOREM ChainUuids == Spec => []UuidsDiffer
  <1>1. IInv => UuidsDiffer
    <2> SUFFICES ASSUME IInv, NEW j \in Stored, NEW k \in Stored, Linked(j, k),
                        NEW a \in Clusters(file[j]), NEW b \in Clusters(file[k]),
                        file[j].uuid[a] = file[k].uuid[b]
                 PROVE  \/ j = k /\ a = b
                        \/ j = k /\ file[k].uuid[b] = NoUuid /\ ~file[k].performed
      BY DEF UuidsDiffer
    <2> QED
      BY TracksOfPrevious DEF IInv, TypeOK, Linked, Clusters
  <1> QED
    BY <1>1, ChainInvariant, PTL
=============================================================================
