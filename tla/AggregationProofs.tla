------------------------- MODULE AggregationProofs -------------------------
(***************************************************************************)
(* For any points, any neighbourhood and whatever the mean-shift leaves:   *)
(* points and clusters agree, the clusters of the graph are the parts that *)
(* its links connect, and what is left has each original point once.       *)
(***************************************************************************)
EXTENDS Aggregation, SequenceTheorems, TLAPS

USE AggregationAssumption

-----------------------------------------------------------------------------
(* Append and RemoveAt on sequences without repetition.                    *)
LEMMA AppendRange ==
  ASSUME NEW S, NEW s \in Seq(S), NEW e \in S, IsInjective(s), e \notin Range(s)
  PROVE  /\ Append(s, e) \in Seq(S) /\ IsInjective(Append(s, e))
         /\ Range(Append(s, e)) = Range(s) \cup {e}
  <1> DEFINE r == Append(s, e)
  <1>1. r \in Seq(S) /\ Len(r) = Len(s) + 1 /\ Len(s) \in Nat
    OBVIOUS
  <1>2. r[Len(s) + 1] = e /\ \A k \in 1 .. Len(s) : r[k] = s[k]
    OBVIOUS
  <1>3. DOMAIN r = 1 .. Len(s) + 1 /\ DOMAIN s = 1 .. Len(s)
    BY <1>1
  <1> HIDE DEF r
  <1>4. \A k \in 1 .. Len(s) + 1 : k \in 1 .. Len(s) \/ k = Len(s) + 1
    BY <1>1
  <1>5. \A k \in 1 .. Len(s) : s[k] # e
    BY <1>3 DEF Range
  <1>6. IsInjective(r)
    BY <1>2, <1>3, <1>4, <1>5 DEF IsInjective
  <1>7. Range(r) = Range(s) \cup {e}
    BY <1>1, <1>2, <1>3, <1>4 DEF Range
  <1> QED
    BY <1>1, <1>6, <1>7 DEF r

(* A part of a sequence: its type, its length and its elements. *)
LEMMA Part ==
  ASSUME NEW S, NEW s \in Seq(S), NEW m \in 1 .. Len(s) + 1, NEW n \in 0 .. Len(s), m <= n + 1
  PROVE  /\ SubSeq(s, m, n) \in Seq(S) /\ Len(SubSeq(s, m, n)) = n - m + 1
         /\ \A j \in 1 .. n - m + 1 : SubSeq(s, m, n)[j] = s[m + j - 1]
  <1>1. m \in Int /\ n \in Int /\ \A j \in m .. n : s[j] \in S
    OBVIOUS
  <1>2. /\ SubSeq(s, m, n) \in Seq(S)
        /\ Len(SubSeq(s, m, n)) = IF m <= n THEN n - m + 1 ELSE 0
        /\ \A j \in 1 .. n - m + 1 : SubSeq(s, m, n)[j] = s[m + j - 1]
    BY <1>1, SubSeqProperties
  <1> QED
    BY <1>1, <1>2

(* RemoveAt takes exactly one element out of a list without duplicates. *)
LEMMA RemoveAtRange ==
  ASSUME NEW S, NEW s \in Seq(S), NEW k \in 1 .. Len(s), IsInjective(s)
  PROVE  /\ RemoveAt(s, k) \in Seq(S) /\ IsInjective(RemoveAt(s, k))
         /\ Range(RemoveAt(s, k)) = Range(s) \ {s[k]}
         /\ Len(RemoveAt(s, k)) = Len(s) - 1
         /\ \A j \in 1 .. k - 1 : RemoveAt(s, k)[j] = s[j]
  <1> DEFINE r == RemoveAt(s, k)
  <1>1. /\ Len(s) \in Nat /\ k \in Nat /\ DOMAIN s = 1 .. Len(s)
    OBVIOUS
  <1> DEFINE u == SubSeq(s, 1, k - 1)
             v == SubSeq(s, k + 1, Len(s))
  <1>2. u \in Seq(S) /\ Len(u) = k - 1 /\ \A j \in 1 .. k - 1 : u[j] = s[j]
    <2>1. 1 \in 1 .. Len(s) + 1 /\ k - 1 \in 0 .. Len(s) /\ 1 <= (k - 1) + 1
      BY <1>1
    <2> HIDE DEF u
    <2>2. u \in Seq(S) /\ Len(u) = (k - 1) - 1 + 1
          /\ \A j \in 1 .. (k - 1) - 1 + 1 : u[j] = s[1 + j - 1]
      BY <2>1, Part DEF u
    <2> QED
      BY <1>1, <2>2
  <1>3. v \in Seq(S) /\ Len(v) = Len(s) - k /\ \A j \in 1 .. Len(s) - k : v[j] = s[j + k]
    <2>1. k + 1 \in 1 .. Len(s) + 1 /\ Len(s) \in 0 .. Len(s) /\ k + 1 <= Len(s) + 1
      BY <1>1
    <2> HIDE DEF v
    <2>2. v \in Seq(S) /\ Len(v) = Len(s) - (k + 1) + 1
          /\ \A j \in 1 .. Len(s) - (k + 1) + 1 : v[j] = s[(k + 1) + j - 1]
      BY <2>1, Part DEF v
    <2>3. \A j \in 1 .. Len(s) - k : (k + 1) + j - 1 = j + k /\ j \in 1 .. Len(s) - (k + 1) + 1
      BY <1>1
    <2> QED
      BY <1>1, <2>2, <2>3
  <1> HIDE DEF u, v
  <1>4. /\ r \in Seq(S) /\ Len(r) = Len(s) - 1 /\ DOMAIN r = 1 .. Len(s) - 1
        /\ \A j \in 1 .. Len(s) - 1 : r[j] = IF j <= k - 1 THEN u[j] ELSE v[j - (k - 1)]
    <2>1. r = u \o v
      BY DEF RemoveAt, u, v
    <2> HIDE DEF r
    <2>2. /\ r \in Seq(S) /\ Len(r) = Len(u) + Len(v)
          /\ \A j \in 1 .. Len(u) + Len(v) : r[j] = IF j <= Len(u) THEN u[j] ELSE v[j - Len(u)]
      BY <1>2, <1>3, <2>1, ConcatProperties
    <2>3. Len(u) + Len(v) = Len(s) - 1 /\ Len(u) = k - 1
      BY <1>1, <1>2, <1>3
    <2>4. DOMAIN r = 1 .. Len(s) - 1
      BY <2>2, <2>3
    <2> QED
      BY <2>2, <2>3, <2>4
  <1> HIDE DEF r
  <1>5. \A j \in 1 .. Len(s) - 1 : r[j] = IF j < k THEN s[j] ELSE s[j + 1]
    <2> SUFFICES ASSUME NEW j \in 1 .. Len(s) - 1
                 PROVE  r[j] = IF j < k THEN s[j] ELSE s[j + 1]
      OBVIOUS
    <2>1. CASE j < k
      BY <1>1, <1>2, <1>4, <2>1
    <2>2. CASE ~(j < k)
      <3>1. r[j] = v[j - (k - 1)]
        BY <1>1, <1>4, <2>2
      <3>2. j - (k - 1) \in 1 .. Len(s) - k /\ (j - (k - 1)) + k = j + 1
        BY <1>1, <2>2
      <3> QED
        BY <1>3, <2>2, <3>1, <3>2
    <2> QED
      BY <2>1, <2>2
  <1>6. IsInjective(r)
    <2> SUFFICES ASSUME NEW a \in 1 .. Len(s) - 1, NEW b \in 1 .. Len(s) - 1, r[a] = r[b]
                 PROVE  a = b
      BY <1>4 DEF IsInjective
    <2> DEFINE up(j) == IF j < k THEN j ELSE j + 1
    <2>1. up(a) \in DOMAIN s /\ up(b) \in DOMAIN s
      BY <1>1
    <2>2. r[a] = s[up(a)] /\ r[b] = s[up(b)]
      BY <1>5
    <2>3. up(a) = up(b)
      BY <2>1, <2>2 DEF IsInjective
    <2> QED
      BY <1>1, <2>3
  <1>7. Range(r) = Range(s) \ {s[k]}
    <2>1. ASSUME NEW j \in DOMAIN r PROVE r[j] \in Range(s) \ {s[k]}
      <3>1. j \in 1 .. Len(s) - 1 /\ j \in Nat
        BY <1>1, <1>4, <2>1
      <3>2. CASE j < k
        <4>1. r[j] = s[j] /\ j \in DOMAIN s /\ j # k /\ k \in DOMAIN s
          BY <1>1, <1>5, <3>1, <3>2
        <4> QED
          BY <4>1 DEF Range, IsInjective
      <3>3. CASE ~(j < k)
        <4>1. r[j] = s[j + 1] /\ j + 1 \in DOMAIN s /\ j + 1 # k /\ k \in DOMAIN s
          BY <1>1, <1>5, <3>1, <3>3
        <4> QED
          BY <4>1 DEF Range, IsInjective
      <3> QED
        BY <3>2, <3>3
    <2>2. ASSUME NEW j \in DOMAIN s, s[j] # s[k] PROVE s[j] \in Range(r)
      <3>1. CASE j < k
        <4>1. j \in DOMAIN r /\ r[j] = s[j]
          BY <1>1, <1>4, <1>5, <3>1
        <4> QED
          BY <4>1 DEF Range
      <3>2. CASE j > k
        <4>1. j - 1 \in DOMAIN r /\ r[j - 1] = s[j]
          BY <1>1, <1>4, <1>5, <3>2
        <4> QED
          BY <4>1 DEF Range
      <3> QED
        BY <1>1, <2>2, <3>1, <3>2
    <2> QED
      BY <2>1, <2>2 DEF Range
  <1>8. \A j \in 1 .. k - 1 : r[j] = s[j]
    BY <1>1, <1>5
  <1> QED
    BY <1>4, <1>6, <1>7, <1>8 DEF r

-----------------------------------------------------------------------------
(* What holds of points and clusters until points are erased: besides the  *)
(* agreement, the point a cluster is named by is not free again, so that a *)
(* new cluster is never one of the list.                                   *)
Agreed ==
  /\ clusters \in Seq(Points)
  /\ owner \in [Points -> Points \cup {None}]
  /\ list \in [Points -> [Points -> Nat]]
  /\ IsInjective(clusters)
  /\ \A c \in Points : c \in Range(clusters) <=> Has(c) # {}
  /\ \A p, c \in Points : owner[p] = c <=> p \in Has(c)
  /\ \A c \in Points : Has(c) # {} => owner[c] # None

Touched(p, q, x) ==
  x = p \/ x = q \/ (owner[x] # None /\ (owner[x] = owner[p] \/ owner[x] = owner[q]))

(* One cluster takes all that was with either point, and nothing else.     *)
Joined(p, q) ==
  \E m \in Points : \A x \in Points :
    /\ Touched(p, q, x) => owner'[x] = m
    /\ ~Touched(p, q, x) => owner'[x] = owner[x] /\ owner[x] # m

(* add_point to a cluster of the list keeps points and clusters in step. *)
LEMMA AddPointAgrees ==
  ASSUME Agreed, NEW p \in Points, NEW q \in Points,
         owner[p] = None, owner[q] # None, AddPoint(owner[q], p)
  PROVE  Agreed' /\ Joined(p, q)
  <1> DEFINE c == owner[q]
  <1>1. c \in Points /\ q \in Has(c) /\ c \in Range(clusters)
    BY DEF Agreed
  <1>2. /\ list' = [list EXCEPT ![c][p] = @ + 1]
        /\ owner' = [owner EXCEPT ![p] = c]
        /\ clusters' = clusters
    BY DEF AddPoint
  <1>3. /\ list \in [Points -> [Points -> Nat]]
        /\ owner \in [Points -> Points \cup {None}]
    BY DEF Agreed
  <1> HIDE DEF c
  <1>4. /\ list' \in [Points -> [Points -> Nat]]
        /\ owner' \in [Points -> Points \cup {None}]
    BY <1>1, <1>2, <1>3
  <1>5. \A d \in Points : Has(d)' = IF d = c THEN Has(d) \cup {p} ELSE Has(d)
    <2> SUFFICES ASSUME NEW d \in Points, NEW x \in Points
                 PROVE  list'[d][x] > 0 <=> list[d][x] > 0 \/ (d = c /\ x = p)
      BY DEF Has
    <2>1. list'[d][x] = IF d = c /\ x = p THEN list[d][x] + 1 ELSE list[d][x]
      BY <1>1, <1>2, <1>3
    <2>2. list[d][x] \in Nat
      BY <1>3
    <2> QED
      BY <2>1, <2>2
  <1>6. \A x \in Points : owner'[x] = IF x = p THEN c ELSE owner[x]
    BY <1>2, <1>3
  <1>7. \A d \in Points : (d \in Range(clusters) <=> Has(d) # {})'
    BY <1>1, <1>2, <1>5 DEF Agreed
  <1>8. \A x, d \in Points : (owner[x] = d <=> x \in Has(d))'
    <2> SUFFICES ASSUME NEW x \in Points, NEW d \in Points
                 PROVE  owner'[x] = d <=> x \in Has(d)'
      OBVIOUS
    <2>1. (owner[x] = d <=> x \in Has(d)) /\ (x = p => x \notin Has(d))
      BY DEF Agreed
    <2>2. x \in Has(d)' <=> x \in Has(d) \/ (d = c /\ x = p)
      BY <1>5
    <2> QED
      BY <1>6, <2>1, <2>2
  <1>9. \A d \in Points : (Has(d) # {} => owner[d] # None)'
    BY <1>1, <1>5, <1>6 DEF Agreed
  <1>10. Joined(p, q)
    <2>1. \A x \in Points : /\ Touched(p, q, x) => owner'[x] = c
                            /\ ~Touched(p, q, x) => owner'[x] = owner[x] /\ owner[x] # c
      BY <1>1, <1>6 DEF Touched, c
    <2> QED
      BY <1>1, <2>1 DEF Joined
  <1> QED
    BY <1>2, <1>4, <1>7, <1>8, <1>9, <1>10 DEF Agreed

(* A cluster that takes all points of another one keeps them in step. *)
LEMMA AbsorbAgrees ==
  ASSUME Agreed, NEW c \in Points, NEW d \in Points, c # d, Has(c) # {}, Has(d) # {},
         Absorb(c, d)
  PROVE  /\ Agreed'
         /\ \A x \in Points : owner'[x] = IF owner[x] = d THEN c ELSE owner[x]
  <1> DEFINE k == Index(d)
  <1>1. k \in 1 .. Len(clusters) /\ clusters[k] = d
    <2>1. \E j \in DOMAIN clusters : clusters[j] = d
      <3>1. d \in Range(clusters)
        BY DEF Agreed
      <3> QED
        BY <3>1 DEF Range
    <2>2. k \in DOMAIN clusters /\ clusters[k] = d
      BY <2>1 DEF Index
    <2>3. DOMAIN clusters = 1 .. Len(clusters)
      BY DEF Agreed
    <2> HIDE DEF k
    <2> QED
      BY <2>2, <2>3
  <1>2. /\ list' = [list EXCEPT ![c] = Plus(list[c], list[d]), ![d] = Empty]
        /\ owner' = [x \in Points |-> IF x \in Has(d) THEN c ELSE owner[x]]
        /\ clusters' = RemoveAt(clusters, k)
    BY DEF Absorb, Agreed
  <1>3. /\ list \in [Points -> [Points -> Nat]]
        /\ owner \in [Points -> Points \cup {None}]
        /\ clusters \in Seq(Points) /\ IsInjective(clusters)
    BY DEF Agreed
  <1> HIDE DEF k
  <1>4. /\ clusters' \in Seq(Points) /\ IsInjective(clusters)'
        /\ Range(clusters)' = Range(clusters) \ {d}
    <2>1. /\ RemoveAt(clusters, k) \in Seq(Points) /\ IsInjective(RemoveAt(clusters, k))
          /\ Range(RemoveAt(clusters, k)) = Range(clusters) \ {clusters[k]}
      BY <1>1, <1>3, RemoveAtRange
    <2> QED
      BY <1>1, <1>2, <2>1
  <1>5. /\ Plus(list[c], list[d]) \in [Points -> Nat] /\ Empty \in [Points -> Nat]
        /\ \A x \in Points : Plus(list[c], list[d])[x] = list[c][x] + list[d][x] /\ Empty[x] = 0
    BY <1>3 DEF Plus, Empty
  <1>6. /\ list' \in [Points -> [Points -> Nat]]
        /\ owner' \in [Points -> Points \cup {None}]
    BY <1>2, <1>3, <1>5
  <1>7. \A e \in Points : list'[e] = IF e = d THEN Empty
                                     ELSE IF e = c THEN Plus(list[c], list[d]) ELSE list[e]
    BY <1>2, <1>3
  <1>8. /\ Has(d)' = {} /\ Has(c)' = Has(c) \cup Has(d)
        /\ \A e \in Points : e # c /\ e # d => Has(e)' = Has(e)
    <2>1. \A x \in Points : ~(list'[d][x] > 0)
      BY <1>5, <1>7
    <2>2. \A x \in Points : list'[c][x] > 0 <=> list[c][x] > 0 \/ list[d][x] > 0
      <3> SUFFICES ASSUME NEW x \in Points
                   PROVE  list'[c][x] > 0 <=> list[c][x] > 0 \/ list[d][x] > 0
        OBVIOUS
      <3>1. list[c][x] \in Nat /\ list[d][x] \in Nat /\ list'[c][x] = list[c][x] + list[d][x]
        BY <1>3, <1>5, <1>7
      <3> QED
        BY <3>1
    <2> QED
      BY <1>7, <2>1, <2>2 DEF Has
  <1>9. \A x \in Points : owner'[x] = IF owner[x] = d THEN c ELSE owner[x]
    BY <1>2 DEF Agreed
  <1>10. \A e \in Points : (e \in Range(clusters) <=> Has(e) # {})'
    BY <1>4, <1>8 DEF Agreed
  <1>11. \A x, e \in Points : (owner[x] = e <=> x \in Has(e))'
    <2> SUFFICES ASSUME NEW x \in Points, NEW e \in Points
                 PROVE  owner'[x] = e <=> x \in Has(e)'
      OBVIOUS
    <2>1. \A f \in Points : owner[x] = f <=> x \in Has(f)
      BY DEF Agreed
    <2>2. x \in Has(e)' <=> e # d /\ (x \in Has(e) \/ (e = c /\ x \in Has(d)))
      BY <1>8
    <2> QED
      BY <1>9, <2>1, <2>2
  <1>12. \A e \in Points : (Has(e) # {} => owner[e] # None)'
    BY <1>8, <1>9 DEF Agreed
  <1> QED
    BY <1>4, <1>6, <1>9, <1>10, <1>11, <1>12 DEF Agreed

(* A cluster begun with two unowned points keeps them in step. *)
LEMMA NewClusterAgrees ==
  ASSUME Agreed, NEW p \in Points, NEW q \in Points, owner[p] = None, owner[q] = None,
         clusters' = Append(clusters, p),
         owner' = [owner EXCEPT ![p] = p, ![q] = p],
         list' = [list EXCEPT ![p] = Plus(Single(p), Single(q))]
  PROVE  Agreed' /\ Joined(p, q)
  <1>1. /\ list \in [Points -> [Points -> Nat]]
        /\ owner \in [Points -> Points \cup {None}]
        /\ clusters \in Seq(Points) /\ IsInjective(clusters)
    BY DEF Agreed
  <1>2. Has(p) = {} /\ p \notin Range(clusters)
    BY DEF Agreed
  <1>3. /\ clusters' \in Seq(Points) /\ IsInjective(clusters)'
        /\ Range(clusters)' = Range(clusters) \cup {p}
    <2>1. /\ Append(clusters, p) \in Seq(Points) /\ IsInjective(Append(clusters, p))
          /\ Range(Append(clusters, p)) = Range(clusters) \cup {p}
      BY <1>1, <1>2, AppendRange
    <2> QED
      BY <2>1
  <1>4. /\ Plus(Single(p), Single(q)) \in [Points -> Nat]
        /\ \A x \in Points : Plus(Single(p), Single(q))[x] > 0 <=> x = p \/ x = q
    BY DEF Plus, Single, Empty
  <1>5. /\ list' \in [Points -> [Points -> Nat]]
        /\ owner' \in [Points -> Points \cup {None}]
    BY <1>1, <1>4
  <1>6. \A e \in Points : list'[e] = IF e = p THEN Plus(Single(p), Single(q)) ELSE list[e]
    BY <1>1
  <1>7. \A e \in Points : Has(e)' = IF e = p THEN {p, q} ELSE Has(e)
    BY <1>4, <1>6 DEF Has
  <1>8. \A x \in Points : owner'[x] = IF x = p \/ x = q THEN p ELSE owner[x]
    BY <1>1
  <1>9. \A e \in Points : (e \in Range(clusters) <=> Has(e) # {})'
    BY <1>3, <1>7 DEF Agreed
  <1>10. \A x, e \in Points : (owner[x] = e <=> x \in Has(e))'
    <2> SUFFICES ASSUME NEW x \in Points, NEW e \in Points
                 PROVE  owner'[x] = e <=> x \in Has(e)'
      OBVIOUS
    <2>1. \A f \in Points : owner[x] = f <=> x \in Has(f)
      BY DEF Agreed
    <2>2. x = p \/ x = q => x \notin Has(e)
      BY <2>1
    <2> QED
      BY <1>2, <1>7, <1>8, <2>1, <2>2
  <1>11. \A e \in Points : (Has(e) # {} => owner[e] # None)'
    BY <1>7, <1>8 DEF Agreed
  <1>12. Joined(p, q)
    <2>1. \A x \in Points : /\ Touched(p, q, x) => owner'[x] = p
                            /\ ~Touched(p, q, x) => owner'[x] = owner[x] /\ owner[x] # p
      BY <1>2, <1>8 DEF Touched, Agreed
    <2> QED
      BY <2>1 DEF Joined
  <1> QED
    BY <1>3, <1>5, <1>9, <1>10, <1>11, <1>12 DEF Agreed

(* So does every join, whichever of the two points is owned before. *)
LEMMA JoinAgrees ==
  ASSUME Agreed, NEW p \in Points, NEW q \in Points, NEW stays, NEW goes,
         \/ stays = owner[p] /\ goes = owner[q]
         \/ stays = owner[q] /\ goes = owner[p],
         Join(p, q, stays, goes)
  PROVE  Agreed' /\ Joined(p, q)
  <1>1. CASE owner[p] = None /\ owner[q] = None
    BY <1>1, NewClusterAgrees DEF Join
  <1>2. CASE owner[p] = None /\ owner[q] # None
    BY <1>2, AddPointAgrees DEF Join
  <1>3. CASE owner[p] # None /\ owner[q] = None
    <2>1. Agreed' /\ Joined(q, p)
      BY <1>3, AddPointAgrees DEF Join
    <2>2. \A x \in Points : Touched(q, p, x) <=> Touched(p, q, x)
      BY DEF Touched
    <2> QED
      BY <2>1, <2>2 DEF Joined
  <1>4. CASE owner[p] # None /\ owner[q] # None /\ owner[p] # owner[q]
    <2>1. stays \in Points /\ goes \in Points /\ stays # goes /\ Absorb(stays, goes)
      BY <1>4 DEF Join, Agreed
    <2>2. Has(stays) # {} /\ Has(goes) # {}
      BY <1>4, <2>1 DEF Agreed
    <2>3. Agreed' /\ \A x \in Points : owner'[x] = IF owner[x] = goes THEN stays ELSE owner[x]
      BY <2>1, <2>2, AbsorbAgrees
    <2>4. \A x \in Points : /\ Touched(p, q, x) => owner'[x] = stays
                            /\ ~Touched(p, q, x) => owner'[x] = owner[x] /\ owner[x] # stays
      BY <1>4, <2>1, <2>3 DEF Touched
    <2> QED
      BY <2>1, <2>3, <2>4 DEF Joined
  <1>5. CASE owner[p] # None /\ owner[p] = owner[q]
    <2>1. clusters' = clusters /\ owner' = owner /\ list' = list
      BY <1>5 DEF Join
    <2>2. Agreed'
      BY <2>1 DEF Agreed, Has
    <2>3. owner[p] \in Points
      BY <1>5 DEF Agreed
    <2>4. \A x \in Points : /\ Touched(p, q, x) => owner'[x] = owner[p]
                            /\ ~Touched(p, q, x) => owner'[x] = owner[x] /\ owner[x] # owner[p]
      BY <1>5, <2>1 DEF Touched, Agreed
    <2> QED
      BY <2>2, <2>3, <2>4 DEF Joined
  <1> QED
    BY <1>1, <1>2, <1>3, <1>4, <1>5

-----------------------------------------------------------------------------
(* The graph while it is aggregated: clusters never reach across a closed  *)
(* set of points, the links already followed lie in one cluster, and only  *)
(* points with a link are in a cluster.                                    *)
SameCluster(p, q) == owner[p] # None /\ owner[p] = owner[q]

Separate ==
  \A S \in SUBSET Points : Closed(S) =>
    \A p \in S, q \in Points \ S : owner[p] # None => owner[p] # owner[q]

OnlyLinked ==
  \A p \in Points : owner[p] # None => \E link \in Links : p \in {link[1], link[2]}

Followed ==
  /\ pairs \subseteq ZeroPairs(input) /\ todo \subseteq Shifted(input)
  /\ \A link \in ZeroPairs(input) \ pairs : SameCluster(link[1], link[2])
  /\ \A p \in Shifted(input) \ todo :
       input.target[p] # None => SameCluster(p, input.target[p])

(* The invariant: agreement as long as both sides are kept up, its part    *)
(* that is left when points are erased, and the graph.                     *)
IInv ==
  /\ TypeOK
  /\ PointsAndClusters
  /\ pc \in {"aggregate", "coalesce"} => Agreed
  /\ pc = "aggregate" => Separate /\ OnlyLinked /\ Followed

(* The sets an input is made of. *)
LEMMA InputTypes ==
  ASSUME input \in Inputs
  PROVE  /\ input.zero \subseteq Points /\ input.original \subseteq Points
         /\ input.target \in [Points -> Points \cup {None}]
         /\ input.coalesce \in BOOLEAN
  BY DEF AggregationAssumption, InputType

(* An area without a shift or a shift vector keeps the graph right.        *)
LEMMA JoinFollowsGraph ==
  ASSUME Separate, OnlyLinked, Agreed, NEW p \in Points, NEW q \in Points,
         <<p, q>> \in Links, Joined(p, q), input' = input
  PROVE  /\ Separate' /\ OnlyLinked' /\ SameCluster(p, q)'
         /\ \A a, b \in Points : SameCluster(a, b) => SameCluster(a, b)'
  <1>1. PICK m \in Points : \A x \in Points :
          /\ Touched(p, q, x) => owner'[x] = m
          /\ ~Touched(p, q, x) => owner'[x] = owner[x] /\ owner[x] # m
    BY DEF Joined
  <1>2. None \notin Points /\ m # None
    BY DEF AggregationAssumption
  <1>3. Links' = Links
    BY DEF Links, ZeroPairs, Shifted
  <1>4. SameCluster(p, q)'
    BY <1>1, <1>2 DEF SameCluster, Touched
  <1>5. ASSUME NEW a \in Points, NEW b \in Points, SameCluster(a, b)
        PROVE  SameCluster(a, b)'
    <2>1. CASE Touched(p, q, a)
      <3>1. Touched(p, q, b)
        BY <1>5, <2>1 DEF Touched, SameCluster
      <3> QED
        BY <1>1, <1>2, <2>1, <3>1 DEF SameCluster
    <2>2. CASE ~Touched(p, q, a)
      <3>1. ~Touched(p, q, b)
        BY <1>5, <2>2 DEF Touched, SameCluster
      <3> QED
        BY <1>1, <1>5, <2>2, <3>1 DEF SameCluster
    <2> QED
      BY <2>1, <2>2
  <1>6. Separate'
    <2> SUFFICES ASSUME NEW S \in SUBSET Points, Closed(S),
                        NEW a \in S, NEW b \in Points \ S, owner'[a] # None, owner'[a] = owner'[b]
                 PROVE  FALSE
      BY <1>3 DEF Separate, Closed
    <2>1. p \in S <=> q \in S
      BY DEF Closed
    <2>2. \A x \in S, y \in Points \ S : owner[x] # None => owner[x] # owner[y]
      BY DEF Separate
    <2>3. CASE ~Touched(p, q, a)
      BY <1>1, <2>2, <2>3
    <2>4. CASE ~Touched(p, q, b)
      BY <1>1, <2>2, <2>4
    <2>5. CASE Touched(p, q, a) /\ Touched(p, q, b)
      BY <2>1, <2>2, <2>5 DEF Touched
    <2> QED
      BY <2>3, <2>4, <2>5
  <1>7. OnlyLinked'
    <2> SUFFICES ASSUME NEW x \in Points, owner'[x] # None
                 PROVE  \E link \in Links : x \in {link[1], link[2]}
      BY <1>3 DEF OnlyLinked
    <2>1. CASE x = p \/ x = q
      <3>1. <<p, q>>[1] = p /\ <<p, q>>[2] = q
        OBVIOUS
      <3> QED
        BY <2>1, <3>1
    <2>2. CASE x # p /\ x # q
      <3>1. owner[x] # None
        BY <1>1, <2>2 DEF Touched
      <3> QED
        BY <3>1 DEF OnlyLinked
    <2> QED
      BY <2>1, <2>2
  <1> QED
    BY <1>4, <1>5, <1>6, <1>7

(* The invariant holds before the first pair of points is visited. *)
LEMMA InitIInv == Init => IInv
  <1> SUFFICES ASSUME Init PROVE IInv
    OBVIOUS
  <1> USE DEF Init
  <1>1. input \in Inputs /\ input.original \subseteq Points
    BY InputTypes
  <1>2. /\ owner \in [Points -> Points \cup {None}] /\ \A p \in Points : owner[p] = None
        /\ list \in [Points -> [Points -> Nat]]
        /\ \A c \in Points : Has(c) = {}
    BY DEF Empty, Has
  <1>3. clusters \in Seq(Points) /\ IsInjective(clusters) /\ Range(clusters) = {}
    BY DEF IsInjective, Range
  <1>4. pairs \subseteq Near /\ todo \subseteq Points
    BY <1>1 DEF ZeroPairs, Shifted
  <1>5. TypeOK
    BY <1>1, <1>2, <1>3, <1>4 DEF TypeOK
  <1>6. None \notin Points
    BY DEF AggregationAssumption
  <1>7. Agreed
    BY <1>2, <1>3, <1>6 DEF Agreed
  <1>8. PointsAndClusters
    BY <1>7 DEF PointsAndClusters, Agreed
  <1>9. Separate /\ OnlyLinked
    BY <1>2 DEF Separate, OnlyLinked
  <1>10. Followed
    BY DEF Followed
  <1> QED
    BY <1>5, <1>7, <1>8, <1>9, <1>10 DEF IInv

(* What a run keeps before the clean-up is more than what it keeps in it. *)
LEMMA AgreedIsMore == Agreed => PointsAndClusters
  BY DEF Agreed, PointsAndClusters

(* Joining a zero-shift point with a neighbour keeps the invariant. *)
LEMMA ZeroShiftIInv ==
  ASSUME IInv, NEW p \in Points, NEW n \in Points, ZeroShift(p, n)
  PROVE  IInv'
  <1>1. /\ pc = "aggregate" /\ <<p, n>> \in pairs /\ Join(p, n, owner[n], owner[p])
        /\ pairs' = pairs \ {<<p, n>>}
        /\ input' = input /\ pc' = pc /\ todo' = todo /\ i' = i
    BY DEF ZeroShift
  <1>2. TypeOK /\ Agreed /\ Separate /\ OnlyLinked /\ Followed
    BY <1>1 DEF IInv
  <1>3. Agreed' /\ Joined(p, n)
    BY <1>1, <1>2, JoinAgrees
  <1>4. <<p, n>> \in Links
    BY <1>1, <1>2 DEF Followed, Links
  <1>5. /\ Separate' /\ OnlyLinked' /\ SameCluster(p, n)'
        /\ \A a, b \in Points : SameCluster(a, b) => SameCluster(a, b)'
    BY <1>1, <1>2, <1>3, <1>4, JoinFollowsGraph
  <1>6. Followed'
    <2>1. /\ input.target \in [Points -> Points \cup {None}]
          /\ input.original \subseteq Points
      BY <1>2, InputTypes DEF TypeOK
    <2>2. pairs' \subseteq ZeroPairs(input') /\ todo' \subseteq Shifted(input')
      BY <1>1, <1>2 DEF Followed
    <2>3. ASSUME NEW link \in ZeroPairs(input) \ pairs'
          PROVE  SameCluster(link[1], link[2])'
      <3>1. link[1] \in Points /\ link[2] \in Points /\ link = <<link[1], link[2]>>
        BY AggregationAssumption DEF ZeroPairs, AggregationAssumption
      <3>2. CASE link = <<p, n>>
        <4>1. link[1] = p /\ link[2] = n
          BY <3>2
        <4> QED
          BY <1>5, <4>1
      <3>3. CASE link # <<p, n>>
        <4>1. SameCluster(link[1], link[2])
          BY <1>1, <1>2, <2>3, <3>3 DEF Followed
        <4> QED
          BY <1>5, <3>1, <4>1
      <3> QED
        BY <3>2, <3>3
    <2>4. ASSUME NEW x \in Shifted(input) \ todo', input.target[x] # None
          PROVE  owner'[x] # None /\ owner'[x] = owner'[input.target[x]]
      <3>1. x \in Points /\ input.target[x] \in Points
        BY <2>1, <2>4 DEF Shifted
      <3>2. SameCluster(x, input.target[x])
        BY <1>1, <1>2, <2>4 DEF Followed
      <3>3. \A b \in Points : SameCluster(x, b) => owner'[x] # None /\ owner'[x] = owner'[b]
        BY <1>5, <3>1 DEF SameCluster
      <3> QED
        BY <3>1, <3>2, <3>3
    <2> QED
      BY <1>1, <2>2, <2>3, <2>4 DEF Followed, SameCluster
  <1>7. TypeOK'
    BY <1>1, <1>2, <1>3 DEF TypeOK, Agreed
  <1> QED
    BY <1>3, <1>5, <1>6, <1>7, AgreedIsMore DEF IInv, Agreed, PointsAndClusters

(* Following the shift of a point keeps the invariant. *)
LEMMA FollowShiftIInv ==
  ASSUME IInv, NEW p \in Points, FollowShift(p)
  PROVE  IInv'
  <1>1. /\ pc = "aggregate" /\ p \in todo /\ todo' = todo \ {p}
        /\ input' = input /\ pc' = pc /\ pairs' = pairs /\ i' = i
    BY DEF FollowShift
  <1>2. TypeOK /\ Agreed /\ Separate /\ OnlyLinked /\ Followed
    BY <1>1 DEF IInv
  <1>3. /\ input.target \in [Points -> Points \cup {None}]
        /\ input.original \subseteq Points
    BY <1>2, InputTypes DEF TypeOK
  <1>4. pairs' \subseteq ZeroPairs(input') /\ todo' \subseteq Shifted(input')
    BY <1>1, <1>2 DEF Followed
  <1>5. CASE input.target[p] = None
    <2>1. clusters' = clusters /\ owner' = owner /\ list' = list
      BY <1>5 DEF FollowShift
    <2>2. Agreed' /\ Separate' /\ OnlyLinked'
      <3>1. Links' = Links
        BY <1>1 DEF Links, ZeroPairs, Shifted
      <3>2. Agreed'
        BY <1>2, <2>1 DEF Agreed, Has
      <3>3. Separate'
        BY <1>2, <2>1, <3>1 DEF Separate, Closed
      <3>4. OnlyLinked'
        BY <1>2, <2>1, <3>1 DEF OnlyLinked
      <3> QED
        BY <3>2, <3>3, <3>4
    <2>3. Followed'
      <3>1. \A link \in ZeroPairs(input) \ pairs : SameCluster(link[1], link[2])'
        BY <1>2, <2>1 DEF Followed, SameCluster
      <3>2. \A x \in Shifted(input) \ todo' :
              input.target[x] # None => SameCluster(x, input.target[x])
        BY <1>1, <1>2, <1>5 DEF Followed
      <3>3. \A x, y \in Points : SameCluster(x, y) => SameCluster(x, y)'
        BY <2>1 DEF SameCluster
      <3>4. \A x \in Shifted(input) : x \in Points /\ input.target[x] \in Points \cup {None}
        BY <1>3 DEF Shifted
      <3>5. \A x \in Shifted(input) \ todo' :
              input.target[x] # None => (owner'[x] # None /\ owner'[x] = owner'[input.target[x]])
        BY <2>1, <3>2 DEF SameCluster
      <3> QED
        BY <1>1, <1>4, <3>1, <3>5 DEF Followed, SameCluster
    <2>4. TypeOK'
      BY <1>1, <1>2, <2>1 DEF TypeOK
    <2> QED
      BY <2>2, <2>3, <2>4, AgreedIsMore DEF IInv, Agreed, PointsAndClusters
  <1>6. CASE input.target[p] # None
    <2>1. PICK q \in Points : q = input.target[p]
      BY <1>2, <1>3, <1>6
    <2>2. Join(p, q, Bigger(owner[p], owner[q]), Smaller(owner[p], owner[q]))
      BY <1>6, <2>1 DEF FollowShift
    <2>3. \/ /\ Bigger(owner[p], owner[q]) = owner[p]
             /\ Smaller(owner[p], owner[q]) = owner[q]
          \/ /\ Bigger(owner[p], owner[q]) = owner[q]
             /\ Smaller(owner[p], owner[q]) = owner[p]
      BY DEF Bigger, Smaller
    <2>4. Agreed' /\ Joined(p, q)
      BY <1>2, <2>1, <2>2, <2>3, JoinAgrees
    <2>5. <<p, q>> \in Links
      BY <1>1, <1>2, <1>6, <2>1 DEF Followed, Links
    <2>6. /\ Separate' /\ OnlyLinked' /\ SameCluster(p, q)'
          /\ \A a, b \in Points : SameCluster(a, b) => SameCluster(a, b)'
      BY <1>1, <1>2, <2>4, <2>5, JoinFollowsGraph
    <2>7. Followed'
      <3>1. ASSUME NEW link \in ZeroPairs(input) \ pairs
            PROVE  SameCluster(link[1], link[2])'
        <4>1. link[1] \in Points /\ link[2] \in Points
          BY DEF ZeroPairs, AggregationAssumption
        <4>2. SameCluster(link[1], link[2])
          BY <1>2 DEF Followed
        <4> QED
          BY <2>6, <4>1, <4>2
      <3>2. ASSUME NEW x \in Shifted(input) \ todo', input.target[x] # None
            PROVE  owner'[x] # None /\ owner'[x] = owner'[input.target[x]]
        <4>1. x \in Points /\ input.target[x] \in Points
          BY <1>3, <3>2 DEF Shifted
        <4>2. CASE x = p
          BY <2>1, <2>6, <4>2 DEF SameCluster
        <4>3. CASE x # p
          <5>1. SameCluster(x, input.target[x])
            BY <1>1, <1>2, <3>2, <4>3 DEF Followed
          <5>2. \A b \in Points : SameCluster(x, b) => owner'[x] # None /\ owner'[x] = owner'[b]
            BY <2>6, <4>1 DEF SameCluster
          <5> QED
            BY <4>1, <5>1, <5>2
        <4> QED
          BY <4>2, <4>3
      <3> QED
        BY <1>1, <1>4, <3>1, <3>2 DEF Followed, SameCluster
    <2>8. TypeOK'
      BY <1>1, <1>2, <2>4 DEF TypeOK, Agreed
    <2> QED
      BY <2>4, <2>6, <2>7, <2>8, AgreedIsMore DEF IInv, Agreed, PointsAndClusters
  <1> QED
    BY <1>5, <1>6

(* Coalescing the next cluster with its neighbours keeps the invariant. *)
LEMMA CoalesceIInv ==
  ASSUME IInv, Coalesce
  PROVE  IInv'
  <1> DEFINE c == clusters[i]
  <1>1. /\ pc = "coalesce" /\ i <= Len(clusters) /\ pc' = pc /\ input' = input
        /\ pairs' = pairs /\ todo' = todo
    BY DEF Coalesce
  <1>2. TypeOK /\ Agreed
    BY <1>1 DEF IInv
  <1>3. i \in 1 .. Len(clusters) /\ DOMAIN clusters = 1 .. Len(clusters)
    BY <1>1, <1>2 DEF TypeOK
  <1>4. c \in Points /\ Has(c) # {} /\ owner[c] # None
    <2>1. c \in Points
      BY <1>2, <1>3 DEF Agreed
    <2>2. c \in Range(clusters)
      BY <1>3 DEF Range
    <2> QED
      BY <1>2, <2>1, <2>2 DEF Agreed
  <1>5. CASE /\ \E n \in Strongest(c) : Prevails(n, c) /\ Absorb(c, owner[n])
             /\ i' = 2
    <2>1. PICK n \in Strongest(c) : Prevails(n, c) /\ Absorb(c, owner[n])
      BY <1>5
    <2>2. n \in Points /\ owner[n] # c /\ owner[n] # None
      BY <2>1 DEF Strongest, Neighbours, Prevails
    <2>3. owner[n] \in Points /\ Has(owner[n]) # {}
      BY <1>2, <2>2 DEF Agreed
    <2>4. PICK d \in Points : d = owner[n]
      BY <2>3
    <2>5. PICK e \in Points : e = c
      BY <1>4
    <2>6. Absorb(e, d) /\ e # d /\ Has(e) # {} /\ Has(d) # {}
      BY <1>4, <2>1, <2>2, <2>3, <2>4, <2>5
    <2>7. Agreed'
      BY <1>2, <2>6, AbsorbAgrees
    <2>8. TypeOK'
      <3>1. i' \in Nat \ {0}
        BY <1>5
      <3> QED
        BY <1>1, <1>2, <2>7, <3>1 DEF TypeOK, Agreed
    <2> QED
      BY <1>1, <2>7, <2>8, AgreedIsMore DEF IInv, Agreed, PointsAndClusters
  <1>6. CASE i' = i + 1 /\ UNCHANGED <<clusters, owner, list>>
    <2>1. Agreed'
      BY <1>2, <1>6 DEF Agreed, Has
    <2>2. TypeOK'
      BY <1>1, <1>2, <1>6 DEF TypeOK
    <2> QED
      BY <1>1, <2>1, <2>2, AgreedIsMore DEF IInv, Agreed, PointsAndClusters
  <1> QED
    BY <1>5, <1>6 DEF Coalesce

(* One cluster loses the points that were filled in, and is taken out of   *)
(* the list if that leaves none.                                           *)
LEMMA EraseEffect ==
  ASSUME IInv, Erase
  PROVE  /\ list' \in [Points -> [Points -> Nat]]
         /\ clusters' \in Seq(Points) /\ IsInjective(clusters)' /\ i' \in Nat \ {0}
         /\ \E c \in Points :
              /\ c \in Range(clusters)
              /\ Has(c)' = Has(c) \cap input.original
              /\ \A e \in Points : e # c => Has(e)' = Has(e)
              /\ Range(clusters)' = IF Has(c) \cap input.original = {}
                                    THEN Range(clusters) \ {c} ELSE Range(clusters)
  <1>1. pc = "erase" /\ i <= Len(clusters)
    BY DEF Erase
  <1>2. TypeOK /\ PointsAndClusters
    BY DEF IInv
  <1>3. /\ list \in [Points -> [Points -> Nat]] /\ clusters \in Seq(Points) /\ i \in Nat \ {0}
        /\ IsInjective(clusters)
    BY <1>2 DEF TypeOK, PointsAndClusters
  <1>4. i \in 1 .. Len(clusters) /\ DOMAIN clusters = 1 .. Len(clusters) /\ clusters[i] \in Points
    BY <1>1, <1>3
  <1>5. PICK c \in Points, keepers \in SUBSET Points :
          c = clusters[i] /\ keepers = Has(c) \cap input.original
    BY <1>4 DEF Has
  <1>6. /\ list' = [list EXCEPT ![c] = [p \in Points |-> IF p \in keepers THEN 1 ELSE 0]]
        /\ \/ keepers = {} /\ clusters' = RemoveAt(clusters, i) /\ i' = i
           \/ keepers # {} /\ clusters' = clusters /\ i' = i + 1
    BY <1>5 DEF Erase
  <1>7. /\ list' \in [Points -> [Points -> Nat]]
        /\ \A e \in Points : list'[e] = IF e = c THEN [p \in Points |-> IF p \in keepers THEN 1 ELSE 0]
                                                 ELSE list[e]
    BY <1>3, <1>4, <1>6
  <1>8. /\ \A e \in Points : e # c => Has(e)' = Has(e)
        /\ Has(c)' = keepers
    <2>1. \A p \in Points : list'[c][p] > 0 <=> p \in keepers
      BY <1>4, <1>7
    <2> QED
      BY <1>7, <2>1 DEF Has
  <1>9. /\ clusters' \in Seq(Points) /\ IsInjective(clusters)' /\ i' \in Nat \ {0}
        /\ Range(clusters)' = IF keepers = {} THEN Range(clusters) \ {c} ELSE Range(clusters)
    <2>1. CASE keepers = {}
      <3>1. /\ RemoveAt(clusters, i) \in Seq(Points) /\ IsInjective(RemoveAt(clusters, i))
            /\ Range(RemoveAt(clusters, i)) = Range(clusters) \ {clusters[i]}
        BY <1>3, <1>4, RemoveAtRange
      <3> QED
        BY <1>3, <1>5, <1>6, <2>1, <3>1
    <2>2. CASE keepers # {}
      BY <1>3, <1>6, <2>2
    <2> QED
      BY <2>1, <2>2
  <1>10. c \in Range(clusters)
    BY <1>4, <1>5 DEF Range
  <1> QED
    BY <1>5, <1>7, <1>8, <1>9, <1>10

(* Erasing the filled-in points of a cluster keeps the invariant. *)
LEMMA EraseIInv ==
  ASSUME IInv, Erase
  PROVE  IInv'
  <1>1. /\ pc = "erase" /\ pc' = pc /\ input' = input
        /\ pairs' = pairs /\ todo' = todo /\ owner' = owner
    BY DEF Erase
  <1>2. TypeOK /\ PointsAndClusters
    BY DEF IInv
  <1>3. /\ list' \in [Points -> [Points -> Nat]]
        /\ clusters' \in Seq(Points) /\ IsInjective(clusters)' /\ i' \in Nat \ {0}
    BY EraseEffect
  <1>4. PICK c \in Points :
          /\ c \in Range(clusters)
          /\ Has(c)' = Has(c) \cap input.original
          /\ \A e \in Points : e # c => Has(e)' = Has(e)
          /\ Range(clusters)' = IF Has(c) \cap input.original = {}
                                THEN Range(clusters) \ {c} ELSE Range(clusters)
    BY EraseEffect
  <1>5. \A e \in Points : (e \in Range(clusters) <=> Has(e) # {})'
    <2> SUFFICES ASSUME NEW e \in Points PROVE e \in Range(clusters)' <=> Has(e)' # {}
      OBVIOUS
    <2>1. e \in Range(clusters) <=> Has(e) # {}
      BY <1>2 DEF PointsAndClusters
    <2> QED
      BY <1>4, <2>1
  <1>6. ASSUME NEW p \in Points, NEW e \in Points, p \in input.original
        PROVE  owner'[p] = e <=> p \in Has(e)'
    <2>1. owner[p] = e <=> p \in Has(e)
      BY <1>2, <1>6 DEF PointsAndClusters
    <2> QED
      BY <1>1, <1>4, <1>6, <2>1
  <1>7. PointsAndClusters'
    BY <1>1, <1>3, <1>5, <1>6 DEF PointsAndClusters
  <1>8. TypeOK'
    BY <1>1, <1>2, <1>3 DEF TypeOK
  <1> QED
    BY <1>1, <1>7, <1>8 DEF IInv

(* Every step keeps the invariant. *)
LEMMA NextIInv == IInv /\ [Next]_vars => IInv'
  <1> SUFFICES ASSUME IInv, [Next]_vars PROVE IInv'
    OBVIOUS
  <1>1. ASSUME NEW p \in Points, NEW n \in Points, ZeroShift(p, n) PROVE IInv'
    BY <1>1, ZeroShiftIInv
  <1>2. ASSUME NEW p \in Points, FollowShift(p) PROVE IInv'
    BY <1>2, FollowShiftIInv
  <1>3. CASE Aggregated
    <2>1. /\ input' = input /\ pairs' = pairs /\ todo' = todo /\ i' = i
          /\ clusters' = clusters /\ owner' = owner /\ list' = list
          /\ pc = "aggregate" /\ pc' \in {"coalesce", "erase"}
      BY <1>3 DEF Aggregated
    <2>2. TypeOK /\ Agreed
      BY <2>1 DEF IInv
    <2>3. Agreed'
      BY <2>1, <2>2 DEF Agreed, Has
    <2>4. TypeOK'
      BY <2>1, <2>2 DEF TypeOK
    <2> QED
      BY <2>1, <2>3, <2>4, AgreedIsMore DEF IInv, Agreed, PointsAndClusters
  <1>4. CASE Coalesce
    BY <1>4, CoalesceIInv
  <1>5. CASE Coalesced
    <2>1. /\ input' = input /\ pairs' = pairs /\ todo' = todo /\ i' = 1
          /\ clusters' = clusters /\ owner' = owner /\ list' = list
          /\ pc = "coalesce" /\ pc' = "erase"
      BY <1>5 DEF Coalesced
    <2>2. TypeOK /\ Agreed
      BY <2>1 DEF IInv
    <2>3. Agreed'
      BY <2>1, <2>2 DEF Agreed, Has
    <2>4. TypeOK'
      BY <2>1, <2>2 DEF TypeOK
    <2> QED
      BY <2>1, <2>3, <2>4, AgreedIsMore DEF IInv, Agreed, PointsAndClusters
  <1>6. CASE Erase
    BY <1>6, EraseIInv
  <1>7. CASE Erased
    <2>1. /\ input' = input /\ pairs' = pairs /\ todo' = todo /\ i' = i
          /\ clusters' = clusters /\ owner' = owner /\ list' = list
          /\ pc = "erase" /\ pc' = "done"
      BY <1>7 DEF Erased
    <2>2. PointsAndClusters'
      BY <2>1 DEF IInv, PointsAndClusters, Has
    <2>3. TypeOK'
      BY <2>1 DEF IInv, TypeOK
    <2> QED
      BY <2>1, <2>2, <2>3 DEF IInv
  <1>8. CASE UNCHANGED vars
    <2>1. /\ input' = input /\ pairs' = pairs /\ todo' = todo /\ i' = i /\ pc' = pc
          /\ clusters' = clusters /\ owner' = owner /\ list' = list
      BY <1>8 DEF vars
    <2>2. TypeOK' /\ PointsAndClusters'
      BY <2>1 DEF IInv, TypeOK, PointsAndClusters, Has
    <2>3. pc' \in {"aggregate", "coalesce"} => Agreed'
      BY <2>1 DEF IInv, Agreed, Has
    <2>4. ASSUME pc = "aggregate" PROVE Separate' /\ OnlyLinked' /\ Followed'
      <3>1. Separate /\ OnlyLinked /\ Followed
        BY <2>4 DEF IInv
      <3>2. Links' = Links /\ ZeroPairs(input') = ZeroPairs(input) /\ Shifted(input') = Shifted(input)
        BY <2>1 DEF Links, ZeroPairs, Shifted
      <3>3. Separate'
        BY <2>1, <3>1, <3>2 DEF Separate, Closed
      <3>4. OnlyLinked'
        BY <2>1, <3>1, <3>2 DEF OnlyLinked
      <3>5. Followed'
        BY <2>1, <3>1 DEF Followed, SameCluster
      <3> QED
        BY <3>3, <3>4, <3>5
    <2> QED
      BY <2>1, <2>2, <2>3, <2>4 DEF IInv
  <1> QED
    BY <1>1, <1>2, <1>3, <1>4, <1>5, <1>6, <1>7, <1>8 DEF Next

-----------------------------------------------------------------------------
(* The strengthened invariant holds of every run of the aggregation.       *)
THEOREM AggregationInvariant == Spec => []IInv
  BY InitIInv, NextIInv, PTL DEF Spec

(* The types, for any feature space: no list of points or clusters is ever *)
(* left in a shape the next loop cannot work with.                         *)
THEOREM AggregationTypes == Spec => []TypeOK
  <1>1. IInv => TypeOK
    BY DEF IInv
  <1> QED
    BY <1>1, AggregationInvariant, PTL

(* Point::cluster and the clusters' lists of points agree, however the     *)
(* loops merge, coalesce and erase: no pointer to a deleted cluster.       *)
THEOREM PointsAndClustersAgree == Spec => []PointsAndClusters
  <1>1. IInv => PointsAndClusters
    BY DEF IInv
  <1> QED
    BY <1>1, AggregationInvariant, PTL

(* The clusters that are erased already have their points once; none is    *)
(* passed over when the list is shortened.                                 *)
ErasedOnce ==
  /\ pc = "aggregate" => i = 1
  /\ pc \in {"erase", "done"} =>
       \A k \in DOMAIN clusters : k < i =>
         /\ Has(clusters[k]) \subseteq input.original
         /\ \A p \in Points :
              list[clusters[k]][p] = IF p \in Has(clusters[k]) THEN 1 ELSE 0
  /\ pc = "done" => i > Len(clusters)

(* Erase puts one cluster more in order, and leaves the others before i.   *)
LEMMA EraseOnce ==
  ASSUME IInv, ErasedOnce, Erase
  PROVE  ErasedOnce'
  <1>1. /\ pc = "erase" /\ pc' = pc /\ input' = input /\ i <= Len(clusters)
        /\ list \in [Points -> [Points -> Nat]] /\ clusters \in Seq(Points) /\ i \in Nat \ {0}
        /\ IsInjective(clusters) /\ input.original \subseteq Points
    BY InputTypes DEF Erase, IInv, TypeOK, PointsAndClusters
  <1>2. /\ i \in 1 .. Len(clusters) /\ DOMAIN clusters = 1 .. Len(clusters) /\ Len(clusters) \in Nat
        /\ clusters[i] \in Points
    BY <1>1
  <1>3. PICK c \in Points, keepers \in SUBSET Points :
          c = clusters[i] /\ keepers = Has(c) \cap input.original
    BY <1>1, <1>2 DEF Has
  <1>4. /\ list' = [list EXCEPT ![c] = [p \in Points |-> IF p \in keepers THEN 1 ELSE 0]]
        /\ \/ keepers = {} /\ clusters' = RemoveAt(clusters, i) /\ i' = i
           \/ keepers # {} /\ clusters' = clusters /\ i' = i + 1
    BY <1>3 DEF Erase
  <1>5. \A e \in Points : list'[e] = IF e = c THEN [p \in Points |-> IF p \in keepers THEN 1 ELSE 0]
                                              ELSE list[e]
    BY <1>1, <1>4
  <1>6. ASSUME NEW k \in DOMAIN clusters', k < i'
        PROVE  /\ k \in DOMAIN clusters /\ clusters'[k] = clusters[k]
               /\ k < i \/ k = i
    <2>1. CASE keepers = {} /\ clusters' = RemoveAt(clusters, i) /\ i' = i
      <3>1. /\ RemoveAt(clusters, i) \in Seq(Points) /\ Len(RemoveAt(clusters, i)) = Len(clusters) - 1
            /\ \A j \in 1 .. i - 1 : RemoveAt(clusters, i)[j] = clusters[j]
        BY <1>1, <1>2, RemoveAtRange
      <3>2. DOMAIN clusters' = 1 .. Len(clusters) - 1
        BY <2>1, <3>1
      <3> QED
        BY <1>2, <1>6, <2>1, <3>1, <3>2
    <2>2. CASE keepers # {} /\ clusters' = clusters /\ i' = i + 1
      BY <1>2, <1>6, <2>2
    <2> QED
      BY <1>4, <2>1, <2>2
  <1>7. ASSUME NEW k \in DOMAIN clusters', k < i'
        PROVE  /\ Has(clusters[k])' \subseteq input.original
               /\ \A p \in Points :
                    list'[clusters'[k]][p] = IF p \in Has(clusters[k])' THEN 1 ELSE 0
    <2>1. PICK e \in Points : e = clusters[k] /\ e = clusters'[k]
      BY <1>1, <1>2, <1>6, <1>7
    <2>2. CASE e = c
      <3>1. \A p \in Points : list'[e][p] = IF p \in keepers THEN 1 ELSE 0
        BY <1>5, <2>2
      <3>2. Has(e)' = keepers
        BY <3>1 DEF Has
      <3> QED
        BY <1>3, <2>1, <3>1, <3>2 DEF Has
    <2>3. CASE e # c
      <3>1. k < i /\ k \in DOMAIN clusters
        BY <1>3, <1>6, <1>7, <2>1, <2>3
      <3>2. /\ Has(e) \subseteq input.original
            /\ \A p \in Points : list[e][p] = IF p \in Has(e) THEN 1 ELSE 0
        BY <1>1, <2>1, <3>1 DEF ErasedOnce
      <3>3. list'[e] = list[e] /\ Has(e)' = Has(e)
        BY <1>5, <2>3 DEF Has
      <3> QED
        BY <2>1, <3>2, <3>3 DEF Has
    <2> QED
      BY <2>2, <2>3
  <1> QED
    BY <1>1, <1>7 DEF ErasedOnce

(* Every step keeps what is erased in order.                               *)
LEMMA StepErased ==
  ASSUME IInv, ErasedOnce, [Next]_vars
  PROVE  ErasedOnce'
  <1>1. CASE Erase
    BY <1>1, EraseOnce
  <1>2. CASE Erased
    BY <1>2 DEF Erased, ErasedOnce, Has
  <1>3. CASE Aggregated \/ Coalesced
    <2>1. pc' \in {"coalesce", "erase"} /\ (pc' = "erase" => i' = 1)
      BY <1>3 DEF Aggregated, Coalesced, ErasedOnce
    <2>2. \A k \in DOMAIN clusters' : ~(k < 1)
      <3>1. clusters' = clusters /\ clusters \in Seq(Points)
        BY <1>3 DEF Aggregated, Coalesced, IInv, TypeOK
      <3> QED
        BY <3>1
    <2> QED
      BY <2>1, <2>2 DEF ErasedOnce
  <1>4. CASE Coalesce
    BY <1>4 DEF Coalesce, ErasedOnce
  <1>5. CASE \E p \in Points : FollowShift(p) \/ \E n \in Points : ZeroShift(p, n)
    BY <1>5 DEF ZeroShift, FollowShift, ErasedOnce
  <1>6. CASE UNCHANGED vars
    BY <1>6 DEF vars, ErasedOnce, Has
  <1> QED
    BY <1>1, <1>2, <1>3, <1>4, <1>5, <1>6 DEF Next

(* For any feature space, whatever the coalescence has merged: at the end  *)
(* each original point of a cluster is in it once, and in no other, and no *)
(* point that was filled in is left.                                       *)
THEOREM OriginalsAreLeft == Spec => []OriginalsOnce
  <1>1. Init => ErasedOnce
    BY DEF Init, ErasedOnce
  <1>2. IInv /\ ErasedOnce => OriginalsOnce
    <2> SUFFICES ASSUME IInv, ErasedOnce, pc = "done", NEW p \in Points, NEW c \in Points
                 PROVE  list[c][p] = IF p \in input.original /\ owner[p] = c THEN 1 ELSE 0
      BY DEF OriginalsOnce
    <2>1. /\ list \in [Points -> [Points -> Nat]] /\ clusters \in Seq(Points) /\ i \in Nat
          /\ c \in Range(clusters) <=> Has(c) # {}
          /\ p \in input.original => (owner[p] = c <=> p \in Has(c))
      BY DEF IInv, TypeOK, PointsAndClusters
    <2>2. CASE c \in Range(clusters)
      <3>1. PICK k \in DOMAIN clusters : c = clusters[k]
        BY <2>2 DEF Range
      <3>2. k < i
        <4>1. k \in 1 .. Len(clusters) /\ Len(clusters) \in Nat
          <5>1. clusters \in Seq(Points)
            BY <2>1
          <5>2. DOMAIN clusters = 1 .. Len(clusters) /\ Len(clusters) \in Nat
            BY <5>1
          <5> QED
            BY <3>1, <5>2
        <4>2. i > Len(clusters)
          BY DEF ErasedOnce
        <4> QED
          BY <2>1, <4>1, <4>2
      <3>3. Has(c) \subseteq input.original /\ list[c][p] = IF p \in Has(c) THEN 1 ELSE 0
        BY <3>1, <3>2 DEF ErasedOnce
      <3> QED
        BY <2>1, <3>3
    <2>3. CASE c \notin Range(clusters)
      <3>1. p \notin Has(c)
        BY <2>1, <2>3
      <3>2. list[c][p] = 0
        <4>1. list[c][p] \in Nat /\ ~(list[c][p] > 0)
          BY <2>1, <3>1 DEF Has
        <4> QED
          BY <4>1
      <3> QED
        BY <2>1, <3>1, <3>2
    <2> QED
      BY <2>2, <2>3
  <1> QED
    BY <1>1, <1>2, StepErased, AggregationInvariant, PTL DEF Spec

(* The clusters of the graph are the parts its links connect, whatever the *)
(* order in which points without a shift and shift vectors are followed.   *)
THEOREM GraphComponents == Spec => []ClustersAreComponents
  <1>1. IInv => ClustersAreComponents
    <2> SUFFICES ASSUME IInv, pc = "aggregate", pairs = {}, todo = {}
                 PROVE  ClustersAreComponents
      BY DEF ClustersAreComponents
    <2>1. TypeOK /\ Separate /\ OnlyLinked /\ Followed
      BY DEF IInv
    <2>2. ASSUME NEW link \in Links
          PROVE  owner[link[1]] = owner[link[2]] /\ owner[link[1]] # None
      <3>1. CASE link \in ZeroPairs(input)
        BY <2>1, <3>1 DEF Followed, SameCluster
      <3>2. CASE link \notin ZeroPairs(input)
        <4>1. PICK p \in Shifted(input) : input.target[p] # None /\ link = <<p, input.target[p]>>
          BY <3>2 DEF Links
        <4>2. SameCluster(p, input.target[p])
          BY <2>1, <4>1 DEF Followed
        <4>3. link[1] = p /\ link[2] = input.target[p]
          BY <4>1
        <4> QED
          BY <4>2, <4>3 DEF SameCluster
      <3> QED
        BY <3>1, <3>2
    <2> QED
      BY <2>1, <2>2 DEF ClustersAreComponents, Separate, OnlyLinked
  <1> QED
    BY <1>1, AggregationInvariant, PTL

-----------------------------------------------------------------------------
(* The aggregation implements Partition.                                   *)
Listed == {clusters[k] : k \in DOMAIN clusters}
TheGroups == {Has(c) : c \in Listed}
TheJoins == Links \cup (IF input.coalesce THEN Near ELSE {})

(* No point is in two clusters, filled in or not.                          *)
Apart == \A c, d \in Points : c # d => Has(c) \cap Has(d) = {}

(* While points are not erased, the groups are what owners name.           *)
ByOwner ==
  /\ \A g : g \in TheGroups <=> g # {} /\ \E c \in Points : g = Has(c)
  /\ \A c \in Points : Has(c) = {x \in Points : owner[x] = c}

LEMMA GroupsByOwner == Agreed => ByOwner /\ Apart
  <1> SUFFICES ASSUME Agreed PROVE ByOwner /\ Apart
    OBVIOUS
  <1>1. Listed = Range(clusters) /\ Range(clusters) \subseteq Points
    BY DEF Listed, Agreed, Range
  <1>2. \A c \in Points : Has(c) = {x \in Points : owner[x] = c} /\ Has(c) \subseteq Points
    BY DEF Agreed, Has
  <1>3. \A c \in Points : c \in Listed <=> Has(c) # {}
    BY <1>1 DEF Agreed
  <1>4. Apart
    BY <1>2 DEF Apart
  <1> QED
    BY <1>1, <1>2, <1>3, <1>4 DEF TheGroups, ByOwner

(* The same of the state behind a step. *)
LEMMA GroupsByOwnerNext == (Agreed => ByOwner /\ Apart)'
  BY GroupsByOwner, PTL

(* Where one cluster takes all that was with two points, their groups join.*)
LEMMA JoinedIsJoin ==
  ASSUME Agreed, Agreed', NEW p \in Points, NEW q \in Points, Joined(p, q)
  PROVE  TheGroups' = (TheGroups \ {g \in TheGroups : p \in g \/ q \in g})
                        \cup {(UNION {g \in TheGroups : p \in g \/ q \in g}) \cup {p, q}}
  <1> DEFINE T == {g \in TheGroups : p \in g \/ q \in g}
             All == {x \in Points : Touched(p, q, x)}
  <1>1. PICK m \in Points : \A x \in Points :
          /\ Touched(p, q, x) => owner'[x] = m
          /\ ~Touched(p, q, x) => owner'[x] = owner[x] /\ owner[x] # m
    BY DEF Joined
  <1>2. /\ \A g : g \in TheGroups <=> g # {} /\ \E c \in Points : g = Has(c)
        /\ \A c \in Points : Has(c) = {x \in Points : owner[x] = c}
    BY GroupsByOwner DEF ByOwner
  <1>3. /\ \A g : g \in TheGroups' <=> g # {} /\ \E c \in Points : g = Has(c)'
        /\ \A c \in Points : Has(c)' = {x \in Points : owner'[x] = c}
    BY GroupsByOwnerNext DEF ByOwner
  <1>4. owner \in [Points -> Points \cup {None}]
    BY DEF Agreed
  <1>5. (UNION T) \cup {p, q} = All
    <2>1. ASSUME NEW x \in UNION T
          PROVE  x \in All
      <3>1. PICK g \in TheGroups : x \in g /\ (p \in g \/ q \in g)
        BY <2>1
      <3>2. PICK c \in Points : g = {y \in Points : owner[y] = c}
        BY <1>2, <3>1
      <3> QED
        BY <3>1, <3>2 DEF Touched
    <2>2. ASSUME NEW x \in All, x # p, x # q
          PROVE  x \in UNION T
      <3>1. owner[x] \in Points /\ (owner[x] = owner[p] \/ owner[x] = owner[q])
        BY <1>4, <2>2 DEF Touched
      <3>2. /\ Has(owner[x]) = {y \in Points : owner[y] = owner[x]}
            /\ Has(owner[x]) \in TheGroups
        BY <1>2, <3>1
      <3>3. x \in Has(owner[x]) /\ (p \in Has(owner[x]) \/ q \in Has(owner[x]))
        BY <3>1, <3>2
      <3> QED
        BY <3>2, <3>3
    <2>3. p \in All /\ q \in All
      BY DEF Touched
    <2>4. \A x \in (UNION T) \cup {p, q} : x \in All
      BY <2>1, <2>3
    <2>5. \A x \in All : x \in (UNION T) \cup {p, q}
      BY <2>2
    <2> HIDE DEF T, All
    <2> QED
      BY <2>4, <2>5
  <1>6. Has(m)' = All
    BY <1>1, <1>3
  <1>7. ASSUME NEW c \in Points, c # m, Has(c)' # {}
        PROVE  Has(c)' = Has(c) /\ p \notin Has(c) /\ q \notin Has(c)
    <2>1. PICK x \in Points : owner'[x] = c
      BY <1>3, <1>7
    <2>2. ~Touched(p, q, x) /\ owner[x] = c
      BY <1>1, <1>7, <2>1
    <2>3. owner[p] # c /\ owner[q] # c
      BY <2>2 DEF Touched
    <2>4. \A y \in Points : owner'[y] = c <=> owner[y] = c
      <3> SUFFICES ASSUME NEW y \in Points PROVE owner'[y] = c <=> owner[y] = c
        OBVIOUS
      <3>1. CASE Touched(p, q, y)
        <4>1. owner[y] # c
          <5>1. CASE y = p \/ y = q
            BY <2>3, <5>1
          <5>2. CASE owner[y] = owner[p] \/ owner[y] = owner[q]
            BY <2>3, <5>2
          <5> QED
            BY <3>1, <5>1, <5>2 DEF Touched
        <4> QED
          BY <1>1, <1>7, <3>1, <4>1
      <3>2. CASE ~Touched(p, q, y)
        BY <1>1, <3>2
      <3> QED
        BY <3>1, <3>2
    <2>5. Has(c)' = Has(c)
      BY <1>2, <1>3, <2>4
    <2>6. p \notin Has(c) /\ q \notin Has(c)
      BY <1>2, <2>3
    <2> QED
      BY <2>5, <2>6
  <1>8. ASSUME NEW g \in TheGroups \ T
        PROVE  g \in TheGroups'
    <2>1. PICK c \in Points : g = Has(c) /\ g # {}
      BY <1>2
    <2>2. p \notin Has(c) /\ q \notin Has(c)
      BY <1>8, <2>1
    <2>3. owner[p] # c /\ owner[q] # c
      BY <1>2, <2>2
    <2>4. PICK x \in Points : owner[x] = c
      BY <1>2, <2>1
    <2>5. ~Touched(p, q, x)
      BY <2>2, <2>3, <2>4, <1>2 DEF Touched
    <2>6. c # m
      BY <1>1, <2>4, <2>5
    <2>7. \A y \in Points : owner'[y] = c <=> owner[y] = c
      BY <1>1, <2>3, <2>6 DEF Touched
    <2>8. Has(c)' = Has(c)
      BY <1>2, <1>3, <2>7
    <2> QED
      BY <1>3, <2>1, <2>8
  <1>9. ASSUME NEW g \in TheGroups'
        PROVE  g = All \/ g \in TheGroups \ T
    <2>1. PICK c \in Points : g = Has(c)' /\ g # {}
      BY <1>3
    <2>2. CASE c = m
      BY <1>6, <2>1, <2>2
    <2>3. CASE c # m
      <3>1. g = Has(c) /\ p \notin g /\ q \notin g
        BY <1>7, <2>1, <2>3
      <3> QED
        BY <1>2, <2>1, <3>1
    <2> QED
      BY <2>2, <2>3
  <1>10. All \in TheGroups'
    <2>1. p \in All
      BY DEF Touched
    <2> QED
      BY <1>3, <1>6, <2>1
  <1>11. TheGroups' = (TheGroups \ T) \cup {All}
    BY <1>8, <1>9, <1>10
  <1> QED
    BY <1>5, <1>11

(* What leaves the list of clusters, their points and the input alone is   *)
(* no step of the partition.                                               *)
LEMMA PartitionStutters ==
  ASSUME clusters' = clusters, list' = list, input' = input
  PROVE  TheGroups' = TheGroups /\ TheJoins' = TheJoins
  BY DEF TheGroups, Listed, Has, TheJoins, Links, ZeroPairs, Shifted

(* The links and neighbours stay as they are. *)
LEMMA JoinsStay ==
  ASSUME input' = input
  PROVE  TheJoins' = TheJoins
  BY DEF TheJoins, Links, ZeroPairs, Shifted

(* Clusters stay apart, also while filled-in points are erased. *)
LEMMA StayApart ==
  ASSUME IInv, IInv', Apart, [Next]_vars
  PROVE  Apart'
  <1>1. CASE pc' \in {"aggregate", "coalesce"}
    <2>1. Agreed'
      BY <1>1 DEF IInv
    <2> QED
      BY <2>1, GroupsByOwnerNext
  <1>2. CASE Erase
    <2>1. PICK c \in Points :
            /\ Has(c)' = Has(c) \cap input.original
            /\ \A e \in Points : e # c => Has(e)' = Has(e)
      BY <1>2, EraseEffect
    <2>2. \A e \in Points : Has(e)' \subseteq Has(e)
      BY <2>1
    <2> QED
      BY <2>2 DEF Apart
  <1>3. CASE list' = list
    BY <1>3 DEF Apart, Has
  <1>4. \/ pc' \in {"aggregate", "coalesce"} \/ Erase \/ list' = list
    BY DEF Next, ZeroShift, FollowShift, Aggregated, Coalesce, Coalesced, Erased, vars, IInv, TypeOK
  <1> QED
    BY <1>1, <1>2, <1>3, <1>4

(* Joining two points that belong together is a Join of their groups. *)
LEMMA JoinGroups ==
  ASSUME Agreed, Agreed', NEW p \in Points, NEW q \in Points, <<p, q>> \in TheJoins,
         Joined(p, q), input' = input
  PROVE  Groups!Next
  <1>1. TheJoins' = TheJoins /\ input'.original = input.original
    BY JoinsStay
  <1>2. <<p, q>>[1] = p /\ <<p, q>>[2] = q
    OBVIOUS
  <1>3. Groups!Join(p, q)
    BY <1>1, JoinedIsJoin DEF Groups!Join, Groups!Touched, TheGroups, Listed, TheJoins
  <1>4. Groups!Join(<<p, q>>[1], <<p, q>>[2])
    BY <1>2, <1>3
  <1> QED
    BY <1>4 DEF Groups!Next, TheJoins

(* A cluster that takes its strongest neighbour's: the groups of one of    *)
(* its points and that neighbour join.                                     *)
LEMMA CoalesceGroups ==
  ASSUME IInv, IInv', Coalesce, input.coalesce
  PROVE  Groups!Next \/ (clusters' = clusters /\ list' = list /\ input' = input)
  <1> DEFINE c == clusters[i]
  <1>1. pc = "coalesce" /\ pc' = pc /\ input' = input /\ i <= Len(clusters)
    BY DEF Coalesce
  <1>2. Agreed /\ Agreed' /\ TypeOK
    BY <1>1 DEF IInv
  <1>3. i \in 1 .. Len(clusters) /\ c \in Points /\ c \in Range(clusters)
    BY <1>1, <1>2 DEF TypeOK, Range
  <1>4. CASE UNCHANGED <<clusters, owner, list>>
    BY <1>1, <1>4
  <1>5. CASE \E n \in Strongest(c) : Prevails(n, c) /\ Absorb(c, owner[n])
    <2>1. PICK n \in Strongest(c) : Prevails(n, c) /\ Absorb(c, owner[n])
      BY <1>5
    <2>2. /\ n \in Points /\ owner[n] # c /\ owner[n] # None
          /\ \E p \in Has(c) : <<p, n>> \in Near
      BY <2>1 DEF Strongest, Neighbours, Prevails
    <2>3. PICK p \in Points : p \in Has(c) /\ <<p, n>> \in Near
      BY <2>2 DEF Has
    <2>4. PICK d \in Points : d = owner[n]
      BY <1>2, <2>2 DEF Agreed
    <2>5. PICK e \in Points : e = c
      BY <1>3
    <2>6. owner[p] = e /\ owner[n] = d /\ e # d /\ Has(e) # {} /\ Has(d) # {} /\ Absorb(e, d)
      BY <1>2, <2>1, <2>2, <2>3, <2>4, <2>5 DEF Agreed
    <2>7. \A x \in Points : owner'[x] = IF owner[x] = d THEN e ELSE owner[x]
      BY <1>2, <2>6, AbsorbAgrees
    <2>8. None \notin Points
      BY DEF AggregationAssumption
    <2>9. Joined(p, n)
      BY <2>6, <2>7, <2>8 DEF Joined, Touched
    <2>10. <<p, n>> \in TheJoins
      BY <2>3 DEF TheJoins
    <2> QED
      BY <1>1, <1>2, <2>2, <2>9, <2>10, JoinGroups
  <1> QED
    BY <1>4, <1>5 DEF Coalesce

(* Erasing is a Drop of the group of the cluster. *)
LEMMA EraseGroups ==
  ASSUME IInv, Apart, Erase
  PROVE  Groups!Next
  <1>1. PICK c \in Points :
          /\ c \in Range(clusters)
          /\ Has(c)' = Has(c) \cap input.original
          /\ \A e \in Points : e # c => Has(e)' = Has(e)
          /\ Range(clusters)' = IF Has(c) \cap input.original = {}
                                THEN Range(clusters) \ {c} ELSE Range(clusters)
    BY EraseEffect
  <1> DEFINE g == Has(c)
  <1>2. input' = input /\ input'.original = input.original /\ TheJoins' = TheJoins
    BY JoinsStay DEF Erase
  <1>3. /\ Listed = Range(clusters) /\ Range(clusters) \subseteq Points
        /\ Listed' = Range(clusters)'
    BY DEF Listed, Range, IInv, TypeOK
  <1>4. g \in TheGroups /\ g # {}
    BY <1>1, <1>3 DEF TheGroups, IInv, PointsAndClusters
  <1>5. \A e \in Listed : e # c => Has(e) # g
    BY <1>1, <1>3, <1>4 DEF Apart
  <1>6. TheGroups' = (TheGroups \ {g}) \cup ({g \cap input.original} \ {{}})
    <2>1. ASSUME NEW h \in TheGroups'
          PROVE  h \in (TheGroups \ {g}) \cup ({g \cap input.original} \ {{}})
      <3>1. PICK e \in Listed' : h = Has(e)'
        BY <2>1 DEF TheGroups
      <3>2. CASE e = c
        BY <1>1, <1>3, <3>1, <3>2
      <3>3. CASE e # c
        <4>1. e \in Listed /\ h = Has(e)
          BY <1>1, <1>3, <3>1, <3>3
        <4> QED
          BY <1>5, <3>3, <4>1 DEF TheGroups
      <3> QED
        BY <3>2, <3>3
    <2>2. ASSUME NEW h \in TheGroups, h # g
          PROVE  h \in TheGroups'
      <3>1. PICK e \in Listed : h = Has(e)
        BY <2>2 DEF TheGroups
      <3>2. e # c /\ e \in Listed' /\ h = Has(e)'
        BY <1>1, <1>3, <2>2, <3>1
      <3> QED
        BY <3>2 DEF TheGroups
    <2>3. ASSUME g \cap input.original # {}
          PROVE  g \cap input.original \in TheGroups'
      <3>1. c \in Listed' /\ Has(c)' = g \cap input.original
        BY <1>1, <1>3, <2>3
      <3> QED
        BY <3>1 DEF TheGroups
    <2> HIDE DEF g
    <2> QED
      BY <2>1, <2>2, <2>3
  <1> DEFINE Dropped(h) == /\ TheGroups' = (TheGroups \ {h}) \cup ({h \cap input.original} \ {{}})
                           /\ TheJoins' = TheJoins /\ input'.original = input.original
  <1>7. \E h \in TheGroups : Dropped(h)
    BY <1>2, <1>4, <1>6
  <1>8. (\E h \in TheGroups : Dropped(h)) => Groups!Next
    BY Zenon DEF Groups!Next, Groups!Drop, TheGroups, Listed, TheJoins
  <1> QED
    BY <1>7, <1>8

(* Whatever is aggregated, coalesced and erased: the groups of points only *)
(* grow together, where a link or a neighbour is, until points are dropped.*)
THEOREM AggregationImplementsPartition == Spec => GroupsGrowTogether
  <1> DEFINE Asked == pc = "coalesce" => input.coalesce
  <1>1. Init => Groups!Init /\ Apart /\ Asked
    <2> SUFFICES ASSUME Init PROVE Groups!Init /\ Apart /\ Asked
      OBVIOUS
    <2>1. Agreed /\ IInv /\ clusters = <<>> /\ input \in Inputs
      BY InitIInv DEF IInv, Init
    <2>2. Listed = {} /\ TheGroups = {}
      BY <2>1 DEF Listed, TheGroups
    <2>3. TheJoins \subseteq Points \X Points
      <3>1. ZeroPairs(input) \subseteq Points \X Points
        BY DEF ZeroPairs, AggregationAssumption
      <3>2. \A p \in Shifted(input) : p \in Points /\ input.target[p] \in Points \cup {None}
        BY <2>1, InputTypes DEF Shifted
      <3> QED
        BY <3>1, <3>2 DEF TheJoins, Links, AggregationAssumption
    <2>4. input.original \subseteq Points
      BY <2>1, InputTypes
    <2>5. Groups!Init
      BY <2>2, <2>3, <2>4 DEF Groups!Init, TheGroups, Listed, TheJoins
    <2>6. Apart
      BY <2>1, GroupsByOwner
    <2> QED
      BY <2>5, <2>6 DEF Init
  <1>2. ASSUME IInv, IInv', Apart, Asked, [Next]_vars
        PROVE  [Groups!Next]_(<<TheGroups, TheJoins, input.original>>)
    <2>1. ASSUME NEW p \in Points, NEW n \in Points, ZeroShift(p, n)
          PROVE  Groups!Next
      <3>1. /\ pc = "aggregate" /\ <<p, n>> \in pairs /\ Join(p, n, owner[n], owner[p])
            /\ input' = input /\ pc' = pc
        BY <2>1 DEF ZeroShift
      <3>2. Agreed /\ Agreed' /\ <<p, n>> \in TheJoins
        BY <1>2, <3>1 DEF IInv, Followed, Links, TheJoins
      <3>3. Joined(p, n)
        BY <3>1, <3>2, JoinAgrees
      <3> QED
        BY <3>1, <3>2, <3>3, JoinGroups
    <2>2. ASSUME NEW p \in Points, FollowShift(p)
          PROVE  Groups!Next \/ (clusters' = clusters /\ list' = list /\ input' = input)
      <3>1. pc = "aggregate" /\ pc' = pc /\ p \in todo /\ input' = input
        BY <2>2 DEF FollowShift
      <3>2. CASE input.target[p] = None
        BY <2>2, <3>1, <3>2 DEF FollowShift
      <3>3. CASE input.target[p] # None
        <4>1. PICK q \in Points : q = input.target[p]
          BY <1>2, <3>3, InputTypes DEF IInv, TypeOK
        <4>2. Agreed /\ Agreed' /\ <<p, q>> \in TheJoins
          BY <1>2, <3>1, <3>3, <4>1 DEF IInv, Followed, Links, TheJoins
        <4>3. Join(p, q, Bigger(owner[p], owner[q]), Smaller(owner[p], owner[q]))
          BY <2>2, <3>3, <4>1 DEF FollowShift
        <4>4. \/ /\ Bigger(owner[p], owner[q]) = owner[p]
                 /\ Smaller(owner[p], owner[q]) = owner[q]
              \/ /\ Bigger(owner[p], owner[q]) = owner[q]
                 /\ Smaller(owner[p], owner[q]) = owner[p]
          BY DEF Bigger, Smaller
        <4>5. Joined(p, q)
          BY <4>2, <4>3, <4>4, JoinAgrees
        <4> QED
          BY <3>1, <4>2, <4>5, JoinGroups
      <3> QED
        BY <3>2, <3>3
    <2>3. CASE Coalesce
      <3>1. input.coalesce
        BY <1>2, <2>3 DEF Coalesce
      <3> QED
        BY <1>2, <2>3, <3>1, CoalesceGroups, PartitionStutters
    <2>4. CASE Erase
      BY <1>2, <2>4, EraseGroups
    <2>5. CASE Aggregated \/ Coalesced \/ Erased \/ UNCHANGED vars
      <3>1. clusters' = clusters /\ list' = list /\ input' = input
        BY <2>5 DEF Aggregated, Coalesced, Erased, vars
      <3> QED
        BY <3>1, PartitionStutters
    <2> QED
      BY <1>2, <2>1, <2>2, <2>3, <2>4, <2>5, PartitionStutters DEF Next
  <1>3. IInv /\ IInv' /\ Apart /\ [Next]_vars => Apart'
    BY StayApart
  <1>4. ASSUME Asked, [Next]_vars
        PROVE  Asked'
    BY <1>4 DEF Next, ZeroShift, FollowShift, Aggregated, Coalesce, Coalesced, Erase, Erased, vars
  <1>5. /\ TheGroups = {Has(c) : c \in {clusters[k] : k \in DOMAIN clusters}}
        /\ TheJoins = Links \cup (IF input.coalesce THEN Near ELSE {})
    BY DEF TheGroups, Listed, TheJoins
  <1> QED
    BY <1>1, <1>2, <1>3, <1>4, AggregationInvariant, PTL
    DEF Spec, GroupsGrowTogether, Groups!Spec, TheGroups, Listed, TheJoins
=============================================================================
