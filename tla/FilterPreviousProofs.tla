------------------------ MODULE FilterPreviousProofs ------------------------
(***************************************************************************)
(* For any clusters and any previous clusters on any grid: the filter      *)
(* brings touching parts of a previous cluster together, loses none, leaves*)
(* no pointer to a deleted cluster, and gives ids nobody has.              *)
(***************************************************************************)
EXTENDS FilterPrevious, FiniteSetTheorems, TLAPS

(* The previous clusters that the loop has found in several parts.         *)
Met == {o \in 1 .. m - 1 : Cardinality(Candidates(o)) > 1}

Union(o) == UNION {input.points[n] : n \in Candidates(o)}

(* What the loop has done so far.                                          *)
Progress ==
  /\ input \in InputType
  /\ pc \in {"sort", "check", "filter", "print", "write", "written", "exited", "crashed"}
  /\ m \in 1 .. input.olds + 1 /\ (pc \in {"sort", "check"} => m = 1)
  /\ merged = {New + o : o \in Met}
  /\ erased = UNION {Candidates(o) : o \in Met}

(* What the clusters consist of.                                           *)
Contents ==
  /\ points \in [Names -> SUBSET Points]
  /\ \A c \in Detected : points[c] = input.points[c]
  /\ \A o \in Met : points[New + o] = Union(o)

Alive == (Detected \ erased) \cup merged

(* Each point of a cluster belongs to one that stays, and that has it.     *)
Owned ==
  /\ owner \in [Points -> Names \cup {0}]
  /\ \A p \in Points :
       \/ owner[p] \in Alive /\ p \in points[owner[p]]
       \/ owner[p] = 0 /\ \A c \in Detected \cup merged : p \notin points[c]

(* The list has every detected cluster once, and then every one that stays.*)
Lists ==
  /\ list \in Seq(Names) /\ IsInjective(list)
  /\ ToSet(list) = IF Over THEN Alive ELSE Detected
  /\ Over => m = input.olds + 1 \/ Listed = {}

(* Unless they are shown, the clusters are in the order of their ids when  *)
(* the last one is asked for its id.                                       *)
Ids ==
  /\ id \in [Names -> Nat] /\ current_id \in Nat
  /\ \A c \in Detected : id[c] = c
  /\ input.verbosity # "details" =>
       /\ pc \in {"sort", "check", "filter"} => list = [n \in Detected |-> n]
       /\ pc = "filter" => input.count <= current_id
       /\ \A c \in merged : input.count < id[c] /\ id[c] <= current_id
       /\ \A c, d \in merged : id[c] = id[d] => c = d

IInv == Progress /\ Contents /\ Owned /\ Lists /\ Ids

-----------------------------------------------------------------------------
(* An order of a finite set has each element in one place.                 *)
LEMMA Orders ==
  ASSUME NEW S, IsFiniteSet(S), NEW f \in SetToSeqs(S)
  PROVE  f \in Seq(S) /\ IsInjective(f) /\ ToSet(f) = S
  <1> DEFINE D == 1 .. Cardinality(S)
  <1>1. Cardinality(S) \in Nat
    BY FS_CardinalityType
  <1>2. f \in [D -> S] /\ \A i, j \in D : i # j => f[i] # f[j]
    BY DEF SetToSeqs
  <1>3. IsInjective(f)
    BY <1>2 DEF IsInjective
  <1>4. f \in Injection(D, S)
    BY <1>2, <1>3 DEF Injection
  <1>5. Cardinality(D) = Cardinality(S)
    BY <1>1, FS_Interval
  <1>6. f \in Surjection(D, S)
    BY <1>4, <1>5, FS_Injection
  <1>7. ToSet(f) = S
    BY <1>2, <1>6 DEF Surjection, ToSet
  <1>8. f \in Seq(S)
    BY <1>1, <1>2
  <1> QED
    BY <1>3, <1>7, <1>8

(* Two sequences without common elements, one behind the other.            *)
LEMMA Joined ==
  ASSUME NEW S, NEW s \in Seq(S), NEW t \in Seq(S), IsInjective(s), IsInjective(t),
         ToSet(s) \cap ToSet(t) = {}
  PROVE  s \o t \in Seq(S) /\ IsInjective(s \o t) /\ ToSet(s \o t) = ToSet(s) \cup ToSet(t)
  <1>1. s \o t \in Seq(S) /\ Len(s \o t) = Len(s) + Len(t)
    OBVIOUS
  <1>2. /\ DOMAIN s = 1 .. Len(s) /\ DOMAIN t = 1 .. Len(t)
        /\ DOMAIN (s \o t) = 1 .. Len(s) + Len(t)
        /\ Len(s) \in Nat /\ Len(t) \in Nat
    BY <1>1
  <1>3. /\ \A i \in 1 .. Len(s) : (s \o t)[i] = s[i]
        /\ \A i \in 1 .. Len(t) : (s \o t)[Len(s) + i] = t[i]
    OBVIOUS
  <1>4. \A i \in 1 .. Len(s) + Len(t) :
          \/ i \in DOMAIN s /\ (s \o t)[i] = s[i]
          \/ i - Len(s) \in DOMAIN t /\ i > Len(s) /\ (s \o t)[i] = t[i - Len(s)]
    <2> SUFFICES ASSUME NEW i \in 1 .. Len(s) + Len(t), i \notin 1 .. Len(s)
                 PROVE  i - Len(s) \in DOMAIN t /\ i > Len(s) /\ (s \o t)[i] = t[i - Len(s)]
      BY <1>2, <1>3
    <2>1. i - Len(s) \in 1 .. Len(t) /\ i > Len(s) /\ Len(s) + (i - Len(s)) = i
      BY <1>2
    <2> QED
      BY <1>2, <1>3, <2>1
  <1>5. ToSet(s \o t) = ToSet(s) \cup ToSet(t)
    <2>1. \A x \in ToSet(s \o t) : x \in ToSet(s) \cup ToSet(t)
      BY <1>2, <1>4 DEF ToSet
    <2>2. \A x \in ToSet(s) : x \in ToSet(s \o t)
      BY <1>2, <1>3 DEF ToSet
    <2>3. ASSUME NEW x \in ToSet(t)
          PROVE  x \in ToSet(s \o t)
      <3>1. PICK i \in 1 .. Len(t) : x = t[i]
        BY <1>2 DEF ToSet
      <3>2. Len(s) + i \in DOMAIN (s \o t) /\ (s \o t)[Len(s) + i] = x
        BY <1>2, <1>3, <3>1
      <3> QED
        BY <3>2 DEF ToSet
    <2> QED
      BY <2>1, <2>2, <2>3
  <1>6. IsInjective(s \o t)
    <2> SUFFICES ASSUME NEW a \in DOMAIN (s \o t), NEW b \in DOMAIN (s \o t),
                        (s \o t)[a] = (s \o t)[b]
                 PROVE  a = b
      BY DEF IsInjective
    <2>1. \A i \in DOMAIN s : s[i] \notin ToSet(t)
      BY DEF ToSet
    <2>2. \A i \in DOMAIN t : t[i] \in ToSet(t)
      BY DEF ToSet
    <2>3. CASE a \in DOMAIN s /\ (s \o t)[a] = s[a]
      <3>1. b \in DOMAIN s /\ (s \o t)[b] = s[b]
        BY <1>2, <1>4, <2>1, <2>2, <2>3
      <3> QED
        BY <2>3, <3>1 DEF IsInjective
    <2>4. CASE a - Len(s) \in DOMAIN t /\ (s \o t)[a] = t[a - Len(s)]
      <3>1. b - Len(s) \in DOMAIN t /\ (s \o t)[b] = t[b - Len(s)]
        BY <1>2, <1>4, <2>1, <2>2, <2>4
      <3>2. a - Len(s) = b - Len(s)
        BY <2>4, <3>1 DEF IsInjective
      <3> QED
        BY <1>2, <3>2
    <2> QED
      BY <1>2, <1>4, <2>3, <2>4
  <1> QED
    BY <1>1, <1>5, <1>6

(* What is where: detected clusters before merged ones, all of them named. *)
LEMMA Sets ==
  ASSUME Progress
  PROVE  /\ New \in Nat /\ Olds \in Nat /\ input.count \in 0 .. New /\ input.olds \in 0 .. Olds
         /\ m \in Nat /\ Names \subseteq Nat
         /\ Detected \subseteq 1 .. New /\ Detected \subseteq Names
         /\ \A o : Candidates(o) \subseteq Detected
         /\ Met \subseteq 1 .. input.olds /\ Met \subseteq 1 .. Olds /\ Met \subseteq 1 .. m - 1
         /\ merged \subseteq Names /\ merged \cap 1 .. New = {}
         /\ erased \subseteq Detected
         /\ Alive \subseteq Names
         /\ IsFiniteSet(Detected) /\ IsFiniteSet(merged) /\ IsFiniteSet(Alive)
         /\ \A c \in Detected : input.points[c] \subseteq Points
  <1>1. New \in Nat /\ Olds \in Nat
    BY FilterAssumption
  <1>2. /\ input.count \in 0 .. New /\ input.olds \in 0 .. Olds
        /\ input.points \in [1 .. New -> SUBSET Points]
    BY DEF Progress, InputType
  <1>3. m \in Nat /\ Names \subseteq Nat /\ m - 1 <= input.olds
    BY <1>1, <1>2 DEF Progress, Names
  <1>4. Detected \subseteq 1 .. New /\ Detected \subseteq Names
    BY <1>1, <1>2 DEF Detected, Names
  <1>5. \A o : Candidates(o) \subseteq Detected
    BY DEF Candidates
  <1>6. Met \subseteq 1 .. m - 1 /\ Met \subseteq 1 .. input.olds /\ Met \subseteq 1 .. Olds
    BY <1>1, <1>2, <1>3 DEF Met
  <1>7. merged \subseteq Names /\ merged \cap 1 .. New = {}
    <2>1. \A o \in 1 .. Olds : New + o \in Names /\ New + o \notin 1 .. New
      BY <1>1 DEF Names
    <2> QED
      BY <1>6, <2>1 DEF Progress
  <1>8. erased \subseteq Detected
    BY <1>5 DEF Progress
  <1>9. Alive \subseteq Names
    BY <1>4, <1>7 DEF Alive
  <1>10. IsFiniteSet(Names)
    BY <1>1, FS_Interval DEF Names
  <1>11. IsFiniteSet(Detected) /\ IsFiniteSet(merged) /\ IsFiniteSet(Alive)
    BY <1>4, <1>7, <1>9, <1>10, FS_Subset
  <1>12. \A c \in Detected : input.points[c] \subseteq Points
    BY <1>2, <1>4
  <1> QED
    BY <1>1, <1>2, <1>3, <1>4, <1>5, <1>6, <1>7, <1>8, <1>9, <1>11, <1>12

-----------------------------------------------------------------------------
(* The detection hands its clusters over as it made them.                  *)
LEMMA InitInv == Init => IInv
  <1> SUFFICES ASSUME Init PROVE IInv
    OBVIOUS
  <1> USE DEF Init
  <1>1. input \in InputType /\ input.count \in 0 .. New /\ input.olds \in 0 .. Olds
        /\ New \in Nat /\ Olds \in Nat
    BY FilterAssumption DEF InputType
  <1>2. Met = {}
    BY DEF Met
  <1>3. Progress
    BY <1>1, <1>2 DEF Progress
  <1>4. Alive = Detected
    BY DEF Alive
  <1>5. Contents
    BY <1>1, <1>2, <1>3, Sets DEF Contents
  <1>6. Owned
    <2>1. owner \in [Points -> Names \cup {0}]
      BY <1>3, Sets
    <2>2. ASSUME NEW p \in Points
          PROVE  \/ owner[p] \in Alive /\ p \in points[owner[p]]
                 \/ owner[p] = 0 /\ \A c \in Detected \cup merged : p \notin points[c]
      <3>1. CASE \E c \in Detected : p \in input.points[c]
        <4>1. owner[p] \in Detected /\ p \in input.points[owner[p]]
          BY <3>1
        <4> QED
          BY <1>4, <1>5, <4>1 DEF Contents
      <3>2. CASE ~\E c \in Detected : p \in input.points[c]
        BY <3>2, <1>5 DEF Contents
      <3> QED
        BY <3>1, <3>2
    <2> QED
      BY <2>1, <2>2 DEF Owned
  <1>7. Lists
    <2>1. DOMAIN list = Detected /\ \A n \in Detected : list[n] = n
      OBVIOUS
    <2>2. list \in Seq(Names)
      <3>1. Detected \subseteq Names
        BY <1>3, Sets
      <3>2. list \in [Detected -> Names]
        BY <3>1
      <3>3. input.count \in Nat /\ Detected = 1 .. input.count
        BY <1>1 DEF Detected
      <3> HIDE DEF Init
      <3> QED
        BY <3>2, <3>3
    <2>3. ToSet(list) = Detected /\ IsInjective(list)
      BY <2>1, <2>2 DEF ToSet, IsInjective
    <2> QED
      BY <2>2, <2>3 DEF Lists, Over
  <1>8. Ids
    <2>1. Names \subseteq Nat /\ Detected \subseteq Names
      BY <1>3, Sets
    <2>2. \A c \in Names : (IF c \in Detected THEN c ELSE 0) \in Nat
      BY <2>1
    <2>3. id \in [Names -> Nat] /\ \A c \in Detected : id[c] = c
      BY <2>1, <2>2
    <2>4. merged = {}
      OBVIOUS
    <2>5. current_id \in Nat /\ list = [n \in Detected |-> n] /\ pc = "sort"
      OBVIOUS
    <2> QED
      BY <2>3, <2>4, <2>5 DEF Ids
  <1> QED
    BY <1>3, <1>5, <1>6, <1>7, <1>8 DEF IInv

(* Printing the list may sort it, and does nothing else.                   *)
LEMMA ShowInv == IInv /\ Show => IInv'
  <1> SUFFICES ASSUME IInv, Show PROVE IInv'
    OBVIOUS
  <1>1. /\ input' = input /\ m' = m /\ current_id' = current_id
        /\ erased' = erased /\ merged' = merged
        /\ points' = points /\ id' = id /\ owner' = owner
        /\ pc \in {"sort", "print"} /\ pc' = IF pc = "sort" THEN "check" ELSE "write"
        /\ Detected' = Detected
    BY DEF Show, loop, clusters, Detected
  <1>2. \A o : Candidates(o)' = Candidates(o) /\ Union(o)' = Union(o)
    BY <1>1 DEF Candidates, Covers, Overlap, Union
  <1>3. Met' = Met /\ Alive' = Alive /\ Over' = Over
    BY <1>1, <1>2 DEF Met, Alive, Over
  <1>4. Progress'
    BY <1>1, <1>2, <1>3 DEF IInv, Progress
  <1>5. Contents'
    BY <1>1, <1>2, <1>3 DEF IInv, Contents
  <1>6. Owned'
    BY <1>1, <1>3 DEF IInv, Owned
  <1>7. /\ list' \in Seq(Names) /\ IsInjective(list') /\ ToSet(list') = ToSet(list)
        /\ input.verbosity # "details" => list' = list
    <2>1. CASE input.verbosity = "details"
      <3>1. list' \in SetToSeqs(ToSet(list))
        BY <2>1 DEF Show, BySize
      <3>2. IsFiniteSet(ToSet(list)) /\ ToSet(list) \subseteq Names
        BY Sets DEF IInv, Lists
      <3>3. list' \in Seq(ToSet(list)) /\ IsInjective(list') /\ ToSet(list') = ToSet(list)
        BY <3>1, <3>2, Orders
      <3> QED
        BY <2>1, <3>2, <3>3
    <2>2. CASE input.verbosity # "details"
      BY <2>2 DEF Show, IInv, Lists
    <2> QED
      BY <2>1, <2>2
  <1>8. Lists'
    BY <1>1, <1>3, <1>7 DEF IInv, Lists, Listed
  <1>9. Ids'
    <2>1. input.verbosity # "details" /\ pc' \in {"sort", "check", "filter"} => pc = "sort"
      BY <1>1
    <2> QED
      BY <1>1, <1>7, <2>1 DEF IInv, Ids
  <1> QED
    BY <1>4, <1>5, <1>6, <1>8, <1>9 DEF IInv

(* What has begun counts on from the id of the last cluster.               *)
LEMMA CheckInv == IInv /\ Check => IInv'
  <1> SUFFICES ASSUME IInv, Check PROVE IInv'
    OBVIOUS
  <1>1. /\ input' = input /\ m' = m /\ list' = list
        /\ erased' = erased /\ merged' = merged
        /\ points' = points /\ id' = id /\ owner' = owner
        /\ pc = "check" /\ pc' \in {"print", "crashed", "filter"}
        /\ Detected' = Detected /\ m = 1
    BY DEF Check, clusters, Detected, IInv, Progress
  <1>2. \A o : Candidates(o)' = Candidates(o) /\ Union(o)' = Union(o)
    BY <1>1 DEF Candidates, Covers, Overlap, Union
  <1>3. Met' = Met /\ Alive' = Alive /\ Met = {} /\ merged = {} /\ Alive = Detected
    BY <1>1, <1>2 DEF Met, Alive, IInv, Progress
  <1>4. Progress'
    BY <1>1, <1>2, <1>3 DEF IInv, Progress
  <1>5. Contents'
    BY <1>1, <1>2, <1>3 DEF IInv, Contents
  <1>6. Owned'
    BY <1>1, <1>3 DEF IInv, Owned
  <1>7. Lists'
    <2>1. list \in Seq(Names) /\ IsInjective(list) /\ ToSet(list) = Detected
      BY <1>1 DEF IInv, Lists, Over
    <2>2. Over' => list = <<>> \/ input.olds = 0
      BY <1>1 DEF Check, Over
    <2>3. input.olds = 0 => m = input.olds + 1
      BY <1>1
    <2>4. list = <<>> => Listed = {}
      BY DEF Listed, ToSet
    <2> QED
      BY <1>1, <1>3, <2>1, <2>2, <2>3, <2>4 DEF Lists, Listed
  <1>8. current_id' \in Nat /\ (input.verbosity # "details" /\ pc' = "filter" => input.count <= current_id')
    <2>1. CASE list = <<>>
      <3>1. current_id' = current_id
        BY <2>1 DEF Check
      <3>2. Detected = {}
        BY <1>1, <2>1 DEF IInv, Lists, Over, ToSet
      <3>3. input.count = 0
        BY <3>2, Sets DEF IInv, Detected
      <3> QED
        BY <3>1, <3>3 DEF IInv, Ids
    <2>2. CASE list # <<>> /\ pc' = "filter"
      <3>1. current_id' = id[Last(list)]
        BY <2>2 DEF Check
      <3>2. list \in Seq(Names) /\ Len(list) \in Nat /\ Len(list) >= 1
        BY <2>2 DEF IInv, Lists
      <3>3. Last(list) = list[Len(list)] /\ Last(list) \in Names
        BY <3>2 DEF Last
      <3>4. current_id' \in Nat
        BY <3>1, <3>3 DEF IInv, Ids
      <3>5. ASSUME input.verbosity # "details"
            PROVE  input.count <= current_id'
        <4>1. list = [n \in Detected |-> n]
          BY <1>1, <3>5 DEF IInv, Ids
        <4>2. DOMAIN list = Detected /\ DOMAIN list = 1 .. Len(list) /\ input.count \in Nat
          BY <3>2, <4>1, Sets DEF IInv
        <4>3. Len(list) = input.count
          BY <3>2, <4>2 DEF Detected
        <4>4. Last(list) = input.count /\ input.count \in Detected
          BY <3>2, <3>3, <4>1, <4>2, <4>3
        <4>5. id[input.count] = input.count
          BY <4>4 DEF IInv, Ids
        <4> QED
          BY <3>1, <4>2, <4>4, <4>5
      <3> QED
        BY <3>4, <3>5
    <2>3. CASE list # <<>> /\ pc' # "filter"
      BY <2>3 DEF Check, IInv, Ids
    <2> QED
      BY <2>1, <2>2, <2>3
  <1>9. Ids'
    BY <1>1, <1>3, <1>8 DEF IInv, Ids
  <1> QED
    BY <1>4, <1>5, <1>6, <1>7, <1>9 DEF IInv

-----------------------------------------------------------------------------
(* The merged clusters have the ids from current_id on, which counts each. *)
LEMMA FilterInv == IInv /\ Filter => IInv'
  <1> SUFFICES ASSUME IInv, Filter PROVE IInv'
    OBVIOUS
  <1> DEFINE c == New + m
             Found == Cardinality(Candidates(m)) > 1
  <1>1. /\ input' = input /\ m' = m + 1 /\ list' = list
        /\ pc = "filter" /\ pc' = "filter" /\ m <= input.olds
        /\ Detected' = Detected
    BY DEF Filter, Detected
  <1>2. \A o : Candidates(o)' = Candidates(o) /\ Union(o)' = Union(o)
    BY <1>1 DEF Candidates, Covers, Overlap, Union
  <1>3. m \in 1 .. input.olds /\ m \in 1 .. Olds /\ New \in Nat /\ c \in Nat
    BY <1>1, Sets DEF IInv, Progress
  <1>4. c \in Names /\ c \notin 1 .. New /\ c \notin Detected /\ c \notin merged
    <2>1. c \in Names /\ c \notin 1 .. New
      BY <1>3, Sets DEF IInv, Names
    <2>2. c \notin Detected
      BY <2>1, Sets DEF IInv
    <2>3. \A o \in Met : o \in Nat /\ o # m
      BY <1>3, Sets DEF IInv
    <2>4. c \notin merged
      BY <1>3, <2>3 DEF IInv, Progress
    <2> QED
      BY <2>1, <2>2, <2>4
  <1>5. Met' = IF Found THEN Met \cup {m} ELSE Met
    <2>1. 1 .. m' - 1 = (1 .. m - 1) \cup {m}
      BY <1>1, <1>3
    <2> QED
      BY <1>2, <2>1 DEF Met
  <1>6. /\ Found => /\ points' = [points EXCEPT ![c] = UNION {points[n] : n \in Candidates(m)}]
                    /\ owner' = [p \in Points |-> IF p \in points'[c] THEN c ELSE owner[p]]
                    /\ id' = [id EXCEPT ![c] = current_id + 1]
                    /\ current_id' = current_id + 1
                    /\ merged' = merged \cup {c}
                    /\ erased' = erased \cup Candidates(m)
        /\ ~Found => /\ points' = points /\ owner' = owner /\ id' = id
                     /\ current_id' = current_id /\ merged' = merged /\ erased' = erased
    BY DEF Filter, Merge
  <1>7. Progress'
    <2>1. m' \in 1 .. input.olds + 1
      BY <1>1, <1>3, Sets DEF IInv
    <2>2. merged' = {New + o : o \in Met'}
      BY <1>5, <1>6 DEF IInv, Progress
    <2>3. erased' = UNION {Candidates(o) : o \in Met'}
      BY <1>5, <1>6 DEF IInv, Progress
    <2> QED
      BY <1>1, <1>2, <2>1, <2>2, <2>3 DEF IInv, Progress
  <1>8. UNION {points[n] : n \in Candidates(m)} = Union(m) /\ Union(m) \subseteq Points
    <2>1. Candidates(m) \subseteq Detected /\ \A n \in Detected : points[n] = input.points[n]
      BY Sets DEF IInv, Contents
    <2>2. \A n \in Detected : input.points[n] \subseteq Points
      BY Sets DEF IInv
    <2> QED
      BY <2>1, <2>2 DEF Union
  <1>9. Contents'
    <2>1. CASE Found
      <3>1. points' \in [Names -> SUBSET Points] /\ points'[c] = Union(m)
            /\ \A d \in Names \ {c} : points'[d] = points[d]
        <4>1. points \in [Names -> SUBSET Points]
          BY DEF IInv, Contents
        <4>2. points' = [points EXCEPT ![c] = Union(m)]
          BY <1>6, <1>8, <2>1
        <4> HIDE DEF c
        <4> QED
          BY <1>4, <1>8, <4>1, <4>2
      <3>2. \A d \in Detected : points'[d] = input.points[d]
        BY <1>4, <3>1, Sets DEF IInv, Contents
      <3>3. \A o \in Met : New + o \in merged
        BY DEF IInv, Progress
      <3>4. \A o \in Met : points'[New + o] = Union(o)
        BY <1>4, <3>1, <3>3, Sets DEF IInv, Contents
      <3>5. \A o \in Met \cup {m} : points'[New + o] = Union(o)
        BY <3>1, <3>4
      <3> QED
        BY <1>1, <1>2, <1>5, <2>1, <3>1, <3>2, <3>5 DEF Contents
    <2>2. CASE ~Found
      BY <1>1, <1>2, <1>5, <1>6, <2>2 DEF IInv, Contents
    <2> QED
      BY <2>1, <2>2
  <1>10. Owned'
    <2>1. CASE Found
      <3>1. points'[c] = Union(m) /\ (\A d \in Names \ {c} : points'[d] = points[d])
        BY <1>4, <1>6, <1>8, <2>1 DEF IInv, Contents
      <3>2. owner' = [p \in Points |-> IF p \in Union(m) THEN c ELSE owner[p]]
        BY <1>6, <2>1, <3>1
      <3>3. owner' \in [Points -> Names \cup {0}]
        BY <1>4, <3>2 DEF IInv, Owned
      <3>4. Alive' = (Detected \ (erased \cup Candidates(m))) \cup (merged \cup {c})
        BY <1>1, <1>6, <2>1 DEF Alive
      <3>5. Detected \subseteq Names /\ merged \subseteq Names /\ Alive \subseteq Names
        BY Sets DEF IInv
      <3>6. ASSUME NEW p \in Points
            PROVE  \/ owner'[p] \in Alive' /\ p \in points'[owner'[p]]
                   \/ owner'[p] = 0 /\ \A d \in Detected \cup merged' : p \notin points'[d]
        <4>1. CASE p \in Union(m)
          BY <3>1, <3>2, <3>4, <4>1
        <4>2. CASE p \notin Union(m)
          <5>1. owner'[p] = owner[p]
            BY <3>2, <4>2
          <5>2. CASE owner[p] \in Alive /\ p \in points[owner[p]]
            <6>1. owner[p] # c /\ owner[p] \in Names
              BY <1>4, <3>5, <5>2 DEF Alive
            <6>2. owner[p] \notin Candidates(m)
              BY <1>8, <4>2, <5>2
            <6>3. owner[p] \in Alive'
              BY <3>4, <5>2, <6>2 DEF Alive
            <6> QED
              BY <3>1, <5>1, <5>2, <6>1, <6>3
          <5>3. CASE owner[p] = 0 /\ \A d \in Detected \cup merged : p \notin points[d]
            <6>1. \A d \in Detected \cup merged : p \notin points'[d]
              BY <1>4, <3>1, <3>5, <5>3
            <6> QED
              BY <1>6, <2>1, <3>1, <4>2, <5>1, <5>3, <6>1
          <5> QED
            BY <5>2, <5>3 DEF IInv, Owned
        <4> QED
          BY <4>1, <4>2
      <3> QED
        BY <1>1, <3>3, <3>6 DEF Owned
    <2>2. CASE ~Found
      <3>1. Alive' = Alive
        BY <1>1, <1>6, <2>2 DEF Alive
      <3> QED
        BY <1>1, <1>6, <2>2, <3>1 DEF IInv, Owned
    <2> QED
      BY <2>1, <2>2
  <1>11. Lists'
    BY <1>1 DEF IInv, Lists, Over
  <1>12. Ids'
    <2>1. CASE Found
      <3>1. current_id \in Nat /\ id \in [Names -> Nat]
        BY DEF IInv, Ids
      <3>2. id'[c] = current_id + 1 /\ (\A d \in Names \ {c} : id'[d] = id[d])
            /\ id' \in [Names -> Nat] /\ current_id' = current_id + 1 /\ current_id' \in Nat
        BY <1>4, <1>6, <2>1, <3>1
      <3>3. Detected \subseteq Names /\ merged \subseteq Names /\ c \notin Detected
            /\ c \notin merged /\ merged' = merged \cup {c}
        BY <1>4, <1>6, <2>1, Sets DEF IInv
      <3>4. \A d \in Detected : id'[d] = d
        BY <3>2, <3>3 DEF IInv, Ids
      <3>5. ASSUME input.verbosity # "details"
            PROVE  /\ list' = [n \in Detected |-> n] /\ input.count <= current_id'
                   /\ \A d \in merged' : input.count < id'[d] /\ id'[d] <= current_id'
                   /\ \A d, e \in merged' : id'[d] = id'[e] => d = e
        <4>1. /\ list = [n \in Detected |-> n] /\ input.count <= current_id /\ input.count \in Nat
              /\ \A d \in merged : input.count < id[d] /\ id[d] <= current_id
              /\ \A d, e \in merged : id[d] = id[e] => d = e
          BY <1>1, <3>5, Sets DEF IInv, Ids
        <4>2. \A d \in merged : id'[d] = id[d] /\ id[d] \in Nat
          BY <3>1, <3>2, <3>3
        <4>3. \A d \in merged' : input.count < id'[d] /\ id'[d] <= current_id'
          BY <3>1, <3>2, <3>3, <4>1, <4>2
        <4>4. \A d \in merged : id'[d] # id'[c]
          BY <3>1, <3>2, <4>1, <4>2
        <4>5. \A d, e \in merged' : id'[d] = id'[e] => d = e
          BY <3>3, <4>1, <4>2, <4>4
        <4> QED
          BY <1>1, <3>1, <3>2, <4>1, <4>3, <4>5
      <3> QED
        BY <1>1, <3>2, <3>4, <3>5 DEF Ids
    <2>2. CASE ~Found
      BY <1>1, <1>6, <2>2 DEF IInv, Ids
    <2> QED
      BY <2>1, <2>2
  <1> QED
    BY <1>7, <1>9, <1>10, <1>11, <1>12 DEF IInv

(* What is listed in the end is what stays.                                *)
LEMMA ReplaceInv == IInv /\ Replace => IInv'
  <1> SUFFICES ASSUME IInv, Replace PROVE IInv'
    OBVIOUS
  <1>1. /\ input' = input /\ m' = m /\ current_id' = current_id
        /\ erased' = erased /\ merged' = merged
        /\ points' = points /\ id' = id /\ owner' = owner
        /\ pc = "filter" /\ pc' = "print" /\ m > input.olds
        /\ Detected' = Detected
    BY DEF Replace, loop, clusters, Detected
  <1>2. \A o : Candidates(o)' = Candidates(o) /\ Union(o)' = Union(o)
    BY <1>1 DEF Candidates, Covers, Overlap, Union
  <1>3. Met' = Met /\ Alive' = Alive /\ Over' /\ ~Over
    BY <1>1, <1>2 DEF Met, Alive, Over
  <1>4. Progress'
    BY <1>1, <1>2, <1>3 DEF IInv, Progress
  <1>5. Contents'
    BY <1>1, <1>2, <1>3 DEF IInv, Contents
  <1>6. Owned'
    BY <1>1, <1>3 DEF IInv, Owned
  <1>7. list' \in Seq(Names) /\ IsInjective(list') /\ ToSet(list') = Alive
    <2>1. PICK kept \in SetToSeqs(ToSet(list) \ erased), new \in SetToSeqs(merged) :
            list' = kept \o new
      BY DEF Replace
    <2>2. ToSet(list) = Detected
      BY <1>3 DEF IInv, Lists
    <2>3. /\ IsFiniteSet(Detected \ erased) /\ IsFiniteSet(merged)
          /\ Detected \ erased \subseteq Names /\ merged \subseteq Names
          /\ (Detected \ erased) \cap merged = {}
      BY Sets, FS_Difference DEF IInv
    <2>4. kept \in Seq(Detected \ erased) /\ IsInjective(kept) /\ ToSet(kept) = Detected \ erased
      BY <2>1, <2>2, <2>3, Orders
    <2>5. new \in Seq(merged) /\ IsInjective(new) /\ ToSet(new) = merged
      BY <2>1, <2>3, Orders
    <2>6. kept \in Seq(Names) /\ new \in Seq(Names)
      BY <2>3, <2>4, <2>5
    <2> QED
      BY <2>1, <2>3, <2>4, <2>5, <2>6, Joined DEF Alive
  <1>8. m' = input'.olds + 1
    BY <1>1, Sets DEF IInv, Progress
  <1>9. Lists'
    BY <1>1, <1>3, <1>7, <1>8 DEF Lists
  <1>10. Ids'
    BY <1>1 DEF IInv, Ids
  <1> QED
    BY <1>4, <1>5, <1>6, <1>9, <1>10 DEF IInv

(* Writing changes no cluster.                                             *)
LEMMA WriteInv == IInv /\ Write => IInv'
  <1> SUFFICES ASSUME IInv, Write PROVE IInv'
    OBVIOUS
  <1>1. /\ input' = input /\ m' = m /\ current_id' = current_id /\ list' = list
        /\ erased' = erased /\ merged' = merged
        /\ points' = points /\ id' = id /\ owner' = owner
        /\ pc = "write" /\ pc' \in {"written", "exited"}
        /\ Detected' = Detected
    BY DEF Write, loop, clusters, Detected
  <1>2. \A o : Candidates(o)' = Candidates(o) /\ Union(o)' = Union(o)
    BY <1>1 DEF Candidates, Covers, Overlap, Union
  <1>3. Met' = Met /\ Alive' = Alive /\ Over' /\ Over
    BY <1>1, <1>2 DEF Met, Alive, Over
  <1>4. Progress'
    BY <1>1, <1>2, <1>3 DEF IInv, Progress
  <1>5. Contents'
    BY <1>1, <1>2, <1>3 DEF IInv, Contents
  <1>6. Owned'
    BY <1>1, <1>3 DEF IInv, Owned
  <1>7. Lists'
    BY <1>1, <1>3 DEF IInv, Lists, Listed
  <1>8. Ids'
    BY <1>1 DEF IInv, Ids
  <1> QED
    BY <1>4, <1>5, <1>6, <1>7, <1>8 DEF IInv

-----------------------------------------------------------------------------
(* The invariant holds whatever the filter is given.                       *)
THEOREM Inductive == Spec => []IInv
  <1>1. IInv /\ [Next]_vars => IInv'
    <2> SUFFICES ASSUME IInv, [Next]_vars PROVE IInv'
      OBVIOUS
    <2>1. CASE Show
      BY <2>1, ShowInv
    <2>2. CASE Check
      BY <2>2, CheckInv
    <2>3. CASE Filter
      BY <2>3, FilterInv
    <2>4. CASE Replace
      BY <2>4, ReplaceInv
    <2>5. CASE Write
      BY <2>5, WriteInv
    <2>6. CASE UNCHANGED vars
      <3>1. /\ input' = input /\ m' = m /\ current_id' = current_id /\ list' = list
            /\ erased' = erased /\ merged' = merged /\ pc' = pc
            /\ points' = points /\ id' = id /\ owner' = owner
            /\ Detected' = Detected
        BY <2>6 DEF vars, loop, clusters, Detected
      <3>2. \A o : Candidates(o)' = Candidates(o) /\ Union(o)' = Union(o)
        BY <3>1 DEF Candidates, Covers, Overlap, Union
      <3>3. Met' = Met /\ Alive' = Alive /\ Over' = Over /\ Listed' = Listed
        BY <3>1, <3>2 DEF Met, Alive, Over, Listed
      <3>4. Progress' /\ Contents'
        BY <3>1, <3>2, <3>3 DEF IInv, Progress, Contents
      <3>5. Owned' /\ Lists' /\ Ids'
        BY <3>1, <3>3 DEF IInv, Owned, Lists, Ids
      <3> QED
        BY <3>4, <3>5 DEF IInv
    <2> QED
      BY <2>1, <2>2, <2>3, <2>4, <2>5, <2>6 DEF Next
  <1> QED
    BY <1>1, InitInv, PTL DEF Spec

(* Every cluster is in the list once, all along.                           *)
THEOREM FilterTypes == Spec => []TypeOK
  <1>1. IInv => TypeOK
    <2> SUFFICES ASSUME IInv PROVE TypeOK
      OBVIOUS
    <2>1. input \in InputType
          /\ pc \in {"sort", "check", "filter", "print", "write", "written", "exited", "crashed"}
      BY DEF IInv, Progress
    <2>2. list \in Seq(Names) /\ IsInjective(list)
      BY DEF IInv, Lists
    <2>3. m \in 1 .. Olds + 1 /\ current_id \in Nat
      BY Sets DEF IInv, Progress, Ids
    <2>4. erased \subseteq 1 .. New /\ merged \subseteq Names \ 1 .. New
      BY Sets DEF IInv
    <2>5. points \in [Names -> SUBSET Points] /\ id \in [Names -> Nat]
          /\ owner \in [Points -> Names \cup {0}]
      BY DEF IInv, Contents, Ids, Owned
    <2> QED
      BY <2>1, <2>2, <2>3, <2>4, <2>5 DEF TypeOK
  <1> QED
    BY <1>1, Inductive, PTL

(* What is listed in the end: the detected clusters that are no parts, and *)
(* the merged ones, each of which has the points of its parts.             *)
LEMMA InTheEnd ==
  ASSUME IInv, Over
  PROVE  /\ Listed = Alive
         /\ \A c \in Detected : points[c] = input.points[c]
         /\ \A c \in merged : \E o \in Met : c = New + o /\ points[c] = Union(o)
         /\ \A o \in Met : New + o \in merged /\ points[New + o] = Union(o)
  BY DEF IInv, Lists, Listed, Contents, Progress

(* Erasing the parts and adding what they were merged to loses no point    *)
(* and invents none.                                                       *)
THEOREM NothingIsLost == Spec => []NothingLost
  <1>1. IInv => NothingLost
    <2> SUFFICES ASSUME IInv, Over
                 PROVE  UNION {points[c] : c \in Listed} = UNION {input.points[c] : c \in Detected}
      BY DEF NothingLost
    <2>1. ASSUME NEW c \in Listed, NEW p \in points[c]
          PROVE  \E d \in Detected : p \in input.points[d]
      <3>1. CASE c \in Detected
        BY <2>1, <3>1, InTheEnd
      <3>2. CASE c \in merged
        <4>1. PICK o \in Met : points[c] = Union(o)
          BY <3>2, InTheEnd
        <4>2. PICK n \in Candidates(o) : p \in input.points[n]
          BY <2>1, <4>1 DEF Union
        <4> QED
          BY <4>2, Sets DEF IInv
      <3> QED
        BY <3>1, <3>2, InTheEnd DEF Alive
    <2>2. ASSUME NEW d \in Detected, NEW p \in input.points[d]
          PROVE  \E c \in Listed : p \in points[c]
      <3>1. CASE d \notin erased
        BY <2>2, <3>1, InTheEnd DEF Alive
      <3>2. CASE d \in erased
        <4>1. PICK o \in Met : d \in Candidates(o)
          BY <3>2 DEF IInv, Progress
        <4>2. p \in Union(o)
          BY <2>2, <4>1 DEF Union
        <4> QED
          BY <4>1, <4>2, InTheEnd DEF Alive
      <3> QED
        BY <3>1, <3>2
    <2> QED
      BY <2>1, <2>2
  <1> QED
    BY <1>1, Inductive, PTL

(* The parts of a previous cluster that touch each other are together in   *)
(* one cluster, also when one of them is a part of another previous cluster*)
(* as well.                                                                *)
THEOREM SplitsAreTogether == Spec => []SplitsTogether
  <1>1. IInv => SplitsTogether
    <2> SUFFICES ASSUME IInv, Over, Listed # {}, NEW o \in 1 .. input.olds,
                        Cardinality(Candidates(o)) > 1
                 PROVE  \E c \in Listed : \A n \in Candidates(o) :
                          Adjoins(n, o) => input.points[n] \subseteq points[c]
      BY DEF SplitsTogether
    <2>1. m = input.olds + 1
      BY DEF IInv, Lists
    <2>2. o \in Met
      BY <2>1, Sets DEF IInv, Met
    <2>3. New + o \in Listed /\ points[New + o] = Union(o)
      BY <2>2, InTheEnd DEF Alive
    <2>4. \A n \in Candidates(o) : input.points[n] \subseteq Union(o)
      BY DEF Union
    <2> QED
      BY <2>3, <2>4
  <1> QED
    BY <1>1, Inductive, PTL

(* No point of a cluster is left with a pointer to one that was deleted.   *)
THEOREM OwnersAreListed == Spec => []OwnersListed
  <1>1. IInv => OwnersListed
    <2> SUFFICES ASSUME IInv, Over, NEW c \in Listed, NEW p \in points[c]
                 PROVE  owner[p] \in Listed /\ p \in points[owner[p]]
      BY DEF OwnersListed
    <2>1. c \in Detected \cup merged /\ c \in Names
      BY InTheEnd, Sets DEF IInv, Alive
    <2>2. p \in Points
      BY <2>1 DEF IInv, Contents
    <2> QED
      BY <2>1, <2>2, InTheEnd DEF IInv, Owned
  <1> QED
    BY <1>1, Inductive, PTL

(* Unless the list is shown, and sorted by that, no two clusters have an   *)
(* id in common, and the list can be written.                              *)
THEOREM AlwaysWritten == Spec => []CanBeWritten
  <1>1. IInv => CanBeWritten
    <2> SUFFICES ASSUME IInv, Over, input.verbosity # "details",
                        NEW c \in Listed, NEW d \in Listed, c # d
                 PROVE  id[c] # id[d]
      BY DEF CanBeWritten, IdsDiffer
    <2>1. /\ \A n \in Detected : id[n] = n /\ n \in Nat /\ n <= input.count
          /\ input.count \in Nat
      BY Sets DEF IInv, Ids, Detected
    <2>2. \A n \in merged : input.count < id[n] /\ id[n] \in Nat
      BY Sets DEF IInv, Ids
    <2>3. \A n, o \in merged : id[n] = id[o] => n = o
      BY DEF IInv, Ids
    <2>4. c \in Detected \cup merged /\ d \in Detected \cup merged
      BY InTheEnd DEF Alive
    <2>5. CASE c \in merged /\ d \in merged
      BY <2>3, <2>5
    <2>6. CASE c \in Detected /\ d \in Detected
      BY <2>1, <2>6
    <2>7. CASE c \in merged /\ d \in Detected
      BY <2>1, <2>2, <2>7
    <2>8. CASE c \in Detected /\ d \in merged
      BY <2>1, <2>2, <2>8
    <2> QED
      BY <2>4, <2>5, <2>6, <2>7, <2>8
  <1> QED
    BY <1>1, Inductive, PTL
=============================================================================
