-------------------------- MODULE DetectionProofs --------------------------
(***************************************************************************)
(* What is proved of FeatureSpace::build and of Detection::run, for any    *)
(* number of threads, cells, variables and dimensions, any kernels and any *)
(* input: one point is made of each cell that is not discarded; clusters   *)
(* are of points that were measured; the smoothing is the convolution      *)
(* along one dimension after the other; and with one thread no value lies  *)
(* outside of the ranges it is scaled with.                                *)
(***************************************************************************)
EXTENDS Detection, FiniteSetTheorems, TLAPS

(* A set of numbers has a least one.                                       *)
LEMMA HasLeast ==
  ASSUME NEW T, T \subseteq Nat, T # {}
  PROVE  \E x \in T : \A y \in T : x <= y
<1> DEFINE R == {ss \in Nat \X Nat : ss[1] < ss[2]}
<1>1. IsWellFoundedOn(R, Nat)
  BY NatLessThanWellFounded DEF OpToRel
<1>2. PICK x \in T : \A y \in T : ~ (<<y, x>> \in R)
  <2> HIDE DEF R
  <2> QED
    BY <1>1, WFMin
<1>3. ASSUME NEW y \in T PROVE x <= y
  <2>1. <<y, x>> \in Nat \X Nat /\ ~(<<y, x>>[1] < <<y, x>>[2])
    BY <1>2
  <2> QED
    BY <2>1
<1> QED
  BY <1>3

(* What holds of 0, and of a number's successor when it holds of it, holds *)
(* up to the last one.                                                     *)
LEMMA UpTo ==
  ASSUME NEW N \in Nat, NEW S, 0 \in S, \A n \in 0 .. N - 1 : n \in S => n + 1 \in S
  PROVE  0 .. N \subseteq S
<1> SUFFICES ASSUME (0 .. N) \ S # {} PROVE FALSE
  OBVIOUS
<1>1. PICK n \in (0 .. N) \ S : \A m \in (0 .. N) \ S : n <= m
  <2>1. (0 .. N) \ S \subseteq Nat
    OBVIOUS
  <2> QED
    BY <2>1, HasLeast
<1>2. n # 0 /\ n - 1 \in 0 .. N - 1 /\ ~(n <= n - 1)
  BY <1>1
<1>3. n - 1 \in S
  BY <1>1, <1>2
<1> QED
  BY <1>1, <1>2, <1>3

(* The elements are picked one after the other.                            *)
LEMMA PickedSteps ==
  ASSUME NEW s, NEW S, Len(s) \in Nat
  PROVE  \E f : /\ Picked(s, S) = f[Len(s)]
                /\ f[0] = <<>>
                /\ \A n \in 1 .. Len(s) :
                     f[n] = IF n \in S THEN Append(f[n - 1], s[n]) ELSE f[n - 1]
<1>0. PICK N \in Nat : N = Len(s)
  OBVIOUS
<1> DEFINE Add(x, n) == IF n \in S THEN Append(x, s[n]) ELSE x
           Reached == {m \in 0 .. N : \E f : f = [n \in 0 .. m |-> IF n = 0 THEN <<>> ELSE Add(f[n - 1], n)]}
<1> HIDE DEF Add
<1>1. 0 \in Reached
  <2> DEFINE f == [n \in 0 .. 0 |-> <<>>]
  <2>1. f = [n \in 0 .. 0 |-> IF n = 0 THEN <<>> ELSE Add(f[n - 1], n)]
    OBVIOUS
  <2> HIDE DEF f
  <2> QED
    BY <2>1
<1>2. ASSUME NEW m \in 0 .. N - 1, m \in Reached PROVE m + 1 \in Reached
  <2>1. PICK f : f = [n \in 0 .. m |-> IF n = 0 THEN <<>> ELSE Add(f[n - 1], n)]
    BY <1>2
  <2> DEFINE g == [n \in 0 .. m + 1 |-> IF n = 0 THEN <<>> ELSE Add(f[n - 1], n)]
  <2>2. \A n \in 0 .. m : g[n] = f[n]
    BY <2>1
  <2>3. \A n \in 0 .. m + 1 : n # 0 => g[n - 1] = f[n - 1]
    <3> HIDE DEF g
    <3>1. \A n \in 0 .. m + 1 : n # 0 => n - 1 \in 0 .. m
      OBVIOUS
    <3> QED
      BY <2>2, <3>1
  <2>4. g = [n \in 0 .. m + 1 |-> IF n = 0 THEN <<>> ELSE Add(g[n - 1], n)]
    BY <2>3
  <2> HIDE DEF g
  <2> QED
    BY <2>4
<1>3. N \in Reached
  <2> HIDE DEF Reached
  <2>1. \A m \in 0 .. N - 1 : m \in Reached => m + 1 \in Reached
    BY <1>2
  <2>2. 0 .. N \subseteq Reached
    BY <1>1, <2>1, UpTo
  <2> QED
    BY <2>2
<1> DEFINE upto == CHOOSE upto : upto = [n \in 0 .. N |-> IF n = 0 THEN <<>> ELSE Add(upto[n - 1], n)]
<1>4. upto = [n \in 0 .. N |-> IF n = 0 THEN <<>> ELSE Add(upto[n - 1], n)]
  BY <1>3
<1>5. Picked(s, S) = upto[N]
  BY <1>0 DEF Picked, Add
<1> HIDE DEF upto
<1>6. /\ upto[0] = <<>>
      /\ \A n \in 1 .. N : upto[n] = Add(upto[n - 1], n)
  BY <1>4
<1> QED
  BY <1>0, <1>5, <1>6 DEF Add

(* What is picked is in the sequence, at the places, and not more; if all  *)
(* places are picked it is the sequence.                                   *)
LEMMA PickedElements ==
  ASSUME NEW T, NEW s \in Seq(T), NEW S
  PROVE  /\ Picked(s, S) \in Seq(T) /\ Len(Picked(s, S)) <= Len(s)
         /\ \A i \in DOMAIN Picked(s, S) : \E j \in DOMAIN s \cap S : Picked(s, S)[i] = s[j]
         /\ DOMAIN s \subseteq S => Picked(s, S) = s
<1>0. PICK N \in Nat : N = Len(s)
  OBVIOUS
<1>1. PICK f : /\ Picked(s, S) = f[N]
               /\ f[0] = <<>>
               /\ \A n \in 1 .. N : f[n] = IF n \in S THEN Append(f[n - 1], s[n]) ELSE f[n - 1]
  BY <1>0, PickedSteps
<1> DEFINE Good(n) ==
             /\ f[n] \in Seq(T) /\ Len(f[n]) <= n
             /\ \A i \in 1 .. Len(f[n]) : \E j \in 1 .. n : j \in S /\ f[n][i] = s[j]
             /\ 1 .. N \subseteq S => Len(f[n]) = n /\ \A i \in 1 .. n : f[n][i] = s[i]
           Reached == {n \in 0 .. N : Good(n)}
<1>2. Good(0)
  BY <1>1
<1>3. ASSUME NEW n \in 0 .. N - 1, Good(n) PROVE Good(n + 1)
  <2> DEFINE m == n + 1
  <2>1. m \in 1 .. N /\ m - 1 = n /\ m \in Nat /\ n \in Nat
    OBVIOUS
  <2>2. s[m] \in T
    BY <1>0, <2>1
  <2> HIDE DEF m
  <2>3. CASE m \in S
    <3>1. f[m] = Append(f[n], s[m])
      BY <1>1, <2>1, <2>3
    <3>2. PICK g \in Seq(T) : g = f[n]
      BY <1>3
    <3>3. Append(g, s[m]) \in Seq(T) /\ Len(Append(g, s[m])) = Len(g) + 1 /\ Len(g) \in Nat
      BY <2>2
    <3>4. /\ Append(g, s[m])[Len(g) + 1] = s[m]
          /\ \A i \in 1 .. Len(g) : Append(g, s[m])[i] = g[i]
      BY <2>2
    <3>5. PICK h \in Seq(T) : h = Append(g, s[m])
      BY <3>3
    <3>6. /\ Len(g) <= n
          /\ \A i \in 1 .. Len(g) : \E j \in 1 .. n : j \in S /\ g[i] = s[j]
          /\ 1 .. N \subseteq S => Len(g) = n /\ \A i \in 1 .. n : g[i] = s[i]
      BY <1>3, <3>2
    <3>7. f[m] = h /\ Len(h) = Len(g) + 1 /\ Len(h) <= m
      BY <2>1, <3>1, <3>2, <3>3, <3>5, <3>6
    <3>8. ASSUME NEW i \in 1 .. Len(h) PROVE \E j \in 1 .. m : j \in S /\ h[i] = s[j]
      <4>1. CASE i = Len(g) + 1
        BY <2>1, <2>3, <3>4, <3>5, <4>1
      <4>2. CASE i # Len(g) + 1
        <5>1. i \in 1 .. Len(g)
          BY <3>3, <3>7, <4>2
        <5>2. PICK j \in 1 .. n : j \in S /\ g[i] = s[j]
          BY <3>6, <5>1
        <5> QED
          BY <2>1, <3>4, <3>5, <5>1, <5>2
      <4> QED
        BY <4>1, <4>2
    <3>9. ASSUME 1 .. N \subseteq S PROVE Len(h) = m /\ \A i \in 1 .. m : h[i] = s[i]
      <4>1. Len(g) = n /\ \A i \in 1 .. n : g[i] = s[i]
        BY <3>6, <3>9
      <4>2. Len(h) = m /\ m = n + 1
        BY <3>7, <4>1 DEF m
      <4>3. \A i \in 1 .. m : i = n + 1 \/ i \in 1 .. n
        BY <2>1, <4>2
      <4> QED
        BY <3>4, <3>5, <4>1, <4>2, <4>3
    <3> QED
      BY <3>7, <3>8, <3>9 DEF m
  <2>4. CASE m \notin S
    <3>1. f[m] = f[n]
      BY <1>1, <2>1, <2>4
    <3>2. ~(1 .. N \subseteq S)
      BY <2>1, <2>4
    <3>3. /\ f[n] \in Seq(T) /\ Len(f[n]) <= n
          /\ \A i \in 1 .. Len(f[n]) : \E j \in 1 .. n : j \in S /\ f[n][i] = s[j]
      BY <1>3
    <3>4. n <= m /\ 1 .. n \subseteq 1 .. m
      BY <2>1
    <3>5. Len(f[n]) <= m
      BY <2>1, <3>3, <3>4
    <3> QED
      BY <3>1, <3>2, <3>3, <3>4, <3>5 DEF m
  <2> QED
    BY <2>3, <2>4
<1> HIDE DEF Good
<1>4. Good(N)
  <2>1. 0 \in Reached
    BY <1>2
  <2>2. \A n \in 0 .. N - 1 : n \in Reached => n + 1 \in Reached
    BY <1>3
  <2> HIDE DEF Reached
  <2>3. 0 .. N \subseteq Reached
    BY <2>1, <2>2, UpTo
  <2>4. N \in Reached
    BY <2>3
  <2> QED
    BY <2>4 DEF Reached
<1>5. PICK p \in Seq(T) : p = Picked(s, S)
  BY <1>1, <1>4 DEF Good
<1>6. /\ Len(p) <= N
      /\ \A i \in 1 .. Len(p) : \E j \in 1 .. N : j \in S /\ p[i] = s[j]
      /\ 1 .. N \subseteq S => Len(p) = N /\ \A i \in 1 .. N : p[i] = s[i]
  BY <1>1, <1>4, <1>5 DEF Good
<1>7. DOMAIN p = 1 .. Len(p) /\ DOMAIN s = 1 .. N
  BY <1>0
<1>8. DOMAIN s \subseteq S => p = s
  <2> SUFFICES ASSUME 1 .. N \subseteq S PROVE p = s
    BY <1>7
  <2>1. Len(p) = Len(s) /\ \A i \in 1 .. Len(p) : p[i] = s[i]
    BY <1>0, <1>6
  <2> QED
    BY <2>1
<1> QED
  BY <1>0, <1>5, <1>6, <1>7, <1>8

(* Numbers are divided into slices.                                        *)
LEMMA Divided ==
  ASSUME NEW a \in Nat, NEW b \in Nat \ {0}
  PROVE  /\ a \div b \in Nat /\ a % b \in 0 .. b - 1
         /\ a = (a \div b) * b + (a % b)
         /\ \A d \in Nat \ {0} : a < b * d => a \div b < d
         /\ \A q \in Nat, r \in 0 .. b - 1 : a = q * b + r => a \div b = q /\ a % b = r
<1>1. a \div b \in Nat /\ a % b \in 0 .. b - 1
  OBVIOUS
<1>2. a = (a \div b) * b + (a % b)
  OBVIOUS
<1>3. ASSUME NEW d \in Nat \ {0}, a < b * d PROVE a \div b < d
  <2>1. PICK q \in Nat, r \in Nat : q = a \div b /\ a = q * b + r
    BY <1>1, <1>2
  <2>2. ASSUME q >= d PROVE FALSE
    <3>1. q * b >= d * b
      BY <2>2
    <3> QED
      BY <1>3, <2>1, <3>1
  <2> QED
    BY <2>1, <2>2
<1>4. ASSUME NEW q \in Nat, NEW r \in 0 .. b - 1, a = q * b + r PROVE a \div b = q /\ a % b = r
  BY <1>4
<1> QED
  BY <1>1, <1>2, <1>3, <1>4

(* The number of a slice and a place in it.                                *)
LEMMA InSlice ==
  ASSUME NEW q \in Nat, NEW b \in Nat \ {0}, NEW r \in 0 .. b - 1, NEW d \in Nat \ {0}, q < d
  PROVE  q * b + r \in 0 .. b * d - 1
<1>1. (q + 1) * b <= d * b
  OBVIOUS
<1>2. (q + 1) * b = q * b + b
  OBVIOUS
<1>3. q * b \in Nat
  OBVIOUS
<1> QED
  BY <1>1, <1>2, <1>3

(* The slices of the last index have one grid point, the others those of   *)
(* all slices of the next index.                                           *)
LEMMA SlicesAre ==
  ASSUME NEW dims \in Seq(Nat \ {0}), Len(dims) > 0
  PROVE  /\ SliceSizes(dims) \in [1 .. Len(dims) -> Nat \ {0}]
         /\ SliceSizes(dims)[Len(dims)] = 1
         /\ \A i \in 1 .. Len(dims) - 1 : SliceSizes(dims)[i] = SliceSizes(dims)[i + 1] * dims[i + 1]
<1>0. PICK N \in Nat \ {0} : N = Len(dims) /\ DOMAIN dims = 1 .. N
  OBVIOUS
<1>a. N - 1 \in Nat
  OBVIOUS
<1> DEFINE Reached == {m \in 0 .. N - 1 : \E f : f = [i \in N - m .. N |-> IF i = N THEN 1 ELSE f[i + 1] * dims[i + 1]]}
<1>1. 0 \in Reached
  <2> DEFINE f == [i \in N .. N |-> 1]
  <2>1. f = [i \in N - 0 .. N |-> IF i = N THEN 1 ELSE f[i + 1] * dims[i + 1]]
    OBVIOUS
  <2> HIDE DEF f
  <2> QED
    BY <2>1
<1>2. ASSUME NEW m \in 0 .. N - 1 - 1, m \in Reached PROVE m + 1 \in Reached
  <2>1. PICK f : f = [i \in N - m .. N |-> IF i = N THEN 1 ELSE f[i + 1] * dims[i + 1]]
    BY <1>2
  <2> DEFINE g == [i \in N - (m + 1) .. N |-> IF i = N THEN 1 ELSE f[i + 1] * dims[i + 1]]
  <2>2. \A i \in N - m .. N : g[i] = f[i]
    BY <2>1
  <2>3. \A i \in N - (m + 1) .. N : i # N => g[i + 1] = f[i + 1]
    <3> HIDE DEF g
    <3>1. \A i \in N - (m + 1) .. N : i # N => i + 1 \in N - m .. N
      OBVIOUS
    <3> QED
      BY <2>2, <3>1
  <2>4. g = [i \in N - (m + 1) .. N |-> IF i = N THEN 1 ELSE g[i + 1] * dims[i + 1]]
    BY <2>3
  <2> HIDE DEF g
  <2> QED
    BY <2>4
<1>3. \E f : f = [i \in 1 .. N |-> IF i = N THEN 1 ELSE f[i + 1] * dims[i + 1]]
  <2> HIDE DEF Reached
  <2>1. \A m \in 0 .. N - 1 - 1 : m \in Reached => m + 1 \in Reached
    BY <1>2
  <2>2. 0 .. N - 1 \subseteq Reached
    BY <1>a, <1>1, <2>1, UpTo
  <2>3. N - 1 \in Reached /\ N - (N - 1) = 1
    BY <2>2
  <2> QED
    BY <2>3 DEF Reached
<1> DEFINE size == CHOOSE size : size = [i \in 1 .. N |-> IF i = N THEN 1 ELSE size[i + 1] * dims[i + 1]]
<1>4. size = [i \in 1 .. N |-> IF i = N THEN 1 ELSE size[i + 1] * dims[i + 1]]
  BY <1>3
<1>5. SliceSizes(dims) = size
  BY <1>0 DEF SliceSizes
<1> HIDE DEF size
<1>6. /\ DOMAIN size = 1 .. N /\ size[N] = 1
      /\ \A i \in 1 .. N - 1 : size[i] = size[i + 1] * dims[i + 1]
  BY <1>4
<1> DEFINE Positive == {m \in 0 .. N - 1 : size[N - m] \in Nat \ {0}}
<1>7. \A m \in 0 .. N - 1 - 1 : m \in Positive => m + 1 \in Positive
  <2> SUFFICES ASSUME NEW m \in 0 .. N - 1 - 1, m \in Positive PROVE m + 1 \in Positive
    OBVIOUS
  <2>1. N - (m + 1) \in 1 .. N - 1 /\ (N - (m + 1)) + 1 = N - m /\ N - m \in 1 .. N
    OBVIOUS
  <2>2. dims[N - m] \in Nat \ {0}
    BY <1>0, <2>1
  <2>3. size[N - (m + 1)] = size[N - m] * dims[N - m]
    BY <1>6, <2>1
  <2> QED
    BY <2>2, <2>3
<1>8. 0 \in Positive
  BY <1>6
<1>9. 0 .. N - 1 \subseteq Positive
  <2> HIDE DEF Positive
  <2> QED
    BY <1>a, <1>7, <1>8, UpTo
<1>10. \A i \in 1 .. N : size[i] \in Nat \ {0}
  <2> SUFFICES ASSUME NEW i \in 1 .. N PROVE size[i] \in Nat \ {0}
    OBVIOUS
  <2>1. N - i \in 0 .. N - 1 /\ N - (N - i) = i
    OBVIOUS
  <2> QED
    BY <1>9, <2>1
<1>11. size \in [1 .. N -> Nat \ {0}]
  BY <1>4, <1>10
<1> QED
  BY <1>0, <1>5, <1>6, <1>11

(* What the indices before one leave over of a number.                     *)
LEMMA RestsAre ==
  ASSUME NEW dims \in Seq(Nat \ {0}), Len(dims) > 0, NEW n \in 0 .. MappingSize(dims) - 1
  PROVE  \E r \in [1 .. Len(dims) -> Nat] :
           /\ r[1] = n
           /\ \A i \in 1 .. Len(dims) - 1 :
                r[i] = LinearToGrid(dims, n)[i] * SliceSizes(dims)[i] + r[i + 1]
           /\ \A i \in 1 .. Len(dims) :
                /\ LinearToGrid(dims, n)[i] = r[i] \div SliceSizes(dims)[i]
                /\ LinearToGrid(dims, n)[i] \in 0 .. dims[i] - 1
           /\ r[Len(dims)] = LinearToGrid(dims, n)[Len(dims)]
           /\ DOMAIN LinearToGrid(dims, n) = 1 .. Len(dims)
<1>0. PICK N \in Nat \ {0} : N = Len(dims) /\ DOMAIN dims = 1 .. N
  OBVIOUS
<1>a. N - 1 \in Nat
  OBVIOUS
<1> DEFINE slice == SliceSizes(dims)
<1>s. /\ slice \in [1 .. N -> Nat \ {0}] /\ slice[N] = 1
      /\ \A i \in 1 .. N - 1 : slice[i] = slice[i + 1] * dims[i + 1]
      /\ MappingSize(dims) = slice[1] * dims[1]
  BY <1>0, SlicesAre DEF MappingSize
<1> HIDE DEF slice
<1> DEFINE Reached == {m \in 0 .. N - 1 : \E f : f = [i \in 1 .. m + 1 |-> IF i = 1 THEN n ELSE f[i - 1] % slice[i - 1]]}
<1>1. 0 \in Reached
  <2> DEFINE f == [i \in 1 .. 1 |-> n]
  <2>1. f = [i \in 1 .. 0 + 1 |-> IF i = 1 THEN n ELSE f[i - 1] % slice[i - 1]]
    OBVIOUS
  <2> HIDE DEF f
  <2> QED
    BY <2>1
<1>2. ASSUME NEW m \in 0 .. N - 1 - 1, m \in Reached PROVE m + 1 \in Reached
  <2>1. PICK f : f = [i \in 1 .. m + 1 |-> IF i = 1 THEN n ELSE f[i - 1] % slice[i - 1]]
    BY <1>2
  <2> DEFINE g == [i \in 1 .. (m + 1) + 1 |-> IF i = 1 THEN n ELSE f[i - 1] % slice[i - 1]]
  <2>2. \A i \in 1 .. m + 1 : g[i] = f[i]
    BY <2>1
  <2>3. \A i \in 1 .. (m + 1) + 1 : i # 1 => g[i - 1] = f[i - 1]
    <3> HIDE DEF g
    <3>1. \A i \in 1 .. (m + 1) + 1 : i # 1 => i - 1 \in 1 .. m + 1
      OBVIOUS
    <3> QED
      BY <2>2, <3>1
  <2>4. g = [i \in 1 .. (m + 1) + 1 |-> IF i = 1 THEN n ELSE g[i - 1] % slice[i - 1]]
    BY <2>3
  <2> HIDE DEF g
  <2>5. m + 1 \in 0 .. N - 1
    OBVIOUS
  <2> QED
    BY <2>4, <2>5
<1>3. \E f : f = [i \in 1 .. N |-> IF i = 1 THEN n ELSE f[i - 1] % slice[i - 1]]
  <2> HIDE DEF Reached
  <2>1. \A m \in 0 .. N - 1 - 1 : m \in Reached => m + 1 \in Reached
    BY <1>2
  <2>2. 0 .. N - 1 \subseteq Reached
    BY <1>a, <1>1, <2>1, UpTo
  <2>3. N - 1 \in Reached /\ (N - 1) + 1 = N
    BY <2>2
  <2> QED
    BY <2>3 DEF Reached
<1> DEFINE rest == CHOOSE rest : rest = [i \in 1 .. N |-> IF i = 1 THEN n ELSE rest[i - 1] % slice[i - 1]]
<1>4. rest = [i \in 1 .. N |-> IF i = 1 THEN n ELSE rest[i - 1] % slice[i - 1]]
  BY <1>3
<1>5. LinearToGrid(dims, n) = [i \in 1 .. N |-> rest[i] \div slice[i]]
  BY <1>0 DEF LinearToGrid, slice
<1> HIDE DEF rest
<1>6. /\ DOMAIN rest = 1 .. N /\ rest[1] = n
      /\ \A i \in 2 .. N : rest[i] = rest[i - 1] % slice[i - 1]
  BY <1>4
<1>7. \A i \in 1 .. N : slice[i] \in Nat \ {0} /\ dims[i] \in Nat \ {0}
  BY <1>0, <1>s
<1> DEFINE Small == {m \in 0 .. N - 1 : rest[m + 1] \in Nat /\ rest[m + 1] < slice[m + 1] * dims[m + 1]}
<1>8. 0 \in Small
  <2>1. slice[1] * dims[1] \in Nat
    BY <1>7
  <2> QED
    BY <1>6, <1>s, <2>1
<1>9. ASSUME NEW m \in 0 .. N - 1 - 1, m \in Small PROVE m + 1 \in Small
  <2>1. m + 1 \in 1 .. N - 1 /\ (m + 1) + 1 \in 2 .. N /\ ((m + 1) + 1) - 1 = m + 1
    OBVIOUS
  <2>2. rest[(m + 1) + 1] = rest[m + 1] % slice[m + 1]
    BY <1>6, <2>1
  <2>3. rest[m + 1] \in Nat /\ slice[m + 1] \in Nat \ {0}
    BY <1>7, <1>9, <2>1
  <2>4. rest[m + 1] % slice[m + 1] \in 0 .. slice[m + 1] - 1
    BY <2>3, Divided
  <2>5. slice[m + 1] = slice[(m + 1) + 1] * dims[(m + 1) + 1]
    BY <1>s, <2>1
  <2> QED
    BY <2>1, <2>2, <2>3, <2>4, <2>5
<1>10. 0 .. N - 1 \subseteq Small
  <2>1. \A m \in 0 .. N - 1 - 1 : m \in Small => m + 1 \in Small
    BY <1>9
  <2> HIDE DEF Small
  <2> QED
    BY <1>a, <1>8, <2>1, UpTo
<1>11. \A i \in 1 .. N : rest[i] \in Nat /\ rest[i] < slice[i] * dims[i]
  <2> SUFFICES ASSUME NEW i \in 1 .. N PROVE rest[i] \in Nat /\ rest[i] < slice[i] * dims[i]
    OBVIOUS
  <2>1. i - 1 \in 0 .. N - 1 /\ (i - 1) + 1 = i
    OBVIOUS
  <2>2. i - 1 \in Small
    BY <1>10, <2>1
  <2> QED
    BY <2>1, <2>2
<1> HIDE DEF Small, Reached
<1> DEFINE g == LinearToGrid(dims, n)
<1> HIDE DEF g
<1>12. DOMAIN g = 1 .. N /\ \A i \in 1 .. N : g[i] = rest[i] \div slice[i]
  BY <1>5 DEF g
<1>13. \A i \in 1 .. N : g[i] \in 0 .. dims[i] - 1
  <2> SUFFICES ASSUME NEW i \in 1 .. N PROVE g[i] \in 0 .. dims[i] - 1
    OBVIOUS
  <2>1. rest[i] \in Nat /\ slice[i] \in Nat \ {0} /\ dims[i] \in Nat \ {0} /\ rest[i] < slice[i] * dims[i]
    BY <1>7, <1>11
  <2>2. rest[i] \div slice[i] \in Nat /\ rest[i] \div slice[i] < dims[i]
    BY <2>1, Divided
  <2> QED
    BY <1>12, <2>1, <2>2
<1>14. ASSUME NEW i \in 1 .. N - 1 PROVE rest[i] = g[i] * slice[i] + rest[i + 1]
  <2>1. i \in 1 .. N /\ i + 1 \in 2 .. N /\ (i + 1) - 1 = i
    OBVIOUS
  <2>2. rest[i] \in Nat /\ slice[i] \in Nat \ {0}
    BY <1>7, <1>11, <2>1
  <2>3. rest[i] = (rest[i] \div slice[i]) * slice[i] + (rest[i] % slice[i])
    BY <2>2, Divided
  <2>4. rest[i + 1] = rest[i] % slice[i]
    BY <1>6, <2>1
  <2> QED
    BY <1>12, <2>1, <2>3, <2>4
<1>15. rest[N] = g[N]
  <2>1. rest[N] \in Nat /\ slice[N] = 1
    BY <1>11, <1>s
  <2> QED
    BY <1>12, <2>1
<1>16. rest \in [1 .. N -> Nat]
  BY <1>4, <1>11
<1> QED
  BY <1>0, <1>6, <1>12, <1>13, <1>14, <1>15, <1>16 DEF g, slice

(* LinearToGrid maps the numbers to grid points, no two to the same.       *)
LEMMA ToGrid ==
  ASSUME NEW dims \in Seq(Nat \ {0}), Len(dims) > 0
  PROVE  /\ \A n \in 0 .. MappingSize(dims) - 1 :
              /\ DOMAIN LinearToGrid(dims, n) = 1 .. Len(dims)
              /\ LinearToGrid(dims, n) \in [1 .. Len(dims) -> Nat]
              /\ \A i \in 1 .. Len(dims) : LinearToGrid(dims, n)[i] \in 0 .. dims[i] - 1
         /\ \A m, n \in 0 .. MappingSize(dims) - 1 :
              LinearToGrid(dims, m) = LinearToGrid(dims, n) => m = n
<1>0. PICK N \in Nat \ {0} : N = Len(dims) /\ DOMAIN dims = 1 .. N
  OBVIOUS
<1>a. N - 1 \in Nat
  OBVIOUS
<1>1. ASSUME NEW n \in 0 .. MappingSize(dims) - 1
      PROVE  /\ DOMAIN LinearToGrid(dims, n) = 1 .. N
             /\ LinearToGrid(dims, n) \in [1 .. N -> Nat]
             /\ \A i \in 1 .. N : LinearToGrid(dims, n)[i] \in 0 .. dims[i] - 1
  <2> DEFINE g == LinearToGrid(dims, n)
  <2>1. DOMAIN g = 1 .. N /\ \A i \in 1 .. N : g[i] \in 0 .. dims[i] - 1
    BY <1>0, RestsAre
  <2>2. g = [i \in DOMAIN dims |-> g[i]]
    <3>1. g = [i \in DOMAIN g |-> g[i]]
      BY DEF LinearToGrid
    <3> HIDE DEF g
    <3> QED
      BY <1>0, <2>1, <3>1
  <2> HIDE DEF g
  <2>3. g \in [1 .. N -> Nat]
    BY <1>0, <2>1, <2>2
  <2> QED
    BY <2>1, <2>3 DEF g
<1>2. ASSUME NEW m \in 0 .. MappingSize(dims) - 1, NEW n \in 0 .. MappingSize(dims) - 1,
             LinearToGrid(dims, m) = LinearToGrid(dims, n)
      PROVE  m = n
  <2> DEFINE g == LinearToGrid(dims, n)
             slice == SliceSizes(dims)
  <2>1. PICK r : r[1] = n /\ r[N] = g[N] /\ \A i \in 1 .. N - 1 : r[i] = g[i] * slice[i] + r[i + 1]
    <3>1. PICK r \in [1 .. Len(dims) -> Nat] :
            /\ r[1] = n
            /\ \A i \in 1 .. Len(dims) - 1 : r[i] = g[i] * slice[i] + r[i + 1]
            /\ r[Len(dims)] = g[Len(dims)]
      BY RestsAre
    <3> QED
      BY <1>0, <3>1
  <2>2. PICK q : q[1] = m /\ q[N] = g[N] /\ \A i \in 1 .. N - 1 : q[i] = g[i] * slice[i] + q[i + 1]
    <3>1. PICK q \in [1 .. Len(dims) -> Nat] :
            /\ q[1] = m
            /\ \A i \in 1 .. Len(dims) - 1 : q[i] = g[i] * slice[i] + q[i + 1]
            /\ q[Len(dims)] = g[Len(dims)]
      BY <1>2, RestsAre
    <3> QED
      BY <1>0, <3>1
  <2> HIDE DEF g, slice
  <2> DEFINE Equal == {i \in 0 .. N - 1 : r[N - i] = q[N - i]}
  <2>3. 0 \in Equal
    BY <1>a, <2>1, <2>2
  <2>4. ASSUME NEW i \in 0 .. N - 1 - 1, i \in Equal PROVE i + 1 \in Equal
    <3>1. N - (i + 1) \in 1 .. N - 1 /\ (N - (i + 1)) + 1 = N - i
      OBVIOUS
    <3>2. /\ r[N - (i + 1)] = g[N - (i + 1)] * slice[N - (i + 1)] + r[N - i]
          /\ q[N - (i + 1)] = g[N - (i + 1)] * slice[N - (i + 1)] + q[N - i]
      BY <2>1, <2>2, <3>1
    <3> QED
      BY <2>4, <3>2
  <2>5. 0 .. N - 1 \subseteq Equal
    <3>1. \A i \in 0 .. N - 1 - 1 : i \in Equal => i + 1 \in Equal
      BY <2>4
    <3> HIDE DEF Equal
    <3> QED
      BY <1>a, <2>3, <3>1, UpTo
  <2>6. N - 1 \in Equal /\ N - (N - 1) = 1
    <3> HIDE DEF Equal
    <3> QED
      BY <1>a, <2>5
  <2> QED
    BY <2>1, <2>2, <2>6
<1> QED
  BY <1>0, <1>1, <1>2

(* Every grid point has its number.                                        *)
LEMMA FromGrid ==
  ASSUME NEW dims \in Seq(Nat \ {0}), Len(dims) > 0,
         NEW g \in [1 .. Len(dims) -> Nat], \A i \in 1 .. Len(dims) : g[i] < dims[i]
  PROVE  \E n \in 0 .. MappingSize(dims) - 1 : LinearToGrid(dims, n) = g
<1>0. PICK N \in Nat \ {0} : N = Len(dims) /\ DOMAIN dims = 1 .. N
  OBVIOUS
<1>a. N - 1 \in Nat
  OBVIOUS
<1> DEFINE slice == SliceSizes(dims)
<1>s. /\ slice \in [1 .. N -> Nat \ {0}] /\ slice[N] = 1
      /\ \A i \in 1 .. N - 1 : slice[i] = slice[i + 1] * dims[i + 1]
      /\ MappingSize(dims) = slice[1] * dims[1]
  BY <1>0, SlicesAre DEF MappingSize
<1> HIDE DEF slice
<1>t. \A i \in 1 .. N : slice[i] \in Nat \ {0} /\ dims[i] \in Nat \ {0} /\ g[i] \in Nat /\ g[i] < dims[i]
  <2>1. ASSUME NEW i \in 1 .. N PROVE slice[i] \in Nat \ {0}
    BY <1>s
  <2>2. ASSUME NEW i \in 1 .. N PROVE dims[i] \in Nat \ {0}
    BY <1>0
  <2>3. ASSUME NEW i \in 1 .. N PROVE g[i] \in Nat /\ g[i] < dims[i]
    BY <1>0
  <2> QED
    BY <2>1, <2>2, <2>3
<1> DEFINE Sums(q, from) ==
             /\ \A i \in from .. N : q[i] \in 0 .. slice[i] * dims[i] - 1
             /\ q[N] = g[N] /\ \A i \in from .. N - 1 : q[i] = g[i] * slice[i] + q[i + 1]
           Reached == {m \in 0 .. N - 1 : \E q : Sums(q, N - m)}
<1>1. 0 \in Reached
  <2> DEFINE q == [i \in 1 .. N |-> g[N]]
  <2>1. q[N] = g[N]
    OBVIOUS
  <2> HIDE DEF q
  <2>4. dims[N] \in Nat \ {0} /\ g[N] \in Nat /\ g[N] < dims[N]
    BY <1>t
  <2>5. slice[N] * dims[N] = dims[N]
    BY <1>s, <2>4
  <2>3. slice[N] * dims[N] = dims[N] /\ g[N] \in 0 .. dims[N] - 1
    BY <2>4, <2>5
  <2>2. Sums(q, N - 0)
    BY <2>1, <2>3
  <2> HIDE DEF Sums
  <2> QED
    BY <2>2, <1>a
<1>2. ASSUME NEW m \in 0 .. N - 1 - 1, m \in Reached PROVE m + 1 \in Reached
  <2>1. PICK q : Sums(q, N - m)
    BY <1>2
  <2>2. PICK j \in 1 .. N - 1 : j = N - (m + 1) /\ N - m = j + 1
    OBVIOUS
  <2>3. q[j + 1] \in 0 .. slice[j + 1] * dims[j + 1] - 1
    BY <2>1, <2>2
  <2>4. slice[j] = slice[j + 1] * dims[j + 1] /\ j \in 1 .. N /\ j + 1 \in 1 .. N
    BY <1>s
  <2>5. g[j] * slice[j] + q[j + 1] \in 0 .. slice[j] * dims[j] - 1
    BY <1>t, <2>3, <2>4, InSlice
  <2> DEFINE p == [i \in 1 .. N |-> IF i = j THEN g[j] * slice[j] + q[j + 1] ELSE q[i]]
  <2>6. p[j] = g[j] * slice[j] + q[j + 1] /\ \A i \in j + 1 .. N : p[i] = q[i]
    BY <2>4
  <2> HIDE DEF p
  <2>7. p[N] = g[N] /\ p[j + 1] = q[j + 1]
    BY <2>1, <2>2, <2>6
  <2>8. \A i \in j .. N : p[i] \in 0 .. slice[i] * dims[i] - 1
    <3>1. \A i \in j + 1 .. N : p[i] \in 0 .. slice[i] * dims[i] - 1
      BY <2>1, <2>2, <2>6
    <3>2. \A i \in j .. N : i = j \/ i \in j + 1 .. N
      OBVIOUS
    <3>3. p[j] \in 0 .. slice[j] * dims[j] - 1
      BY <2>5, <2>6
    <3> QED
      BY <3>1, <3>2, <3>3
  <2>9. ASSUME NEW i \in j .. N - 1 PROVE p[i] = g[i] * slice[i] + p[i + 1]
    <3>1. CASE i = j
      BY <2>6, <2>7, <3>1
    <3>2. CASE i # j
      <4>1. i \in j + 1 .. N - 1 /\ i \in j + 1 .. N /\ i + 1 \in j + 1 .. N
        BY <3>2
      <4>2. q[i] = g[i] * slice[i] + q[i + 1]
        BY <2>1, <2>2, <4>1
      <4> QED
        BY <2>6, <4>1, <4>2
    <3> QED
      BY <3>1, <3>2
  <2>10. Sums(p, j)
    BY <2>7, <2>8, <2>9
  <2> HIDE DEF Sums
  <2>11. m + 1 \in 0 .. N - 1
    OBVIOUS
  <2> QED
    BY <2>2, <2>10, <2>11
<1>3. PICK q : Sums(q, 1)
  <2>1. \A m \in 0 .. N - 1 - 1 : m \in Reached => m + 1 \in Reached
    BY <1>2
  <2> HIDE DEF Reached
  <2>2. 0 .. N - 1 \subseteq Reached
    BY <1>a, <1>1, <2>1, UpTo
  <2>3. N - 1 \in Reached /\ N - (N - 1) = 1
    BY <1>a, <2>2
  <2> HIDE DEF Sums
  <2> QED
    BY <2>3 DEF Reached
<1>4. /\ \A i \in 1 .. N : q[i] \in 0 .. slice[i] * dims[i] - 1
      /\ q[N] = g[N] /\ \A i \in 1 .. N - 1 : q[i] = g[i] * slice[i] + q[i + 1]
  BY <1>3
<1>5. q[1] \in 0 .. MappingSize(dims) - 1
  BY <1>s, <1>4
<1> DEFINE h == LinearToGrid(dims, q[1])
<1>6. PICK r \in [1 .. N -> Nat] :
        /\ r[1] = q[1]
        /\ \A i \in 1 .. N - 1 : r[i] = h[i] * slice[i] + r[i + 1]
        /\ \A i \in 1 .. N : h[i] = r[i] \div slice[i]
        /\ r[N] = h[N] /\ DOMAIN h = 1 .. N
  <2>1. \E r \in [1 .. Len(dims) -> Nat] :
           /\ r[1] = q[1]
           /\ \A i \in 1 .. Len(dims) - 1 : r[i] = h[i] * slice[i] + r[i + 1]
           /\ \A i \in 1 .. Len(dims) : h[i] = r[i] \div slice[i] /\ h[i] \in 0 .. dims[i] - 1
           /\ r[Len(dims)] = h[Len(dims)]
           /\ DOMAIN h = 1 .. Len(dims)
    BY <1>5, RestsAre DEF slice
  <2> HIDE DEF h
  <2> QED
    BY <1>0, <2>1
<1>7. h = [i \in DOMAIN h |-> h[i]]
  BY DEF LinearToGrid
<1> HIDE DEF h, Sums, Reached
<1> DEFINE Same == {m \in 0 .. N - 1 : r[m + 1] = q[m + 1]}
<1>8. ASSUME NEW i \in 1 .. N - 1, r[i] = q[i] PROVE r[i + 1] = q[i + 1] /\ h[i] = g[i]
  <2>1. i \in 1 .. N /\ i + 1 \in 1 .. N
    OBVIOUS
  <2>2. q[i + 1] \in 0 .. slice[i] - 1 /\ q[i] = g[i] * slice[i] + q[i + 1]
    BY <1>s, <1>4, <2>1
  <2>3. q[i] \in Nat /\ slice[i] \in Nat \ {0} /\ g[i] \in Nat
    BY <1>6, <1>8, <1>t, <2>1
  <2>4. q[i] \div slice[i] = g[i]
    BY <2>2, <2>3, Divided
  <2>5. h[i] = g[i]
    BY <1>6, <1>8, <2>1, <2>4
  <2>6. r[i] = g[i] * slice[i] + r[i + 1] /\ r[i + 1] \in Nat
    BY <1>6, <2>1, <2>5
  <2>7. g[i] * slice[i] \in Nat
    BY <2>3
  <2> QED
    BY <1>8, <2>2, <2>5, <2>6, <2>7
<1>9. 0 .. N - 1 \subseteq Same
  <2>1. 0 \in Same
    BY <1>6
  <2>2. ASSUME NEW m \in 0 .. N - 1 - 1, m \in Same PROVE m + 1 \in Same
    <3>1. m + 1 \in 1 .. N - 1 /\ m + 1 \in 0 .. N - 1
      OBVIOUS
    <3> QED
      BY <1>8, <2>2, <3>1
  <2>3. \A m \in 0 .. N - 1 - 1 : m \in Same => m + 1 \in Same
    BY <2>2
  <2> HIDE DEF Same
  <2> QED
    BY <1>a, <2>1, <2>3, UpTo
<1>10. ASSUME NEW i \in 1 .. N PROVE h[i] = g[i]
  <2>4. i - 1 \in 0 .. N - 1 /\ (i - 1) + 1 = i
    OBVIOUS
  <2>1. r[i] = q[i]
    BY <1>9, <2>4
  <2>2. CASE i = N
    BY <1>4, <1>6, <2>1, <2>2
  <2>3. CASE i # N
    <3>1. i \in 1 .. N - 1
      BY <2>3
    <3> QED
      BY <1>8, <2>1, <3>1
  <2> QED
    BY <2>2, <2>3
<1>11. h = g
  BY <1>0, <1>6, <1>7, <1>10
<1> QED
  BY <1>5, <1>11 DEF h

Before == {"read", "create", "push"}
After == {"compare_least", "set_least", "compare_greatest", "set_greatest"}
Places == Before \cup After \cup {"fetch", "over"}

(* What a thread still has to do of the cells it was handed.               *)
Rest(t) ==
  {c \in Cells :
     \/ pc[t] \in Before /\ cell[t] <= c /\ c < last[t]
     \/ pc[t] \in After /\ cell[t] < c /\ c < last[t]}

PointCells == {points[i].cell : i \in 1 .. Len(points)}
PointOf(c) == [cell |-> c, values |-> Values(c), original |-> TRUE]
PointType == {PointOf(c) : c \in Cells}

Types ==
  /\ field \in Fields
  /\ pc \in [Threads -> Places]
  /\ chunk \in 0 .. Size
  /\ cell \in [Threads -> Nat] /\ last \in [Threads -> 0 .. Size]
  /\ fill \in [Threads -> Nat]
  /\ lock \in Threads \cup {NoOne}
  /\ points \in Seq(PointType)

(* A thread is inside of push_back exactly while it holds the lock, so the *)
(* size it has read is still the size of the list.                         *)
Exclusive ==
  \A t \in Threads :
    /\ pc[t] = "push" <=> lock = t
    /\ pc[t] = "push" => fill[t] = Len(points)

Within ==
  \A t \in Threads :
    /\ pc[t] \in Before \cup After => cell[t] < last[t] /\ last[t] <= chunk
    /\ pc[t] \in {"create", "push"} => ~Discarded(cell[t])
    /\ pc[t] = "over" /\ t \in field.team => chunk = Size

Disjoint == \A s, t \in Threads : s # t => Rest(s) \cap Rest(t) = {}

NotTwice ==
  /\ \A c \in PointCells : c < chunk /\ ~Discarded(c) /\ \A t \in Threads : c \notin Rest(t)
  /\ \A i, j \in 1 .. Len(points) : points[i].cell = points[j].cell => i = j

NotLost ==
  \A c \in Cells : c < chunk /\ ~Discarded(c) =>
    c \in PointCells \/ \E t \in Threads : c \in Rest(t)

IInv == Types /\ Exclusive /\ Within /\ Disjoint /\ NotTwice /\ NotLost

(* The places are told apart by name.                                      *)
LEMMA PlaceNames ==
  /\ Before \cup After \subseteq Places /\ "fetch" \in Places /\ "over" \in Places
  /\ "read" \in Before /\ "create" \in Before /\ "push" \in Before
  /\ "compare_least" \in After /\ "compare_greatest" \in After
  /\ "fetch" \notin Before /\ "over" \notin Before
  /\ "fetch" \notin After /\ "over" \notin After
  /\ Before \cap After = {}
  BY DEF Places, Before, After

(* The invariant holds when the threads start.                             *)
LEMMA InitIInv == Init => IInv
<1> SUFFICES ASSUME Init PROVE IInv
  OBVIOUS
<1> USE BuildAssumption DEF Init
<1>1. Types
  BY DEF Types, Places, Before, After, Vars
<1>2. \A t \in Threads : pc[t] \in {"fetch", "over"}
  OBVIOUS
<1>3. PointCells = {}
  BY DEF PointCells
<1>4. Exclusive
  BY <1>2 DEF Exclusive
<1>5. Within
  BY <1>2 DEF Within, Before, After, Cells
<1>6. \A t \in Threads : Rest(t) = {}
  BY <1>2 DEF Rest, Before, After
<1>7. Disjoint /\ NotTwice /\ NotLost
  BY <1>3, <1>6 DEF Disjoint, NotTwice, NotLost, Cells
<1> QED
  BY <1>1, <1>4, <1>5, <1>7 DEF IInv

(* What is behind a step of a thread for the others.                       *)
Alike(s) ==
  pc'[s] = pc[s] /\ cell'[s] = cell[s] /\ last'[s] = last[s] /\ fill'[s] = fill[s]

(* A step touches the places of one thread, and never the input.           *)
LEMMA StepOfOne ==
  ASSUME Types, NEW t \in Threads, Step(t)
  PROVE  field' = field /\ \A s \in Threads \ {t} : Alike(s)
<1> USE DEF Types, Alike, Goto
<1>1. CASE Fetch(t)
  BY <1>1 DEF Fetch
<1>2. CASE Read(t)
  BY <1>2 DEF Read, Advance
<1>3. CASE Enter(t)
  BY <1>3 DEF Enter
<1>4. CASE Push(t)
  BY <1>4 DEF Push
<1>5. CASE CompareLeast(t)
  BY <1>5 DEF CompareLeast
<1>6. CASE SetLeast(t)
  BY <1>6 DEF SetLeast
<1>7. CASE CompareGreatest(t)
  BY <1>7 DEF CompareGreatest, NextVar, Advance
<1>8. CASE SetGreatest(t)
  BY <1>8 DEF SetGreatest, NextVar, Advance
<1> QED
  BY <1>1, <1>2, <1>3, <1>4, <1>5, <1>6, <1>7, <1>8 DEF Step

(* A comparison or an assignment keeps the thread where it is, or leaves.  *)
LEMMA RangeSteps ==
  ASSUME NEW t \in Threads,
         CompareLeast(t) \/ SetLeast(t) \/ CompareGreatest(t) \/ SetGreatest(t)
  PROVE  /\ pc[t] \in After
         /\ UNCHANGED <<field, chunk, last, fill, lock, points>>
         /\ \/ (\E place \in After : pc' = [pc EXCEPT ![t] = place]) /\ UNCHANGED cell
            \/ Advance(t)
<1>1. CASE CompareLeast(t)
  BY <1>1 DEF CompareLeast, Goto, After
<1>2. CASE SetLeast(t)
  BY <1>2 DEF SetLeast, Goto, After
<1>3. CASE CompareGreatest(t)
  BY <1>3 DEF CompareGreatest, NextVar, Goto, After
<1>4. CASE SetGreatest(t)
  BY <1>4 DEF SetGreatest, NextVar, Goto, After
<1> QED
  BY <1>1, <1>2, <1>3, <1>4

(* What points look like is up to the input.                               *)
LEMMA SamePoints == ASSUME field' = field PROVE PointType' = PointType
<1>1. \A c \in Cells : PointOf(c)' = PointOf(c)
  BY DEF PointOf, Values
<1> QED
  BY <1>1 DEF PointType

(* Types.                                                                  *)
LEMMA StepTypes ==
  ASSUME Types, Exclusive, Within, NEW t \in Threads, Step(t)
  PROVE  Types'
<1> USE DEF Types, Goto
<1>0. field' \in Fields /\ PointType' = PointType
  BY StepOfOne, SamePoints
<1>a. ASSUME Advance(t) PROVE pc' \in [Threads -> Places] /\ cell' \in [Threads -> Nat]
  BY <1>a, PlaceNames DEF Advance
<1>1. CASE Fetch(t)
  <2>1. chunk' \in 0 .. Size
    BY <1>1, BuildAssumption DEF Fetch
  <2>2. pc' \in [Threads -> Places]
    BY <1>1, PlaceNames DEF Fetch
  <2>3. cell' \in [Threads -> Nat] /\ last' \in [Threads -> 0 .. Size]
    <3>1. /\ cell' = [cell EXCEPT ![t] = chunk] \/ cell' = [cell EXCEPT ![t] = 0]
          /\ last' = [last EXCEPT ![t] = chunk'] \/ last' = [last EXCEPT ![t] = 0]
      BY <1>1 DEF Fetch
    <3>2. chunk \in Nat /\ 0 \in Nat /\ 0 \in 0 .. Size
      BY BuildAssumption
    <3>3. cell' \in [Threads -> Nat]
      BY <3>1, <3>2
    <3>4. last' \in [Threads -> 0 .. Size]
      BY <2>1, <3>1, <3>2
    <3> QED
      BY <3>3, <3>4
  <2> QED
    BY <1>1, <1>0, <2>1, <2>2, <2>3 DEF Fetch, ranges
<1>2. CASE Read(t)
  <2>1. pc' \in [Threads -> Places] /\ cell' \in [Threads -> Nat]
    BY <1>2, <1>a, PlaceNames DEF Read
  <2> QED
    BY <1>2, <1>0, <2>1 DEF Read
<1>3. CASE Enter(t)
  <2>1. Len(points) \in Nat
    OBVIOUS
  <2> QED
    BY <1>3, <1>0, <2>1, PlaceNames DEF Enter
<1>4. CASE Push(t)
  <2>1. fill[t] = Len(points)
    BY <1>4 DEF Exclusive, Push
  <2>2. points' = Append(points, MyPoint(t))
    BY <1>4, <2>1 DEF Push
  <2>3. pc[t] = "push" /\ cell[t] \in Cells
    BY <1>4, BuildAssumption, PlaceNames DEF Push, Within, Cells
  <2>4. MyPoint(t) \in PointType
    BY <2>3 DEF MyPoint, PointType, PointOf
  <2>5. points' \in Seq(PointType)
    BY <2>2, <2>4
  <2> QED
    BY <1>4, <1>0, <2>5, PlaceNames DEF Push
<1>5. CASE CompareLeast(t) \/ SetLeast(t) \/ CompareGreatest(t) \/ SetGreatest(t)
  <2>1. pc' \in [Threads -> Places] /\ cell' \in [Threads -> Nat]
    BY <1>5, <1>a, RangeSteps, PlaceNames
  <2> QED
    BY <1>5, <1>0, <2>1, RangeSteps
<1> QED
  BY <1>1, <1>2, <1>3, <1>4, <1>5 DEF Step

(* push_back is exclusive: it is entered when nobody holds the lock.       *)
LEMMA StepExclusive ==
  ASSUME Types, Exclusive, NEW t \in Threads, Step(t)
  PROVE  Exclusive'
<1> USE BuildAssumption, StepOfOne, PlaceNames DEF Types, Exclusive, Alike, Goto, Advance
<1>1. CASE Fetch(t)
  BY <1>1 DEF Fetch
<1>2. CASE Read(t)
  BY <1>2 DEF Read
<1>3. CASE Enter(t)
  BY <1>3 DEF Enter
<1>4. CASE Push(t)
  BY <1>4 DEF Push
<1>5. CASE CompareLeast(t) \/ SetLeast(t) \/ CompareGreatest(t) \/ SetGreatest(t)
  BY <1>5, RangeSteps
<1> QED
  BY <1>1, <1>2, <1>3, <1>4, <1>5 DEF Step

(* What a step does with the cells, seen from its thread.                  *)
Handed(t) ==
  /\ pc[t] = "fetch" /\ pc'[t] = "read"
  /\ chunk < chunk' /\ chunk' <= Size
  /\ cell'[t] = chunk /\ last'[t] = chunk'
  /\ points' = points

Finished(t) ==
  /\ pc[t] = "fetch" /\ pc'[t] = "over"
  /\ chunk = Size /\ chunk' = Size
  /\ points' = points

NextCell(t) ==
  /\ \/ pc[t] = "read" /\ Discarded(cell[t])
     \/ pc[t] \in After
  /\ cell'[t] = cell[t] + 1 /\ last'[t] = last[t]
  /\ \/ pc'[t] = "read" /\ cell[t] + 1 < last[t]
     \/ pc'[t] = "fetch" /\ ~(cell[t] + 1 < last[t])
  /\ chunk' = chunk /\ points' = points

SameCell(t) ==
  /\ \/ pc[t] = "read" /\ ~Discarded(cell[t]) /\ pc'[t] = "create"
     \/ pc[t] = "create" /\ pc'[t] = "push"
     \/ pc[t] \in After /\ pc'[t] \in After
  /\ cell'[t] = cell[t] /\ last'[t] = last[t]
  /\ chunk' = chunk /\ points' = points

Pushed(t) ==
  /\ pc[t] = "push" /\ pc'[t] = "compare_least"
  /\ cell'[t] = cell[t] /\ last'[t] = last[t]
  /\ chunk' = chunk /\ points' = Append(points, MyPoint(t))

(* There are no other steps.                                               *)
LEMMA Effects ==
  ASSUME Types, Exclusive, NEW t \in Threads, Step(t)
  PROVE  Handed(t) \/ Finished(t) \/ NextCell(t) \/ SameCell(t) \/ Pushed(t)
<1> USE DEF Types, Goto
<1>1. CASE Fetch(t)
  <2>1. CASE chunk < Size
    BY <1>1, <2>1, BuildAssumption DEF Fetch, Handed
  <2>2. CASE ~(chunk < Size)
    BY <1>1, <2>2, BuildAssumption DEF Fetch, Finished
  <2> QED
    BY <2>1, <2>2
<1>2. CASE Read(t)
  <2>1. CASE Discarded(cell[t])
    BY <1>2, <2>1 DEF Read, Advance, NextCell
  <2>2. CASE ~Discarded(cell[t])
    BY <1>2, <2>2 DEF Read, SameCell
  <2> QED
    BY <2>1, <2>2
<1>3. CASE Enter(t)
  BY <1>3 DEF Enter, SameCell
<1>4. CASE Push(t)
  BY <1>4 DEF Push, Exclusive, Pushed
<1>5. CASE CompareLeast(t) \/ SetLeast(t) \/ CompareGreatest(t) \/ SetGreatest(t)
  <2>1. CASE Advance(t)
    BY <1>5, <2>1, RangeSteps DEF Advance, NextCell
  <2>2. CASE (\E place \in After : pc' = [pc EXCEPT ![t] = place]) /\ UNCHANGED cell
    BY <1>5, <2>2, RangeSteps DEF SameCell
  <2> QED
    BY <1>5, <2>1, <2>2, RangeSteps
<1> QED
  BY <1>1, <1>2, <1>3, <1>4, <1>5 DEF Step

(* A thread works on cells that were handed out, and creates points of     *)
(* those that were not discarded.                                          *)
LEMMA StepWithin ==
  ASSUME Types, Exclusive, Within, NEW t \in Threads, Step(t)
  PROVE  Within'
<1> USE PlaceNames, BuildAssumption
<1>1. field' = field /\ Types' /\ \A s \in Threads \ {t} : Alike(s)
  BY StepOfOne, StepTypes
<1>2. \A c : Discarded(c)' = Discarded(c)
  BY <1>1 DEF Discarded, Stops
<1>3. chunk \in Nat /\ chunk' \in Nat /\ chunk <= chunk' /\ chunk' <= Size
  BY <1>1, Effects DEF Types, Handed, Finished, NextCell, SameCell, Pushed
<1>4. ASSUME NEW s \in Threads \ {t}
      PROVE  /\ pc'[s] \in Before \cup After => cell'[s] < last'[s] /\ last'[s] <= chunk'
             /\ pc'[s] \in {"create", "push"} => ~Discarded(cell'[s])
             /\ pc'[s] = "over" /\ s \in field.team => chunk' = Size
  <2>1. pc'[s] = pc[s] /\ cell'[s] = cell[s] /\ last'[s] = last[s] /\ last[s] \in Nat
    BY <1>1 DEF Alike, Types
  <2>2. pc[s] \in Before \cup After => cell[s] < last[s] /\ last[s] <= chunk'
    BY <1>3, <2>1 DEF Within
  <2>3. pc[s] \in {"create", "push"} => ~Discarded(cell[s])
    BY DEF Within
  <2>4. pc[s] = "over" /\ s \in field.team => chunk' = Size
    BY <1>3 DEF Within
  <2> QED
    BY <2>1, <2>2, <2>3, <2>4
<1>5. /\ pc'[t] \in Before \cup After => cell'[t] < last'[t] /\ last'[t] <= chunk'
      /\ pc'[t] \in {"create", "push"} => ~Discarded(cell'[t])
      /\ pc'[t] = "over" /\ t \in field.team => chunk' = Size
  <2>1. CASE Handed(t)
    BY <1>1, <1>3, <2>1 DEF Within, Types, Handed
  <2>2. CASE Finished(t)
    BY <1>1, <1>3, <2>2 DEF Within, Types, Finished
  <2>3. CASE NextCell(t)
    BY <1>1, <1>3, <2>3 DEF Within, Types, NextCell
  <2>4. CASE SameCell(t)
    BY <1>1, <1>3, <2>4 DEF Within, Types, SameCell
  <2>5. CASE Pushed(t)
    BY <1>1, <1>3, <2>5 DEF Within, Types, Pushed
  <2> QED
    BY <2>1, <2>2, <2>3, <2>4, <2>5, Effects
<1> QED
  BY <1>1, <1>2, <1>4, <1>5 DEF Within

(* The cells a step takes from those a thread has before it.               *)
LEMMA StepRest ==
  ASSUME Types, Exclusive, Within, NEW t \in Threads, Step(t)
  PROVE  /\ \A s \in Threads \ {t} : Rest(s)' = Rest(s)
         /\ Handed(t) => Rest(t) = {} /\ Rest(t)' = {c \in Cells : chunk <= c /\ c < chunk'}
         /\ Finished(t) => Rest(t) = {} /\ Rest(t)' = {}
         /\ NextCell(t) => Rest(t)' = Rest(t) \ {cell[t]}
         /\ SameCell(t) => Rest(t)' = Rest(t)
         /\ Pushed(t) => cell[t] \in Rest(t) /\ Rest(t)' = Rest(t) \ {cell[t]}
<1> USE PlaceNames, BuildAssumption
<1>1. /\ \A s \in Threads \ {t} : Alike(s)
      /\ cell[t] \in Nat /\ last[t] \in Nat /\ chunk \in Nat
      /\ pc[t] \in Before \cup After => cell[t] \in Cells
  BY StepOfOne DEF Types, Within, Cells
<1>2. \A s \in Threads \ {t} : Rest(s)' = Rest(s)
  BY <1>1 DEF Rest, Alike
<1>3. ASSUME Handed(t) PROVE Rest(t) = {} /\ Rest(t)' = {c \in Cells : chunk <= c /\ c < chunk'}
  BY <1>3 DEF Rest, Handed
<1>4. ASSUME Finished(t) PROVE Rest(t) = {} /\ Rest(t)' = {}
  BY <1>4 DEF Rest, Finished
<1>5. ASSUME NextCell(t) PROVE Rest(t)' = Rest(t) \ {cell[t]}
  <2>1. \A c \in Cells : c \in Nat
    BY DEF Cells
  <2>2. ASSUME NEW c \in Cells PROVE c \in Rest(t)' <=> c \in Rest(t) /\ c # cell[t]
    <3>1. c \in Rest(t)' <=> pc'[t] = "read" /\ cell[t] + 1 <= c /\ c < last[t]
      <4>1. cell'[t] = cell[t] + 1 /\ last'[t] = last[t] /\ pc'[t] \in {"read", "fetch"}
        BY <1>5 DEF NextCell
      <4> QED
        BY <4>1 DEF Rest
    <3>3. c \in Rest(t) <=>
            \/ pc[t] = "read" /\ cell[t] <= c /\ c < last[t]
            \/ pc[t] \in After /\ cell[t] < c /\ c < last[t]
      <4>1. pc[t] = "read" \/ pc[t] \in After
        BY <1>5 DEF NextCell
      <4> QED
        BY <4>1 DEF Rest
    <3>2. /\ pc'[t] = "read" \/ ~(cell[t] + 1 < last[t])
          /\ pc[t] = "read" \/ pc[t] \in After
      BY <1>5 DEF NextCell
    <3> QED
      BY <1>1, <2>1, <3>1, <3>2, <3>3
  <2>3. Rest(t) \subseteq Cells /\ Rest(t)' \subseteq Cells
    BY DEF Rest
  <2> QED
    BY <2>2, <2>3
<1>6. ASSUME SameCell(t) PROVE Rest(t)' = Rest(t)
  <2>1. \/ pc[t] \in Before /\ pc'[t] \in Before
        \/ pc[t] \in After /\ pc'[t] \in After
    BY <1>6 DEF SameCell
  <2> QED
    BY <1>6, <2>1 DEF Rest, SameCell
<1>7. ASSUME Pushed(t) PROVE cell[t] \in Rest(t) /\ Rest(t)' = Rest(t) \ {cell[t]}
  <2>1. \A c \in Cells : c \in Nat
    BY DEF Cells
  <2>2. cell[t] \in Rest(t)
    BY <1>1, <1>7 DEF Rest, Pushed, Within
  <2>3. ASSUME NEW c \in Cells PROVE c \in Rest(t)' <=> c \in Rest(t) /\ c # cell[t]
    BY <1>1, <1>7, <2>1 DEF Rest, Pushed
  <2> QED
    BY <2>2, <2>3 DEF Rest
<1> QED
  BY <1>2, <1>3, <1>4, <1>5, <1>6, <1>7

(* No thread has cells that are not handed out yet.                        *)
LEMMA RestIsHanded ==
  ASSUME Types, Within, NEW t \in Threads, NEW c \in Rest(t)
  PROVE  c \in Cells /\ c < chunk
<1>1. c \in Cells /\ c < last[t] /\ last[t] <= chunk
  BY DEF Rest, Within
<1> QED
  BY <1>1, BuildAssumption DEF Types, Cells

(* What is handed out, is handed out to one thread.                        *)
LEMMA StepDisjoint ==
  ASSUME Types, Exclusive, Within, Disjoint, NEW t \in Threads, Step(t)
  PROVE  Disjoint'
<1>1. \A s \in Threads \ {t} : Rest(s)' = Rest(s)
  BY StepRest
<1>2. ASSUME NEW s \in Threads \ {t} PROVE Rest(s) \cap Rest(t)' = {}
  <2>1. CASE Handed(t)
    <3>1. \A c \in Rest(t)' : chunk <= c
      BY <2>1, StepRest
    <3>2. \A c \in Rest(s) : c \in Nat /\ c < chunk
      BY RestIsHanded DEF Cells
    <3> QED
      BY <3>1, <3>2, BuildAssumption DEF Types
  <2>2. CASE ~Handed(t)
    <3>1. Rest(t)' \subseteq Rest(t)
      BY <2>2, StepRest, Effects
    <3> QED
      BY <3>1 DEF Disjoint
  <2> QED
    BY <2>1, <2>2
<1> QED
  BY <1>1, <1>2 DEF Disjoint

(* The points there are stay what they are, and at most one joins them.    *)
LEMMA StepPoints ==
  ASSUME Types, Exclusive, NEW t \in Threads, Step(t)
  PROVE  /\ Pushed(t) \/ points' = points
         /\ Pushed(t) =>
              /\ Len(points') = Len(points) + 1
              /\ \A i \in 1 .. Len(points) : points'[i] = points[i]
              /\ points'[Len(points')].cell = cell[t]
              /\ PointCells' = PointCells \cup {cell[t]}
<1>1. Pushed(t) \/ points' = points
  BY Effects DEF Handed, Finished, NextCell, SameCell
<1>2. ASSUME Pushed(t)
      PROVE  /\ Len(points') = Len(points) + 1
             /\ \A i \in 1 .. Len(points) : points'[i] = points[i]
             /\ points'[Len(points')] = MyPoint(t)
  BY <1>2 DEF Types, Pushed
<1>3. MyPoint(t).cell = cell[t]
  BY DEF MyPoint
<1>4. ASSUME Pushed(t) PROVE PointCells' = PointCells \cup {cell[t]}
  <2>1. Len(points) \in Nat
    BY DEF Types
  <2> QED
    BY <1>2, <1>3, <1>4, <2>1 DEF PointCells
<1> QED
  BY <1>1, <1>2, <1>3, <1>4

(* A cell does not get a second point.                                     *)
LEMMA StepNotTwice ==
  ASSUME Types, Exclusive, Within, Disjoint, NotTwice, NEW t \in Threads, Step(t)
  PROVE  NotTwice'
<1> USE BuildAssumption
<1>1. /\ chunk \in Nat /\ chunk' \in Nat /\ chunk <= chunk'
      /\ \A c : Discarded(c)' = Discarded(c)
  <2>1. field' = field /\ Types'
    BY StepOfOne, StepTypes
  <2> QED
    BY <2>1, Effects DEF Types, Discarded, Stops, Handed, Finished, NextCell, SameCell, Pushed
<1>2. ASSUME NEW c \in PointCells, NEW s \in Threads PROVE c \notin Rest(s)'
  <2>1. c < chunk /\ c \notin Rest(s) /\ c \in Nat
    <3>1. PICK i \in 1 .. Len(points) : c = points[i].cell
      BY DEF PointCells
    <3>2. points[i] \in PointType
      BY <3>1 DEF Types
    <3>3. c \in Nat
      BY <3>1, <3>2 DEF PointType, PointOf, Cells
    <3> QED
      BY <3>3 DEF NotTwice
  <2>2. Rest(s)' \subseteq Rest(s) \cup {d \in Cells : chunk <= d}
    BY StepRest, Effects
  <2> QED
    BY <1>1, <2>1, <2>2
<1>3. CASE points' = points
  <2>1. \A c \in PointCells : c \in Nat
    BY DEF PointCells, Types, PointType, PointOf, Cells
  <2>2. PointCells' = PointCells
    BY <1>3 DEF PointCells
  <2>3. \A c \in PointCells' : c < chunk' /\ Discarded(c)' = Discarded(c) /\ ~Discarded(c)
    BY <1>1, <2>1, <2>2 DEF NotTwice
  <2>4. \A i, j \in 1 .. Len(points') : points'[i].cell = points'[j].cell => i = j
    BY <1>3 DEF NotTwice
  <2> QED
    BY <1>2, <2>2, <2>3, <2>4 DEF NotTwice
<1>4. CASE Pushed(t)
  <2>1. /\ cell[t] \in Rest(t) /\ cell[t] < chunk /\ ~Discarded(cell[t])
        /\ cell[t] \notin PointCells
    BY <1>4, StepRest, RestIsHanded DEF NotTwice, Within, Pushed
  <2>2. \A s \in Threads : cell[t] \notin Rest(s)'
    BY <1>4, <2>1, StepRest DEF Disjoint
  <2>3. \A c \in PointCells' : c < chunk' /\ ~Discarded(c) /\ \A s \in Threads : c \notin Rest(s)'
    BY <1>2, <1>4, <2>1, <2>2, StepPoints DEF NotTwice, Pushed
  <2>4. \A i \in 1 .. Len(points) : points[i].cell \in PointCells
    BY DEF PointCells
  <2>5. \A i, j \in 1 .. Len(points') : points'[i].cell = points'[j].cell => i = j
    <3>1. /\ \A i, j \in 1 .. Len(points) : points[i].cell = points[j].cell => i = j
          /\ \A i \in 1 .. Len(points) : points[i].cell # cell[t]
      BY <2>1, <2>4 DEF NotTwice
    <3>2. PICK n \in Nat : n = Len(points)
      BY DEF Types
    <3>3. /\ Len(points') = n + 1 /\ points'[n + 1].cell = cell[t]
          /\ \A i \in 1 .. n : points'[i] = points[i]
      BY <1>4, <3>2, StepPoints
    <3> QED
      BY <3>1, <3>2, <3>3
  <2> QED
    BY <1>1, <2>3, <2>5 DEF NotTwice
<1> QED
  BY <1>3, <1>4, StepPoints

(* A cell that is handed out stays with its thread until it has a point,   *)
(* or is discarded.                                                        *)
LEMMA StepNotLost ==
  ASSUME Types, Exclusive, Within, NotLost, NEW t \in Threads, Step(t)
  PROVE  NotLost'
<1>1. \A c : Discarded(c)' = Discarded(c)
  BY StepOfOne DEF Discarded, Stops
<1>2. PointCells \subseteq PointCells'
  BY StepPoints DEF PointCells
<1>3. ASSUME NEW c \in Cells, c < chunk, ~Discarded(c)
      PROVE  c \in PointCells' \/ \E s \in Threads : c \in Rest(s)'
  <2>1. CASE c \in PointCells \/ \E s \in Threads \ {t} : c \in Rest(s)
    BY <1>2, <2>1, StepRest
  <2>2. CASE c \in Rest(t)
    <3>1. CASE NextCell(t)
      <4>1. c # cell[t]
        <5>1. CASE pc[t] = "read"
          BY <1>3, <3>1, <5>1, PlaceNames DEF NextCell
        <5>2. CASE pc[t] \in After
          BY <2>2, <5>2, PlaceNames, BuildAssumption DEF Rest, Types, Cells
        <5> QED
          BY <3>1, <5>1, <5>2 DEF NextCell
      <4> QED
        BY <2>2, <3>1, <4>1, StepRest
    <3>2. CASE Pushed(t)
      BY <2>2, <3>2, StepRest, StepPoints
    <3>3. CASE ~NextCell(t) /\ ~Pushed(t)
      BY <2>2, <3>3, StepRest, Effects
    <3> QED
      BY <3>1, <3>2, <3>3
  <2> QED
    BY <1>3, <2>1, <2>2 DEF NotLost
<1>4. ASSUME NEW c \in Cells, c < chunk', ~(c < chunk)
      PROVE  \E s \in Threads : c \in Rest(s)'
  <2>1. c \in Nat /\ chunk \in Nat /\ chunk <= c
    BY <1>4, BuildAssumption DEF Types, Cells
  <2>2. Handed(t)
    BY <1>4, Effects DEF Finished, NextCell, SameCell, Pushed
  <2> QED
    BY <1>4, <2>1, <2>2, StepRest
<1> QED
  BY <1>1, <1>3, <1>4 DEF NotLost

(* The invariant, inductive.                                               *)
LEMMA StepIInv == IInv /\ [Next]_vars => IInv'
<1> SUFFICES ASSUME IInv, [Next]_vars PROVE IInv'
  OBVIOUS
<1>1. ASSUME NEW t \in Threads, Step(t) PROVE IInv'
  BY <1>1, StepTypes, StepExclusive, StepWithin, StepDisjoint, StepNotTwice, StepNotLost DEF IInv
<1>2. CASE UNCHANGED vars
  <2>1. UNCHANGED <<field, pc, chunk, cell, last, fill, lock, points>>
    BY <1>2 DEF vars, local
  <2>2. PointType' = PointType /\ (\A c : Discarded(c)' = Discarded(c))
    BY <2>1, SamePoints DEF Discarded, Stops
  <2>3. (\A t \in Threads : Rest(t)' = Rest(t)) /\ PointCells' = PointCells
    BY <2>1 DEF Rest, PointCells
  <2>4. Types' /\ Exclusive' /\ Within'
    BY <2>1, <2>2 DEF IInv, Types, Exclusive, Within
  <2>5. Disjoint' /\ NotTwice' /\ NotLost'
    BY <2>1, <2>2, <2>3 DEF IInv, Disjoint, NotTwice, NotLost
  <2> QED
    BY <2>4, <2>5 DEF IInv
<1> QED
  BY <1>1, <1>2 DEF Next

(* No variable of a cell that can be used ends the loop over them.         *)
LEMMA UsableStays ==
  ASSUME field \in Fields, NEW c \in Cells, Usable(c) PROVE ~Discarded(c)
<1> SUFFICES ASSUME NEW v \in Vars, v \notin field.replaced PROVE ~Stops(c, v)
  BY DEF Discarded, Stops
<1>1. /\ field.data[c][v] \in Int \cup {Missing, Beyond}
      /\ field.lower[v] \in Int /\ field.upper[v] \in Int
  BY BuildAssumption DEF IsField
<1> QED
  BY <1>1 DEF Usable, Stops

(* When the threads are done, all cells are handed out and nothing is left *)
(* of them.                                                                *)
LEMMA IInvOnce == IInv => EveryCellOnce
<1> SUFFICES ASSUME IInv, Built PROVE EveryCellOnce
  BY DEF EveryCellOnce
<1>1. \A t \in Threads : Rest(t) = {}
  BY PlaceNames DEF Built, Rest
<1>2. chunk = Size
  <2>1. IsField(field)
    BY BuildAssumption DEF IInv, Types
  <2>2. PICK t \in field.team : t \in Threads
    BY <2>1 DEF IsField
  <2> QED
    BY <2>2 DEF IInv, Within, Built
<1>3. \A c \in Cells : c < chunk
  BY <1>2, BuildAssumption DEF Cells
<1>4. PointCells \subseteq Cells
  BY DEF PointCells, IInv, Types, PointType, PointOf
<1>5. PointCells = {c \in Cells : ~Discarded(c)}
  BY <1>1, <1>3, <1>4 DEF IInv, NotTwice, NotLost
<1>6. ASSUME NEW c \in Cells, Usable(c) PROVE ~Discarded(c)
  BY <1>6, UsableStays DEF IInv, Types
<1> QED
  BY <1>5, <1>6 DEF EveryCellOnce, PointCells, IInv, NotTwice

(* Any team of threads makes exactly one point of each cell that is not    *)
(* discarded: push_back in its critical section loses none, and no cell is *)
(* handed out twice.                                                       *)
THEOREM EveryCellOnceHolds == Spec => []EveryCellOnce
<1>1. Spec => []IInv
  BY InitIInv, StepIInv, PTL DEF Spec
<1> QED
  BY <1>1, IInvOnce, PTL

(* The filters leave the threads of the feature space alone.               *)
LEMMA RunIsBuild == RunSpec => Spec
<1>1. RunInit => Init
  BY DEF RunInit
<1>2. RunNext => [Next]_vars
  BY DEF RunNext, Build, BuildEnds, ReplaceValues, FilterConvection, StartSmoothing, NoSmoothing,
         Smooth, ReplacePoints, FilterByWeight, Cluster
<1>3. UNCHANGED runvars => UNCHANGED vars
  BY DEF runvars
<1> QED
  BY <1>1, <1>2, <1>3, PTL DEF RunSpec, Spec

(* Only values are stored that are numbers.                                *)
LEMMA ValuesAreNumbers ==
  ASSUME field \in Fields, NEW c \in Cells
  PROVE  /\ Values(c) \in Seq(Int) /\ Len(Values(c)) <= Rank
         /\ (\A v \in Vars : field.data[c][v] \in Int) => Values(c) = field.data[c]
<1>1. field.data[c] \in [Vars -> Int \cup {Missing, Beyond}] /\ Rank \in Nat
  BY BuildAssumption DEF IsField
<1> DEFINE data == field.data[c]
           S == {v \in Vars : data[v] \notin {Missing, Beyond}}
<1>2. data \in Seq(Int \cup {Missing, Beyond}) /\ Len(data) = Rank /\ DOMAIN data = Vars
  BY <1>1 DEF Vars
<1>3. Values(c) = Picked(data, S)
  BY DEF Values, Stored
<1>4. \A v \in Vars : data[v] \in Int \cup {Missing, Beyond}
  BY <1>1
<1>5. \A v \in S : data[v] \in Int
  BY <1>4
<1>6. (\A v \in Vars : data[v] \in Int) => DOMAIN data \subseteq S
  BY <1>2, BuildAssumption
<1> HIDE DEF data, S
<1>7. /\ Picked(data, S) \in Seq(Int \cup {Missing, Beyond}) /\ Len(Picked(data, S)) <= Len(data)
      /\ \A i \in DOMAIN Picked(data, S) : \E j \in DOMAIN data \cap S : Picked(data, S)[i] = data[j]
      /\ DOMAIN data \subseteq S => Picked(data, S) = data
  BY <1>2, PickedElements
<1>8. PICK p \in Seq(Int \cup {Missing, Beyond}) : p = Picked(data, S)
  BY <1>7
<1>9. \A i \in DOMAIN p : p[i] \in Int
  BY <1>5, <1>7, <1>8
<1>10. p \in Seq(Int)
  BY <1>9
<1> QED
  BY <1>2, <1>3, <1>6, <1>7, <1>8, <1>10 DEF data

(* What a thread compares with the ranges is a number.                     *)
LEMMA AtIsNumber ==
  ASSUME NEW p, p.values \in Seq(Int), NEW v \in Nat \ {0}
  PROVE  At(p, v) \subseteq Int
<1>1. v <= Len(p.values) => p.values[v] \in Int
  OBVIOUS
<1> QED
  BY <1>1, BuildAssumption DEF At

(* The types of what EveryCellOnce does not depend on.                     *)
Locals ==
  /\ cell \in [Threads -> 0 .. Size]
  /\ var \in [Threads -> Vars]
  /\ off_limits \subseteq Cells
  /\ min \in [Vars -> Int] /\ max \in [Vars -> Int]

(* A thread advances to a cell, or behind the last one.                    *)
LEMMA AdvanceTypes ==
  ASSUME IInv, Locals, NEW t \in Threads, pc[t] \in Before \cup After, Advance(t)
  PROVE  cell' \in [Threads -> 0 .. Size]
<1>1. cell[t] \in Nat /\ last[t] \in 0 .. Size /\ cell[t] < last[t]
  BY DEF IInv, Types, Within
<1>2. cell[t] + 1 \in 0 .. Size
  BY <1>1, BuildAssumption
<1> QED
  BY <1>2 DEF Advance, Locals

(* The ranges are set to what is compared with them.                       *)
LEMMA CompareTypes ==
  ASSUME IInv, Locals, NEW t \in Threads,
         CompareLeast(t) \/ SetLeast(t) \/ CompareGreatest(t) \/ SetGreatest(t)
  PROVE  Locals'
<1>0. pc[t] \in After
  BY RangeSteps
<1>1. cell[t] \in Cells
  <2>1. cell[t] \in Nat /\ last[t] \in 0 .. Size /\ cell[t] < last[t]
    BY <1>0 DEF IInv, Types, Within
  <2> QED
    BY <2>1, BuildAssumption DEF Cells
<1>2. var[t] \in Vars /\ Vars \subseteq Nat \ {0}
  BY DEF Locals, Vars
<1>3. At(MyPoint(t), var[t]) \subseteq Int
  <2>1. MyPoint(t).values = Values(cell[t])
    BY DEF MyPoint
  <2>2. MyPoint(t).values \in Seq(Int)
    BY <1>1, <2>1, ValuesAreNumbers DEF IInv, Types
  <2> QED
    BY <1>2, <2>2, AtIsNumber
<1>4. UNCHANGED off_limits
  BY DEF CompareLeast, SetLeast, CompareGreatest, SetGreatest
<1>5. cell' \in [Threads -> 0 .. Size]
  BY <1>0, RangeSteps, AdvanceTypes DEF Locals
<1>6. var' \in [Threads -> Vars]
  <2>1. NextVar(t) => var' \in [Threads -> Vars]
    <3>1. 1 \in Vars /\ (var[t] < Rank => var[t] + 1 \in Vars)
      BY <1>2, BuildAssumption DEF Vars
    <3> QED
      BY <3>1 DEF NextVar, Locals
  <2> QED
    BY <2>1 DEF CompareLeast, SetLeast, CompareGreatest, SetGreatest, Locals
<1>7. min' \in [Vars -> Int] /\ max' \in [Vars -> Int]
  <2>1. CASE CompareLeast(t) \/ CompareGreatest(t)
    BY <2>1 DEF CompareLeast, CompareGreatest, ranges, Locals
  <2>2. CASE SetLeast(t)
    BY <1>3, <2>2 DEF SetLeast, Locals
  <2>3. CASE SetGreatest(t)
    BY <1>3, <2>3 DEF SetGreatest, Locals
  <2> QED
    BY <2>1, <2>2, <2>3
<1> QED
  BY <1>4, <1>5, <1>6, <1>7 DEF Locals

(* Each step keeps them.                                                   *)
LEMMA StepLocals ==
  ASSUME IInv, Locals, NEW t \in Threads, Step(t)
  PROVE  Locals'
<1>1. CASE Fetch(t)
  <2>1. chunk \in 0 .. Size /\ 0 \in 0 .. Size
    BY BuildAssumption DEF IInv, Types
  <2> QED
    BY <1>1, <2>1 DEF Fetch, Locals, ranges
<1>2. CASE Read(t)
  <2>1. pc[t] = "read" /\ pc[t] \in Before \cup After
    BY <1>2, PlaceNames DEF Read
  <2>2. cell[t] \in Cells
    <3>1. cell[t] \in Nat /\ last[t] \in 0 .. Size /\ cell[t] < last[t]
      BY <2>1 DEF IInv, Types, Within
    <3> QED
      BY <3>1, BuildAssumption DEF Cells
  <2>3. off_limits' \subseteq Cells
    BY <1>2, <2>2 DEF Read, Locals
  <2>4. cell' \in [Threads -> 0 .. Size]
    BY <1>2, <2>1, AdvanceTypes DEF Read, Locals
  <2> QED
    BY <1>2, <2>3, <2>4 DEF Read, Locals, ranges
<1>3. CASE Enter(t) \/ Push(t)
  BY <1>3 DEF Enter, Push, Locals, ranges
<1> QED
  BY <1>1, <1>2, <1>3, CompareTypes DEF Step

(* The feature space, whatever the filters do.                             *)
LEMMA StepBuild == IInv /\ Locals /\ [Next]_vars => IInv' /\ Locals'
<1>1. ASSUME Locals, UNCHANGED vars PROVE Locals'
  BY <1>1 DEF Locals, vars, local, ranges
<1> QED
  BY <1>1, StepIInv, StepLocals DEF Next

(* Holds when the threads start.                                           *)
LEMMA InitLocals == Init => Locals
  BY BuildAssumption DEF Init, Locals, Cells, Vars

(* Together with the inductive invariant they are the types.               *)
LEMMA TypesHold == IInv /\ Locals => TypeOK
<1> SUFFICES ASSUME IInv, Locals PROVE TypeOK
  OBVIOUS
<1>1. IsField(field) /\ field \in Fields
  BY BuildAssumption DEF IInv, Types
<1>2. points \in Seq([cell : Cells, values : Seq(Int), original : BOOLEAN])
  <2> DEFINE Point == [cell : Cells, values : Seq(Int), original : BOOLEAN]
  <2>1. \A c \in Cells : PointOf(c) \in Point
    BY <1>1, ValuesAreNumbers DEF PointOf
  <2>2. points \in Seq(PointType)
    BY DEF IInv, Types
  <2> HIDE DEF Point
  <2>3. points \in Seq(Point)
    BY <2>1, <2>2 DEF PointType
  <2> QED
    BY <2>3 DEF Point
<1>3. pc \in [Threads -> {"fetch", "read", "create", "push", "compare_least",
               "set_least", "compare_greatest", "set_greatest", "over"}]
  BY DEF IInv, Types, Places, Before, After
<1> QED
  BY <1>1, <1>2, <1>3 DEF TypeOK, Locals, IInv, Types

(* The inductive invariant of the building of the feature space.           *)
LEMMA BuildHolds == Spec => [](IInv /\ Locals)
  BY InitIInv, InitLocals, StepBuild, PTL DEF Spec

(* Every variable of the building of the feature space has its type: in    *)
(* particular cells are only marked, and points only made, within the      *)
(* data, and the ranges stay numbers.                                      *)
THEOREM BuildTypes == Spec => []TypeOK
  BY BuildHolds, TypesHold, PTL

(* The filters leave these types alone.                                    *)
THEOREM RunTypes == RunSpec => []TypeOK
  BY BuildTypes, RunIsBuild, PTL

(* The feature space the filters are given has one point of each cell that *)
(* is not discarded.                                                       *)
THEOREM EveryCellOnceInRun == RunSpec => []EveryCellOnce
  BY EveryCellOnceHolds, RunIsBuild, PTL

(* The grid holds the points whose indices are less than the dimensions.   *)
LEMMA GridIs ==
  Filter!Grid = {g \in [1 .. Len(Dims) -> Nat] : \A i \in 1 .. Len(Dims) : g[i] < Dims[i]}
<1>0. PICK N \in Nat \ {0} : N = Len(Dims) /\ DOMAIN Dims = 1 .. N
  BY DetectionAssumption
<1>a. \A i \in 1 .. N : Dims[i] \in Nat \ {0}
  BY <1>0, DetectionAssumption
<1> DEFINE Greatest(m, i) == \A j \in 1 .. m + 1 : Dims[j] <= Dims[i]
           Reached == {m \in 0 .. N - 1 : \E i \in 1 .. N : Greatest(m, i)}
<1>1. 0 \in Reached
  <2>1. 1 \in 1 .. N /\ \A j \in 1 .. 0 + 1 : j = 1
    OBVIOUS
  <2>2. Greatest(0, 1)
    BY <1>a, <2>1
  <2> QED
    BY <2>1, <2>2
<1>2. ASSUME NEW m \in 0 .. N - 1 - 1, m \in Reached PROVE m + 1 \in Reached
  <2>1. PICK i \in 1 .. N : \A j \in 1 .. m + 1 : Dims[j] <= Dims[i]
    BY <1>2
  <2>2. m + 2 \in 1 .. N /\ m + 1 \in 0 .. N - 1
    OBVIOUS
  <2>3. \A j \in 1 .. (m + 1) + 1 : j \in 1 .. m + 1 \/ j = m + 2
    OBVIOUS
  <2>4. \A j \in 1 .. m + 1 : j \in 1 .. N
    BY <2>2
  <2>5. CASE Dims[m + 2] <= Dims[i]
    BY <2>1, <2>2, <2>3, <2>5
  <2>6. CASE ~(Dims[m + 2] <= Dims[i])
    <3>1. \A j \in 1 .. m + 1 : Dims[j] <= Dims[m + 2]
      BY <1>a, <2>1, <2>2, <2>4, <2>6
    <3>2. Greatest(m + 1, m + 2)
      BY <1>a, <2>2, <2>3, <3>1
    <3> QED
      BY <2>2, <3>2
  <2> QED
    BY <2>5, <2>6
<1>3. PICK i \in 1 .. N : \A j \in 1 .. N : Dims[j] <= Dims[i]
  <2>1. \A m \in 0 .. N - 1 - 1 : m \in Reached => m + 1 \in Reached
    BY <1>2
  <2>a. N - 1 \in Nat
    OBVIOUS
  <2> HIDE DEF Reached
  <2>2. 0 .. N - 1 \subseteq Reached
    BY <1>1, <2>1, <2>a, UpTo
  <2>3. N - 1 \in Reached /\ N - 1 + 1 = N
    BY <2>2, <2>a
  <2> QED
    BY <2>3 DEF Reached
<1> DEFINE S == {Dims[j] : j \in 1 .. N}
           top == CHOOSE x \in S : \A y \in S : x >= y
<1>4. top \in S /\ \A y \in S : top >= y
  <2>1. Dims[i] \in S /\ \A y \in S : Dims[i] >= y
    BY <1>3, <1>a
  <2> HIDE DEF S
  <2> QED
    BY <2>1
<1>5. \A j \in 1 .. N : Dims[j] <= top /\ top \in Nat
  BY <1>4, <1>a
<1>6. Filter!Grid = {g \in [1 .. N -> 0 .. top] : \A j \in 1 .. N : g[j] < Dims[j]}
  BY <1>0 DEF Filter!Grid, Filter!Stages, Filter!Max
<1> HIDE DEF top
<1>7. ASSUME NEW g \in [1 .. N -> Nat], \A j \in 1 .. N : g[j] < Dims[j]
      PROVE  g \in [1 .. N -> 0 .. top]
  BY <1>5, <1>7, <1>a
<1> QED
  BY <1>0, <1>6, <1>7

(* Each cell has its grid point, and no other cell has it.                 *)
LEMMA CellsOnGrid ==
  /\ \A c \in Cells : GridPoint(c) \in Filter!Grid
  /\ \A c, d \in Cells : GridPoint(c) = GridPoint(d) => c = d
  /\ \A g \in Filter!Grid : \E c \in Cells : GridPoint(c) = g
<1>1. Dims \in Seq(Nat \ {0}) /\ Len(Dims) > 0 /\ Cells = 0 .. MappingSize(Dims) - 1
  BY DetectionAssumption DEF Cells
<1>2. \A c \in Cells : GridPoint(c) \in Filter!Grid
  BY <1>1, GridIs, ToGrid DEF GridPoint
<1>3. \A c, d \in Cells : GridPoint(c) = GridPoint(d) => c = d
  BY <1>1, ToGrid DEF GridPoint
<1>4. ASSUME NEW g \in Filter!Grid PROVE \E c \in Cells : GridPoint(c) = g
  <2>1. g \in [1 .. Len(Dims) -> Nat] /\ \A i \in 1 .. Len(Dims) : g[i] < Dims[i]
    BY GridIs
  <2> QED
    BY <1>1, <2>1, FromGrid DEF GridPoint
<1> QED
  BY <1>2, <1>3, <1>4

(* A point that counts as original is one of a cell that is not discarded. *)
IsPoint(p) ==
  /\ p = [cell |-> p.cell, values |-> p.values, original |-> p.original]
  /\ p.cell \in Cells /\ DOMAIN p.values \subseteq Vars /\ p.original \in BOOLEAN
  /\ p.original => ~Discarded(p.cell)

IsEntry(e, g) ==
  /\ DOMAIN e.values \subseteq Vars /\ e.original \in BOOLEAN
  /\ e.original => \E c \in Cells : GridPoint(c) = g /\ ~Discarded(c)

IsList(pts) ==
  /\ \E n \in Nat : pts = [i \in 1 .. n |-> pts[i]]
  /\ \A i \in DOMAIN pts : IsPoint(pts[i])

IsIndex(index) ==
  /\ DOMAIN index = Filter!Grid /\ index = [g \in Filter!Grid |-> index[g]]
  /\ \A g \in Filter!Grid : index[g] # NoPoint => IsEntry(index[g], g)

ClusterIsMeasured ==
  phase = "done" =>
    \A i \in DOMAIN list : list[i].cell \in cluster =>
      \A v \in DOMAIN list[i].values :
        LET x == list[i].values[v] IN
        /\ x = field.data[list[i].cell][v]
        /\ v \in field.replaced \/ x = Beyond \/ (field.lower[v] <= x /\ x <= field.upper[v])

Measured == IsList(list) /\ IsIndex(original) /\ IsIndex(filtered) /\ ClusterIsMeasured

(* Whether a cell is discarded does not change.                            *)
LEMMA FieldStays == ASSUME [RunNext]_runvars PROVE field' = field
<1>1. CASE UNCHANGED runvars
  BY <1>1 DEF runvars, vars
<1>2. CASE Build
  BY <1>2 DEF Build, Next, Step, Fetch, Read, Enter, Push, CompareLeast, SetLeast,
              CompareGreatest, SetGreatest
<1>3. CASE RunNext /\ ~Build
  BY <1>3 DEF RunNext, BuildEnds, ReplaceValues, FilterConvection, StartSmoothing, NoSmoothing,
              Smooth, ReplacePoints, FilterByWeight, Cluster, vars
<1> QED
  BY <1>1, <1>2, <1>3

(* The input decides which cells are discarded.                            *)
LEMMA DiscardedStays ==
  ASSUME field' = field PROVE \A c : Discarded(c)' = Discarded(c)
  BY DEF Discarded, Stops

(* A list is good wherever it is stored: in the list of the run,           *)
LEMMA ListBecomes ==
  ASSUME field' = field, NEW pts, IsList(pts), list' = pts PROVE IsList(list)'
  BY DiscardedStays DEF IsList, IsPoint

(* an index as the original of a stage,                                    *)
LEMMA OriginalBecomes ==
  ASSUME field' = field, NEW index, IsIndex(index), original' = index PROVE IsIndex(original)'
  BY DiscardedStays DEF IsIndex, IsEntry

(* or as the filtered one.                                                 *)
LEMMA FilteredBecomes ==
  ASSUME field' = field, NEW index, IsIndex(index), filtered' = index PROVE IsIndex(filtered)'
  BY DiscardedStays DEF IsIndex, IsEntry

(* Changes of the values leave a point where it is.                        *)
LEMMA PointChanged ==
  ASSUME NEW p, IsPoint(p), NEW values, DOMAIN values = DOMAIN p.values
  PROVE  IsPoint([p EXCEPT !.values = values]) /\ [p EXCEPT !.values = values].cell = p.cell
         /\ [p EXCEPT !.values = values].values = values
         /\ [p EXCEPT !.values = values].original = p.original
  BY DEF IsPoint

(* Changing points of a list one by one leaves a list.                     *)
LEMMA ListChanged ==
  ASSUME NEW pts, IsList(pts), NEW new, DOMAIN new = DOMAIN pts,
         new = [i \in DOMAIN new |-> new[i]],
         \A i \in DOMAIN pts : IsPoint(new[i])
  PROVE  IsList(new)
  BY DEF IsList

(* The points of the feature space are those of cells that stay.           *)
LEMMA PointsAreList == ASSUME IInv, Locals PROVE IsList(points)
<1>1. points \in Seq(PointType) /\ field \in Fields
  BY DEF IInv, Types
<1>2. \E n \in Nat : points = [i \in 1 .. n |-> points[i]]
  BY <1>1
<1>3. ASSUME NEW i \in DOMAIN points PROVE IsPoint(points[i])
  <2>1. PICK c \in Cells : points[i] = PointOf(c)
    BY <1>1, <1>3 DEF PointType
  <2>2. ~Discarded(c)
    <3>1. i \in 1 .. Len(points)
      BY <1>1, <1>3
    <3>2. points[i].cell = c
      BY <2>1 DEF PointOf
    <3> QED
      BY <3>1, <3>2 DEF IInv, NotTwice, PointCells
  <2>3. DOMAIN Values(c) \subseteq Vars
    <3>1. Values(c) \in Seq(Int) /\ Len(Values(c)) <= Rank
      BY <1>1, ValuesAreNumbers
    <3> QED
      BY <3>1, BuildAssumption DEF Vars
  <2> QED
    BY <2>1, <2>2, <2>3 DEF PointOf, IsPoint
<1> QED
  BY <1>2, <1>3 DEF IsList

(* The list of the run starts with them.                                   *)
LEMMA StepBuildEnds == ASSUME IInv, Locals, Measured, BuildEnds PROVE Measured'
<1>1. IsList(points) /\ field' = field /\ list' = points
  BY PointsAreList DEF BuildEnds, vars
<1>2. IsIndex(original)' /\ IsIndex(filtered)'
  BY <1>1, OriginalBecomes, FilteredBecomes DEF BuildEnds, filter, Measured
<1> QED
  BY <1>1, <1>2, ListBecomes DEF Measured, ClusterIsMeasured, BuildEnds

(* What is put into a point leaves it where it is.                         *)
LEMMA PutIsPoint ==
  ASSUME NEW p, IsPoint(p), NEW v, NEW x
  PROVE  /\ IsPoint(Put(p, v, x)) /\ Put(p, v, x).cell = p.cell
         /\ Put(p, v, x).original = p.original
         /\ DOMAIN Put(p, v, x).values = DOMAIN p.values
         /\ \A u \in DOMAIN p.values : Put(p, v, x).values[u] = p.values[u] \/ Put(p, v, x).values[u] = x
<1>1. CASE ~(v <= Len(p.values))
  BY <1>1 DEF Put
<1>2. CASE v <= Len(p.values)
  <2> DEFINE values == [p.values EXCEPT ![v] = x]
  <2>1. Put(p, v, x) = [p EXCEPT !.values = values]
    BY <1>2 DEF Put, IsPoint
  <2>2. /\ DOMAIN values = DOMAIN p.values
        /\ \A u \in DOMAIN p.values : values[u] = p.values[u] \/ values[u] = x
    OBVIOUS
  <2> HIDE DEF values
  <2> QED
    BY <2>1, <2>2, PointChanged
<1> QED
  BY <1>1, <1>2

(* Putting something into every point of a list leaves a list.             *)
LEMMA PutIsList ==
  ASSUME IsList(list), NEW v, NEW x
  PROVE  IsList([i \in DOMAIN list |-> Put(list[i], v, x[i])])
<1> DEFINE new == [i \in DOMAIN list |-> Put(list[i], v, x[i])]
<1>1. \A i \in DOMAIN list : IsPoint(new[i])
  BY PutIsPoint DEF IsList
<1>2. DOMAIN new = DOMAIN list /\ new = [i \in DOMAIN new |-> new[i]]
  OBVIOUS
<1> HIDE DEF new
<1>3. IsList(new)
  BY <1>1, <1>2, ListChanged
<1> QED
  BY <1>3 DEF new

(* The replacement filters change values only.                             *)
LEMMA StepReplaceValues == ASSUME Measured, ReplaceValues PROVE Measured'
<1>1. IsList(list) /\ field' = field
  BY DEF ReplaceValues, vars, Measured
<1>2. \E v, results : list' = [i \in DOMAIN list |-> Put(list[i], v, results[i])]
  BY DEF ReplaceValues
<1>3. IsList(list)'
  BY <1>1, <1>2, PutIsList, ListBecomes
<1>4. IsIndex(original)' /\ IsIndex(filtered)'
  BY <1>1, OriginalBecomes, FilteredBecomes DEF ReplaceValues, filter, Measured
<1>5. ClusterIsMeasured'
  BY DEF ClusterIsMeasured, ReplaceValues
<1> QED
  BY <1>3, <1>4, <1>5 DEF Measured

(* So does the convection filter.                                          *)
LEMMA StepFilterConvection == ASSUME Measured, FilterConvection PROVE Measured'
<1>1. IsList(list) /\ field' = field
  BY DEF FilterConvection, vars, Measured
<1>2. list' = list \/ list' = [i \in DOMAIN list |-> Put(list[i], Zeroed, 0)]
  BY DEF FilterConvection
<1>3. IsList(list)'
  <2> DEFINE zeroes == [i \in DOMAIN list |-> 0]
  <2>1. [i \in DOMAIN list |-> Put(list[i], Zeroed, 0)]
          = [i \in DOMAIN list |-> Put(list[i], Zeroed, zeroes[i])]
    OBVIOUS
  <2>2. IsList([i \in DOMAIN list |-> Put(list[i], Zeroed, zeroes[i])])
    BY <1>1, PutIsList
  <2> QED
    BY <1>1, <1>2, <2>1, <2>2, ListBecomes
<1>4. IsIndex(original)' /\ IsIndex(filtered)'
  BY <1>1, OriginalBecomes, FilteredBecomes DEF FilterConvection, filter, Measured
<1>5. ClusterIsMeasured'
  BY DEF ClusterIsMeasured, FilterConvection
<1> QED
  BY <1>3, <1>4, <1>5 DEF Measured

(* The index holds what the list does.                                     *)
LEMMA IndexOfList == ASSUME NEW pts, IsList(pts) PROVE IsIndex(IndexOf(pts))
<1> SUFFICES ASSUME NEW g \in Filter!Grid, IndexOf(pts)[g] # NoPoint
             PROVE  IsEntry(IndexOf(pts)[g], g)
  BY DEF IsIndex, IndexOf
<1>1. \E i \in DOMAIN pts : GridPoint(pts[i].cell) = g
  BY DEF IndexOf
<1> DEFINE i == CHOOSE i \in DOMAIN pts : GridPoint(pts[i].cell) = g
<1>2. i \in DOMAIN pts /\ GridPoint(pts[i].cell) = g
  BY <1>1
<1>3. IndexOf(pts)[g] = [values |-> pts[i].values, original |-> pts[i].original]
  BY <1>1 DEF IndexOf
<1>4. IsPoint(pts[i])
  BY <1>2 DEF IsList
<1> HIDE DEF i
<1> QED
  BY <1>2, <1>3, <1>4 DEF IsEntry, IsPoint

(* The list holds what is read of its points, variable for variable.       *)
LEMMA ReadIsList ==
  ASSUME IsList(list), NEW read, \A i \in DOMAIN list : DOMAIN read[i] = Vars
  PROVE  /\ IsList([i \in DOMAIN list |-> [list[i] EXCEPT !.values = read[i]]])
         /\ \A i \in DOMAIN list :
              /\ [list[i] EXCEPT !.values = read[i]].values = read[i]
              /\ [list[i] EXCEPT !.values = read[i]].cell = list[i].cell
<1> DEFINE new == [i \in DOMAIN list |-> [list[i] EXCEPT !.values = read[i]]]
<1>1. ASSUME NEW i \in DOMAIN list
      PROVE  IsPoint(new[i]) /\ new[i].values = read[i] /\ new[i].cell = list[i].cell
  BY DEF IsList, IsPoint
<1>2. DOMAIN new = DOMAIN list /\ new = [i \in DOMAIN new |-> new[i]]
  OBVIOUS
<1>3. \A i \in DOMAIN list : new[i] = [list[i] EXCEPT !.values = read[i]]
  OBVIOUS
<1> HIDE DEF new
<1>4. IsList(new)
  BY <1>1, <1>2, ListChanged
<1> QED
  BY <1>1, <1>3, <1>4 DEF new

(* The smoothing starts with a list of what is read, and its index.        *)
LEMMA StepStartSmoothing == ASSUME Measured, StartSmoothing PROVE Measured'
<1>1. field' = field /\ IsList(list)
  BY DEF StartSmoothing, vars, Measured
<1>2. PICK read : /\ \A i \in DOMAIN list : read[i] \in Readable(list[i])
                  /\ list' = [i \in DOMAIN list |-> [list[i] EXCEPT !.values = read[i]]]
                  /\ original' = IndexOf(list') /\ filtered' = filtered
  BY DEF StartSmoothing, Filter!Apply
<1>3. \A i \in DOMAIN list : DOMAIN read[i] = Vars
  BY <1>2 DEF Readable
<1>4. PICK new : new = [i \in DOMAIN list |-> [list[i] EXCEPT !.values = read[i]]]
  OBVIOUS
<1>5. IsList(new) /\ list' = new
  BY <1>1, <1>2, <1>3, <1>4, ReadIsList
<1>6. IsList(list)' /\ IsIndex(filtered)'
  BY <1>1, <1>2, <1>5, ListBecomes, FilteredBecomes DEF Measured
<1>7. original' = IndexOf(new) /\ IsIndex(IndexOf(new))
  BY <1>2, <1>5, IndexOfList
<1>8. IsIndex(original)'
  BY <1>1, <1>7, OriginalBecomes
<1>9. ClusterIsMeasured'
  BY DEF ClusterIsMeasured, StartSmoothing
<1> QED
  BY <1>6, <1>8, <1>9 DEF Measured

(* An empty index has no points to be wrong.                               *)
LEMMA EmptyIsIndex == IsIndex(Filter!EmptyIndex)
  BY DEF IsIndex, Filter!EmptyIndex

(* A change somewhere else.                                                *)
LEMMA ElseWhere ==
  ASSUME NEW f, NEW g, NEW e, NEW h \in DOMAIN f
  PROVE  [f EXCEPT ![g] = e][h] = IF h = g THEN e ELSE f[h]
<1>1. [f EXCEPT ![g] = e] = [x \in DOMAIN f |-> IF x = g THEN e ELSE f[x]]
  OBVIOUS
<1> QED
  BY <1>1

(* What is written to the filtered index is original only if one of the    *)
(* two indexes has a point there that is.                                  *)
LEMMA ConvolvedIsEntry ==
  ASSUME Measured, NEW t \in Threads, NEW g, NEW values, DOMAIN values = Vars,
         filtered' = [filtered EXCEPT ![g] = [values |-> values, original |-> Filter!IsOriginal(g)]],
         field' = field
  PROVE  IsIndex(filtered)'
<1>0. PICK e : e = [values |-> values, original |-> Filter!IsOriginal(g)]
  OBVIOUS
<1>a. filtered' = [filtered EXCEPT ![g] = e]
  BY <1>0
<1>b. PICK new : /\ new = [filtered EXCEPT ![g] = e]
                 /\ DOMAIN new = DOMAIN filtered
                 /\ \A h \in DOMAIN filtered : new[h] = IF h = g THEN e ELSE filtered[h]
  <2>1. \A h \in DOMAIN filtered : [filtered EXCEPT ![g] = e][h] = IF h = g THEN e ELSE filtered[h]
    BY ElseWhere
  <2> QED
    BY <2>1
<1>1. ASSUME g \in Filter!Grid PROVE IsEntry(e, g)
  <2>1. /\ filtered[g] # NoPoint => IsEntry(filtered[g], g)
        /\ original[g] # NoPoint => IsEntry(original[g], g)
    BY <1>1 DEF Measured, IsIndex
  <2>2. Filter!IsOriginal(g) \in BOOLEAN
    BY DEF Filter!IsOriginal
  <2>3. Filter!IsOriginal(g) => \E c \in Cells : GridPoint(c) = g /\ ~Discarded(c)
    BY <2>1 DEF Filter!IsOriginal, IsEntry
  <2> QED
    BY <1>0, <2>2, <2>3 DEF IsEntry
<1>2. IsIndex(new)
  <2> SUFFICES ASSUME NEW h \in Filter!Grid, new[h] # NoPoint PROVE IsEntry(new[h], h)
    BY <1>b DEF IsIndex, Measured
  <2>3. h \in DOMAIN filtered
    BY DEF IsIndex, Measured
  <2>1. new[h] = filtered[h] \/ (h = g /\ new[h] = e)
    BY <1>b, <2>3
  <2>2. filtered[h] # NoPoint => IsEntry(filtered[h], h)
    BY DEF Measured, IsIndex
  <2> QED
    BY <1>1, <2>1, <2>2
<1> QED
  BY <1>a, <1>b, <1>2, FilteredBecomes

(* Smoothing fills in points that are not original.                        *)
LEMMA StepSmooth == ASSUME Measured, Smooth, field.team \subseteq Threads PROVE Measured'
<1>1. field' = field /\ list' = list /\ cluster' = cluster /\ phase' = phase
  BY DEF Smooth, vars, after
<1>2. IsList(list)' /\ ClusterIsMeasured'
  BY <1>1, ListBecomes DEF Measured, ClusterIsMeasured
<1>3. CASE UNCHANGED <<original, filtered>>
  BY <1>1, <1>2, <1>3, OriginalBecomes, FilteredBecomes DEF Measured
<1>4. ASSUME NEW t \in field.team, Filter!Convolve(t), t \in Threads PROVE Measured'
  <2> DEFINE g == Filter!GridPointOf(at[t], k[t])
             values == [v \in Filter!SVars |-> Filter!Convolution(at[t], k[t], v)]
  <2>1. original' = original
    BY <1>4 DEF Filter!Convolve
  <2>2. \/ filtered' = filtered
        \/ filtered' = [filtered EXCEPT ![g] = [values |-> values, original |-> Filter!IsOriginal(g)]]
    BY <1>4 DEF Filter!Convolve
  <2>3. DOMAIN values = Vars
    BY DEF Filter!SVars, Vars
  <2> HIDE DEF g, values
  <2>4. IsIndex(filtered)'
    BY <1>1, <1>4, <2>2, <2>3, ConvolvedIsEntry, FilteredBecomes DEF Measured
  <2> QED
    BY <1>1, <1>2, <2>1, <2>4, OriginalBecomes DEF Measured
<1>5. ASSUME Filter!EndStage(field.team) PROVE Measured'
  <2>1. CASE original' = filtered /\ filtered' = Filter!EmptyIndex
    <3>1. IsIndex(original)' /\ IsIndex(filtered)'
      BY <1>1, <2>1, OriginalBecomes, FilteredBecomes, EmptyIsIndex DEF Measured
    <3> QED
      BY <1>2, <3>1 DEF Measured
  <2> QED
    BY <1>3, <1>5, <2>1 DEF Filter!EndStage
<1>6. ASSUME NEW t \in field.team, Filter!Work(t), ~Filter!Convolve(t)
      PROVE  UNCHANGED <<original, filtered>>
  BY <1>6 DEF Filter!Work, Filter!FetchLine, Filter!CompareLeastSum, Filter!SetLeastSum,
              Filter!CompareGreatestSum, Filter!SetGreatestSum
<1>7. \A t \in field.team : Filter!Convolve(t) => t \in Threads
  BY <1>4
<1> QED
  BY <1>3, <1>4, <1>5, <1>6, <1>7 DEF Smooth

(* Where the filtered index has an original point, its cell stays.         *)
LEMMA StepReplacePoints == ASSUME Measured, ReplacePoints PROVE Measured'
<1> DEFINE S == {i \in 1 .. Size : filtered[GridPoint(i - 1)] # NoPoint}
           cells == [i \in 1 .. Size |-> i - 1]
           Copy(c) == [cell |-> c, values |-> filtered[GridPoint(c)].values,
                       original |-> filtered[GridPoint(c)].original]
<1>1. field' = field /\ UNCHANGED <<original, filtered>> /\ phase' = "weights"
  BY DEF ReplacePoints, vars, filter
<1>2. PICK kept : kept = Picked(cells, S)
  OBVIOUS
<1>3. list' = [i \in DOMAIN kept |-> Copy(kept[i])]
  BY <1>2 DEF ReplacePoints
<1>4. Size \in Nat /\ cells \in Seq(Cells) /\ DOMAIN cells = 1 .. Size
  <2>1. Size \in Nat
    BY BuildAssumption
  <2>2. cells \in [1 .. Size -> Cells]
    BY <2>1 DEF Cells
  <2> QED
    BY <2>1, <2>2
<1>5. \A j \in 1 .. Size : cells[j] = j - 1
  OBVIOUS
<1>6. /\ kept \in Seq(Cells)
      /\ \A i \in DOMAIN kept : \E j \in DOMAIN cells \cap S : kept[i] = cells[j]
  <2> HIDE DEF cells, S
  <2> QED
    BY <1>2, <1>4, PickedElements
<1>7. ASSUME NEW i \in DOMAIN kept
      PROVE  kept[i] \in Cells /\ filtered[GridPoint(kept[i])] # NoPoint
  <2>1. PICK j \in DOMAIN cells \cap S : kept[i] = cells[j]
    BY <1>6
  <2>2. kept[i] = j - 1 /\ j \in S /\ j \in 1 .. Size
    BY <1>4, <1>5, <2>1
  <2>3. kept[i] \in Cells
    BY <1>4, <2>2 DEF Cells
  <2> QED
    BY <2>2, <2>3
<1> HIDE DEF cells, S
<1>8. ASSUME NEW c \in Cells, filtered[GridPoint(c)] # NoPoint PROVE IsPoint(Copy(c))
  <2>1. IsEntry(filtered[GridPoint(c)], GridPoint(c))
    BY <1>8, CellsOnGrid DEF Measured, IsIndex
  <2>2. filtered[GridPoint(c)].original => ~Discarded(c)
    BY <2>1, CellsOnGrid DEF IsEntry
  <2> QED
    BY <2>1, <2>2 DEF IsEntry, IsPoint
<1> DEFINE new == [i \in DOMAIN kept |-> Copy(kept[i])]
<1>9. \A i \in DOMAIN kept : IsPoint(new[i])
  BY <1>7, <1>8
<1>10. /\ \E n \in Nat : new = [i \in 1 .. n |-> new[i]]
       /\ DOMAIN new = DOMAIN kept
  <2>1. PICK n \in Nat : DOMAIN kept = 1 .. n
    BY <1>6
  <2> HIDE DEF Copy
  <2> QED
    BY <2>1
<1> HIDE DEF Copy
<1>a. list' = new
  BY <1>3
<1> HIDE DEF new
<1>11. IsList(new)
  BY <1>9, <1>10 DEF IsList
<1>12. IsList(list)' /\ IsIndex(original)' /\ IsIndex(filtered)'
  BY <1>1, <1>a, <1>11, ListBecomes, OriginalBecomes, FilteredBecomes DEF Measured
<1> QED
  BY <1>1, <1>12 DEF Measured, ClusterIsMeasured

(* A list is a sequence of its points.                                     *)
LEMMA ListIsSeq ==
  ASSUME NEW pts, IsList(pts)
  PROVE  pts \in Seq({pts[i] : i \in DOMAIN pts}) /\ \E n \in Nat : DOMAIN pts = 1 .. n /\ Len(pts) = n
<1>1. PICK n \in Nat : pts = [i \in 1 .. n |-> pts[i]]
  BY DEF IsList
<1>2. pts \in [1 .. n -> {pts[i] : i \in DOMAIN pts}]
  BY <1>1
<1> QED
  BY <1>1, <1>2

(* Picked points of a list are a list of points of it.                     *)
LEMMA PickedIsList ==
  ASSUME NEW pts, IsList(pts), NEW S
  PROVE  /\ IsList(Picked(pts, S))
         /\ \A i \in DOMAIN Picked(pts, S) : \E j \in DOMAIN pts \cap S : Picked(pts, S)[i] = pts[j]
<1> DEFINE T == {pts[i] : i \in DOMAIN pts}
<1>1. pts \in Seq(T)
  BY ListIsSeq
<1> HIDE DEF T
<1>2. /\ Picked(pts, S) \in Seq(T)
      /\ \A i \in DOMAIN Picked(pts, S) : \E j \in DOMAIN pts \cap S : Picked(pts, S)[i] = pts[j]
  BY <1>1, PickedElements
<1>3. PICK new \in Seq(T) : new = Picked(pts, S)
  BY <1>2
<1>4. \E n \in Nat : new = [i \in 1 .. n |-> new[i]]
  OBVIOUS
<1>5. \A i \in DOMAIN new : IsPoint(new[i])
  BY <1>2, <1>3 DEF IsList
<1> QED
  BY <1>2, <1>3, <1>4, <1>5 DEF IsList

(* The weight function only removes points.                                *)
LEMMA StepFilterByWeight == ASSUME Measured, FilterByWeight PROVE Measured'
<1>1. field' = field /\ UNCHANGED <<original, filtered>> /\ phase' = "cluster"
  BY DEF FilterByWeight, vars, filter
<1>2. IsList(list)'
  <2>1. list' = list \/ \E S : list' = Picked(list, S)
    BY DEF FilterByWeight
  <2> QED
    BY <1>1, <2>1, PickedIsList, ListBecomes DEF Measured
<1>3. IsIndex(original)' /\ IsIndex(filtered)'
  BY <1>1, OriginalBecomes, FilteredBecomes DEF Measured
<1> QED
  BY <1>1, <1>2, <1>3 DEF Measured, ClusterIsMeasured

(* The value of a variable that was not replaced, in a cell that stays.    *)
LEMMA StaysWithin ==
  ASSUME field \in Fields, NEW c \in Cells, ~Discarded(c), NEW v \in Vars, v \notin field.replaced,
         field.data[c][v] # Beyond
  PROVE  field.lower[v] <= field.data[c][v] /\ field.data[c][v] <= field.upper[v]
<1>1. ~Stops(c, v)
  BY DEF Discarded
<1>2. /\ field.data[c][v] \in Int \cup {Missing, Beyond}
      /\ field.lower[v] \in Int /\ field.upper[v] \in Int
  BY BuildAssumption DEF IsField
<1> QED
  BY <1>1, <1>2 DEF Stops

(* Points of a cluster get back what was measured in their cells.          *)
LEMMA StepCluster == ASSUME Measured, field \in Fields, Cluster PROVE Measured'
<1>1. field' = field /\ UNCHANGED <<original, filtered>>
  BY DEF Cluster, vars, filter
<1>2. PICK cells \in SUBSET Originals :
        /\ cluster' = cells
        /\ list' = [i \in DOMAIN list |->
                     IF list[i].cell \in cells THEN Restored(list[i]) ELSE list[i]]
  BY DEF Cluster
<1> DEFINE new == [i \in DOMAIN list |->
                     IF list[i].cell \in cells THEN Restored(list[i]) ELSE list[i]]
<1>3. ASSUME NEW i \in DOMAIN list, list[i].cell \in cells
      PROVE  /\ new[i] = Restored(list[i]) /\ IsPoint(Restored(list[i]))
             /\ Restored(list[i]).cell = list[i].cell
             /\ Restored(list[i]).values = [v \in DOMAIN list[i].values |-> field.data[list[i].cell][v]]
  <2> DEFINE values == [v \in DOMAIN list[i].values |-> field.data[list[i].cell][v]]
  <2>1. IsPoint(list[i]) /\ DOMAIN values = DOMAIN list[i].values
    BY DEF Measured, IsList
  <2>2. Restored(list[i]) = [list[i] EXCEPT !.values = values]
    BY DEF Restored
  <2>3. new[i] = Restored(list[i])
    BY <1>3
  <2> HIDE DEF values, new
  <2> QED
    BY <2>1, <2>2, <2>3, PointChanged DEF values
<1>4. ASSUME NEW i \in DOMAIN list, list[i].cell \notin cells
      PROVE  new[i] = list[i] /\ IsPoint(list[i])
  BY <1>4 DEF Measured, IsList
<1>5. DOMAIN new = DOMAIN list /\ new = [i \in DOMAIN new |-> new[i]]
  OBVIOUS
<1>a. list' = new
  BY <1>2
<1> HIDE DEF new
<1>6. \A i \in DOMAIN list : IsPoint(new[i])
  BY <1>3, <1>4
<1>7. IsList(new)
  BY <1>5, <1>6, ListChanged DEF Measured
<1>8. IsList(list)' /\ IsIndex(original)' /\ IsIndex(filtered)'
  BY <1>1, <1>a, <1>7, ListBecomes, OriginalBecomes, FilteredBecomes DEF Measured
<1>9. ASSUME NEW i \in DOMAIN new, new[i].cell \in cells,
             NEW v \in DOMAIN new[i].values
      PROVE  LET x == new[i].values[v] IN
             /\ x = field.data[new[i].cell][v]
             /\ v \in field.replaced \/ x = Beyond \/ (field.lower[v] <= x /\ x <= field.upper[v])
  <2>1. i \in DOMAIN list
    BY <1>5
  <2>2. list[i].cell \in cells
    BY <1>4, <1>9, <2>1
  <2> DEFINE c == list[i].cell
  <2>3. /\ new[i].cell = c /\ DOMAIN new[i].values \subseteq Vars
        /\ new[i].values[v] = field.data[c][v]
    <3>1. /\ new[i].cell = c
          /\ new[i].values = [u \in DOMAIN list[i].values |-> field.data[c][u]]
      BY <1>3, <2>1, <2>2
    <3>2. DOMAIN new[i].values \subseteq Vars
      BY <1>6, <2>1 DEF IsPoint
    <3>3. v \in DOMAIN new[i].values
      BY <1>9
    <3> HIDE DEF c
    <3>4. v \in DOMAIN list[i].values
      BY <3>1, <3>3
    <3> QED
      BY <3>1, <3>2, <3>4
  <2>4. c \in Cells /\ ~Discarded(c)
    <3>1. PICK j \in DOMAIN list : list[j].original /\ list[j].cell = c
      BY <2>2 DEF Originals
    <3> QED
      BY <3>1 DEF Measured, IsList, IsPoint
  <2> HIDE DEF c
  <2>5. v \in Vars
    BY <1>9, <2>3
  <2> QED
    BY <2>3, <2>4, <2>5, StaysWithin
<1>10. ClusterIsMeasured'
  BY <1>1, <1>2, <1>a, <1>9 DEF ClusterIsMeasured
<1> QED
  BY <1>8, <1>10 DEF Measured

(* Each step of the run.                                                   *)
LEMMA StepMeasured == IInv /\ Locals /\ Measured /\ [RunNext]_runvars => Measured'
<1> SUFFICES ASSUME IInv, Locals, Measured, [RunNext]_runvars PROVE Measured'
  OBVIOUS
<1>0. field' = field /\ field \in Fields /\ field.team \subseteq Threads
  BY FieldStays, BuildAssumption DEF IInv, Types, IsField
<1>1. ASSUME UNCHANGED <<filter, after, phase>> PROVE Measured'
  <2>1. UNCHANGED <<list, original, filtered, cluster, phase>>
    BY <1>1 DEF filter, after
  <2>2. IsList(list)' /\ IsIndex(original)' /\ IsIndex(filtered)'
    BY <1>0, <2>1, ListBecomes, OriginalBecomes, FilteredBecomes DEF Measured
  <2> QED
    BY <1>0, <2>1, <2>2 DEF Measured, ClusterIsMeasured
<1>2. CASE UNCHANGED runvars \/ Build
  BY <1>1, <1>2 DEF runvars, Build
<1>3. CASE NoSmoothing
  <2>1. UNCHANGED <<list, original, filtered, cluster>> /\ phase' = "weights"
    BY <1>3 DEF NoSmoothing, filter, after
  <2>2. IsList(list)' /\ IsIndex(original)' /\ IsIndex(filtered)'
    BY <1>0, <2>1, ListBecomes, OriginalBecomes, FilteredBecomes DEF Measured
  <2> QED
    BY <2>1, <2>2 DEF Measured, ClusterIsMeasured
<1> QED
  BY <1>0, <1>2, <1>3, StepBuildEnds, StepReplaceValues, StepFilterConvection, StepStartSmoothing, StepSmooth,
     StepReplacePoints, StepFilterByWeight, StepCluster DEF RunNext

(* There are no points at the beginning.                                   *)
LEMMA InitMeasured == RunInit => Measured
<1> SUFFICES ASSUME RunInit PROVE Measured
  OBVIOUS
<1>1. list = <<>> /\ phase = "build" /\ original = Filter!EmptyIndex /\ filtered = Filter!EmptyIndex
  BY DEF RunInit, Filter!SmoothInit
<1>2. IsList(list)
  BY <1>1 DEF IsList
<1> QED
  BY <1>1, <1>2, EmptyIsIndex DEF Measured, ClusterIsMeasured

(* Points that count as original were measured and met the criteria where  *)
(* they are, and a cluster is described by what was measured there.        *)
THEOREM ClustersAreOfMeasurements == RunSpec => []ClustersAreMeasured
<1>1. RunSpec => [](IInv /\ Locals)
  BY BuildHolds, RunIsBuild, PTL
<1>2. RunSpec => []Measured
  BY <1>1, InitMeasured, StepMeasured, PTL DEF RunSpec
<1>3. Measured => ClustersAreMeasured
  BY DEF Measured, ClusterIsMeasured, ClustersAreMeasured, Originals, IsList, IsPoint
<1> QED
  BY <1>2, <1>3, PTL

Sums == {"compare_least", "set_least", "compare_greatest", "set_greatest"}

(* The threads of the filter: who is in the team has work until all lines  *)
(* are handed out, and works on a line that was.                           *)
OnLines ==
  /\ stage \in 0 .. Len(Dims) + 1
  /\ spc \in [Threads -> Sums \cup {"fetch", "convolve", "over"}]
  /\ line \in Nat
  /\ at \in [Threads -> Nat] /\ k \in [Threads -> Nat] /\ svar \in [Threads -> Vars]
  /\ stage \in Filter!Stages => line <= Filter!MappingSize(Filter!OtherDims)
  /\ \A t \in Threads :
       /\ spc[t] # "over" => t \in field.team /\ stage \in Filter!Stages
       /\ spc[t] \in Sums \cup {"convolve"} => at[t] < line /\ k[t] < Dims[stage]
       /\ spc[t] = "over" /\ t \in field.team /\ stage \in Filter!Stages =>
            line = Filter!MappingSize(Filter!OtherDims)

(* What a step of a thread does with its line.                             *)
LineTaken(t) ==
  /\ spc[t] = "fetch" /\ spc'[t] = "convolve"
  /\ line < Filter!MappingSize(Filter!OtherDims)
  /\ line' = line + 1 /\ at'[t] = line /\ k'[t] = 0 /\ svar' = svar
  /\ UNCHANGED <<filtered, fmin, fmax>>

NoLine(t) ==
  /\ spc[t] = "fetch" /\ spc'[t] = "over"
  /\ ~(line < Filter!MappingSize(Filter!OtherDims))
  /\ line' = line /\ at'[t] = 0 /\ k'[t] = 0 /\ svar' = svar
  /\ UNCHANGED <<filtered, fmin, fmax>>

Onwards(t) ==
  /\ line' = line /\ at' = at /\ k'[t] = k[t] + 1
  /\ \/ k[t] + 1 < Dims[stage] /\ spc'[t] = "convolve"
     \/ ~(k[t] + 1 < Dims[stage]) /\ spc'[t] = "fetch"

NothingAround(t) ==
  /\ spc[t] = "convolve" /\ Filter!Sampled(at[t], k[t]) = {}
  /\ Onwards(t)
  /\ UNCHANGED <<svar, filtered, fmin, fmax>>

Written(t) ==
  /\ spc[t] = "convolve" /\ Filter!Sampled(at[t], k[t]) # {} /\ spc'[t] = "compare_least"
  /\ filtered' = [filtered EXCEPT ![Filter!GridPointOf(at[t], k[t])] =
        [values |-> [v \in Filter!SVars |-> Filter!Convolution(at[t], k[t], v)],
         original |-> Filter!IsOriginal(Filter!GridPointOf(at[t], k[t]))]]
  /\ UNCHANGED <<line, at, k, svar, fmin, fmax>>

Compared(t) ==
  /\ spc[t] \in Sums /\ spc'[t] \in Sums
  /\ UNCHANGED <<line, at, k, filtered>>
  /\ svar'[t] = svar[t] \/ (svar[t] < Rank /\ svar'[t] = svar[t] + 1)

LastCompared(t) ==
  /\ spc[t] \in Sums /\ Onwards(t) /\ svar'[t] = 1 /\ UNCHANGED filtered

SameThread(s) == spc'[s] = spc[s] /\ at'[s] = at[s] /\ k'[s] = k[s] /\ svar'[s] = svar[s]

TypesOf ==
  /\ spc \in [Threads -> Sums \cup {"fetch", "convolve", "over"}]
  /\ at \in [Threads -> Nat] /\ k \in [Threads -> Nat] /\ svar \in [Threads -> Vars]

(* A step of a thread changes neither the stage nor the original index,    *)
(* and the places of no other thread.                                      *)
LEMMA WorkTypes ==
  ASSUME OnLines, NEW t \in Threads, Filter!Work(t)
  PROVE  /\ stage' = stage /\ original' = original
         /\ \A s \in Threads \ {t} : SameThread(s)
         /\ TypesOf'
<1> USE DEF Filter!SGoto, Filter!sranges, OnLines, TypesOf, SameThread
<1>0. \A x \in Sums \cup {"fetch", "convolve", "over"} :
        [spc EXCEPT ![t] = x] \in [Threads -> Sums \cup {"fetch", "convolve", "over"}]
  OBVIOUS
<1>1. CASE Filter!FetchLine(t)
  <2>1. \E x \in {"convolve", "over"}, n \in Nat :
          /\ spc' = [spc EXCEPT ![t] = x]
          /\ at' = [at EXCEPT ![t] = n] /\ k' = [k EXCEPT ![t] = 0]
          /\ svar' = svar /\ stage' = stage /\ original' = original
    BY <1>1 DEF Filter!FetchLine
  <2>2. PICK x \in {"convolve", "over"}, n \in Nat :
          /\ spc' = [spc EXCEPT ![t] = x]
          /\ at' = [at EXCEPT ![t] = n] /\ k' = [k EXCEPT ![t] = 0]
          /\ svar' = svar /\ stage' = stage /\ original' = original
    BY <2>1
  <2> QED
    BY <1>0, <2>2
<1>n. Filter!NextPlace(t) => /\ k' \in [Threads -> Nat] /\ \A s \in Threads \ {t} : k'[s] = k[s]
                             /\ spc' \in [Threads -> Sums \cup {"fetch", "convolve", "over"}]
                             /\ \A s \in Threads \ {t} : spc'[s] = spc[s]
  BY DEF Filter!NextPlace
<1>2. CASE Filter!Convolve(t)
  BY <1>2, <1>n DEF Filter!Convolve, Sums
<1>3. CASE Filter!CompareLeastSum(t) \/ Filter!SetLeastSum(t)
  BY <1>3 DEF Filter!CompareLeastSum, Filter!SetLeastSum, Sums
<1>m. ASSUME Filter!NextSum(t)
      PROVE  /\ k' \in [Threads -> Nat] /\ \A s \in Threads \ {t} : k'[s] = k[s]
             /\ spc' \in [Threads -> Sums \cup {"fetch", "convolve", "over"}]
             /\ \A s \in Threads \ {t} : spc'[s] = spc[s]
             /\ svar' \in [Threads -> Vars] /\ \A s \in Threads \ {t} : svar'[s] = svar[s]
  <2>1. svar[t] \in Vars /\ (svar[t] < Rank => svar[t] + 1 \in Vars) /\ 1 \in Vars
    BY BuildAssumption DEF Vars
  <2>2. CASE svar[t] < Rank
    BY <1>m, <2>1, <2>2 DEF Filter!NextSum, Sums
  <2>3. CASE ~(svar[t] < Rank)
    BY <1>m, <1>n, <2>1, <2>3 DEF Filter!NextSum
  <2> QED
    BY <2>2, <2>3
<1>4. CASE Filter!CompareGreatestSum(t)
  <2>1. CASE Filter!SGoto(t, "set_greatest") /\ UNCHANGED <<k, svar>>
    BY <1>4, <2>1 DEF Filter!CompareGreatestSum, Sums
  <2>2. CASE Filter!NextSum(t)
    BY <1>4, <1>m, <2>2 DEF Filter!CompareGreatestSum
  <2> QED
    BY <1>4, <2>1, <2>2 DEF Filter!CompareGreatestSum
<1>5. CASE Filter!SetGreatestSum(t)
  BY <1>5, <1>m DEF Filter!SetGreatestSum
<1> QED
  BY <1>1, <1>2, <1>3, <1>4, <1>5 DEF Filter!Work

(* Each step of a thread is one of these.                                  *)
LEMMA WorkEffects ==
  ASSUME OnLines, NEW t \in Threads, Filter!Work(t)
  PROVE  LineTaken(t) \/ NoLine(t) \/ NothingAround(t) \/ Written(t) \/ Compared(t) \/ LastCompared(t)
<1> USE DEF Filter!SGoto, Filter!sranges, OnLines
<1>1. CASE Filter!FetchLine(t)
  <2>1. CASE line < Filter!MappingSize(Filter!OtherDims)
    BY <1>1, <2>1 DEF Filter!FetchLine, LineTaken
  <2>2. CASE ~(line < Filter!MappingSize(Filter!OtherDims))
    BY <1>1, <2>2 DEF Filter!FetchLine, NoLine
  <2> QED
    BY <2>1, <2>2
<1>n. ASSUME Filter!NextPlace(t), UNCHANGED <<line, at>> PROVE Onwards(t)
  <2>1. CASE k[t] + 1 < Dims[stage]
    BY <1>n, <2>1 DEF Filter!NextPlace, Onwards
  <2>2. CASE ~(k[t] + 1 < Dims[stage])
    BY <1>n, <2>2 DEF Filter!NextPlace, Onwards
  <2> QED
    BY <2>1, <2>2
<1>2. CASE Filter!Convolve(t)
  <2>1. CASE Filter!Sampled(at[t], k[t]) = {}
    BY <1>2, <1>n, <2>1 DEF Filter!Convolve, NothingAround
  <2>2. CASE Filter!Sampled(at[t], k[t]) # {}
    BY <1>2, <2>2 DEF Filter!Convolve, Written
  <2> QED
    BY <2>1, <2>2
<1>3. CASE Filter!CompareLeastSum(t) \/ Filter!SetLeastSum(t)
  BY <1>3 DEF Filter!CompareLeastSum, Filter!SetLeastSum, Sums, Compared
<1>m. ASSUME Filter!NextSum(t), UNCHANGED <<line, at, filtered>>, spc[t] \in Sums
      PROVE  Compared(t) \/ LastCompared(t)
  <2>2. CASE svar[t] < Rank
    BY <1>m, <2>2 DEF Filter!NextSum, Sums, Compared
  <2>3. CASE ~(svar[t] < Rank)
    BY <1>m, <1>n, <2>3 DEF Filter!NextSum, LastCompared
  <2> QED
    BY <2>2, <2>3
<1>4. CASE Filter!CompareGreatestSum(t)
  <2>0. spc[t] \in Sums /\ UNCHANGED <<line, at, filtered>>
    BY <1>4 DEF Filter!CompareGreatestSum, Sums
  <2>1. CASE Filter!SGoto(t, "set_greatest") /\ UNCHANGED <<k, svar>>
    BY <2>0, <2>1 DEF Sums, Compared
  <2>2. CASE Filter!NextSum(t)
    BY <2>0, <1>m, <2>2
  <2> QED
    BY <1>4, <2>1, <2>2 DEF Filter!CompareGreatestSum
<1>5. CASE Filter!SetGreatestSum(t)
  <2>0. spc[t] \in Sums /\ UNCHANGED <<line, at, filtered>>
    BY <1>5 DEF Filter!SetGreatestSum, Sums
  <2> QED
    BY <1>5, <1>m, <2>0 DEF Filter!SetGreatestSum
<1> QED
  BY <1>1, <1>2, <1>3, <1>4, <1>5 DEF Filter!Work

(* Lines have points, and there is a line along every dimension.           *)
LEMMA LinesAre ==
  ASSUME NEW n \in 1 .. Len(Dims)
  PROVE  /\ Filter!RemoveAt(Dims, n) \in Seq(Nat \ {0}) /\ Len(Filter!RemoveAt(Dims, n)) = Len(Dims) - 1
         /\ Filter!MappingSize(Filter!RemoveAt(Dims, n)) \in Nat \ {0}
         /\ Dims[n] \in Nat \ {0}
         /\ \A d \in 1 .. Len(Dims) - 1 :
              Filter!RemoveAt(Dims, n)[d] = IF d < n THEN Dims[d] ELSE Dims[d + 1]
<1>0. PICK N \in Nat \ {0, 1} : N = Len(Dims) /\ DOMAIN Dims = 1 .. N
  BY DetectionAssumption
<1>1. n \in 1 .. N /\ \A d \in 1 .. N : Dims[d] \in Nat \ {0}
  BY <1>0, DetectionAssumption 
<1> DEFINE front == SubSeq(Dims, 1, n - 1)
           back == SubSeq(Dims, n + 1, Len(Dims))
<1>2. Filter!RemoveAt(Dims, n) = front \o back
  BY DEF Filter!RemoveAt
<1>3. /\ front \in Seq(Nat \ {0}) /\ Len(front) = n - 1
      /\ \A d \in 1 .. n - 1 : front[d] = Dims[d]
  BY <1>0, <1>1, DetectionAssumption
<1>4. /\ back \in Seq(Nat \ {0}) /\ Len(back) = N - n
      /\ \A d \in 1 .. N - n : back[d] = Dims[d + n]
  BY <1>0, <1>1, DetectionAssumption
<1> HIDE DEF front, back
<1>5. front \o back \in Seq(Nat \ {0}) /\ Len(front \o back) = N - 1
  BY <1>1, <1>3, <1>4
<1>6. ASSUME NEW d \in 1 .. N - 1
      PROVE  (front \o back)[d] = IF d < n THEN Dims[d] ELSE Dims[d + 1]
  <2>1. CASE d < n
    BY <1>1, <1>3, <1>4, <2>1
  <2>2. CASE ~(d < n)
    <3>1. (front \o back)[d] = back[d - (n - 1)]
      BY <1>1, <1>3, <1>4, <2>2
    <3>2. d - (n - 1) \in 1 .. N - n /\ (d - (n - 1)) + n = d + 1
      BY <1>1, <2>2
    <3> QED
      BY <1>4, <2>2, <3>1, <3>2
  <2> QED
    BY <2>1, <2>2
<1>7. PICK other \in Seq(Nat \ {0}) : other = Filter!RemoveAt(Dims, n) /\ Len(other) = N - 1
  BY <1>2, <1>5
<1>8. MappingSize(other) \in Nat \ {0}
  <2>1. SliceSizes(other) \in [1 .. Len(other) -> Nat \ {0}] /\ Len(other) > 0
    BY <1>0, <1>7, SlicesAre
  <2>2. SliceSizes(other)[1] \in Nat \ {0} /\ other[1] \in Nat \ {0}
    BY <2>1, <1>7
  <2> QED
    BY <2>2 DEF MappingSize
<1>9. Filter!MappingSize(other) = MappingSize(other)
  BY DEF MappingSize, SliceSizes, Filter!MappingSize, Filter!SliceSizes
<1> QED
  BY <1>0, <1>1, <1>2, <1>6, <1>7, <1>8, <1>9

(* Threads stay on lines that were handed out.                             *)
LEMMA StepWork ==
  ASSUME OnLines, NEW t \in Threads, Filter!Work(t), field' = field
  PROVE  OnLines'
<1>1. /\ stage' = stage /\ TypesOf' /\ \A s \in Threads \ {t} : SameThread(s)
  BY WorkTypes
<1>2. LineTaken(t) \/ NoLine(t) \/ NothingAround(t) \/ Written(t) \/ Compared(t) \/ LastCompared(t)
  BY WorkEffects
<1>3. spc[t] # "over" /\ t \in field.team /\ stage \in Filter!Stages
  BY <1>2 DEF OnLines, Sums, LineTaken, NoLine, NothingAround, Written, Compared, LastCompared
<1> DEFINE M == Filter!MappingSize(Filter!OtherDims)
<1>4. M' = M /\ M \in Nat \ {0} /\ Dims[stage] \in Nat \ {0}
  BY <1>1, <1>3, LinesAre DEF Filter!OtherDims, Filter!Stages
<1> HIDE DEF M
<1>5. line \in Nat /\ line <= M /\ line' \in Nat /\ line' <= M /\ line <= line'
  BY <1>2, <1>3, <1>4 DEF OnLines, LineTaken, NoLine, NothingAround, Written, Compared,
                         LastCompared, Onwards, M
<1>6. ASSUME NEW s \in Threads \ {t}
      PROVE  /\ spc'[s] # "over" => s \in field.team
             /\ spc'[s] \in Sums \cup {"convolve"} => at'[s] < line' /\ k'[s] < Dims[stage]
             /\ spc'[s] = "over" /\ s \in field.team => line' = M
  <2>1. spc'[s] = spc[s] /\ at'[s] = at[s] /\ k'[s] = k[s] /\ at[s] \in Nat
    BY <1>1 DEF SameThread, OnLines
  <2>2. /\ spc[s] # "over" => s \in field.team
        /\ spc[s] \in Sums \cup {"convolve"} => at[s] < line /\ k[s] < Dims[stage]
        /\ spc[s] = "over" /\ s \in field.team => line = M
    BY <1>3 DEF OnLines, M
  <2> QED
    BY <1>5, <2>1, <2>2
<1>7. /\ spc'[t] \in Sums \cup {"convolve"} => at'[t] < line' /\ k'[t] < Dims[stage]
      /\ spc'[t] = "over" => line' = M
  <2>0. spc[t] \in Sums \cup {"convolve"} => at[t] < line /\ k[t] < Dims[stage]
    BY DEF OnLines
  <2>1. CASE LineTaken(t)
    BY <1>4, <1>5, <2>1 DEF LineTaken, Sums
  <2>2. CASE NoLine(t)
    BY <1>1, <1>4, <1>5, <2>2 DEF NoLine, Sums, M
  <2>3. CASE NothingAround(t) \/ LastCompared(t)
    <3>1. spc[t] \in Sums \cup {"convolve"} /\ Onwards(t)
      BY <2>3 DEF NothingAround, LastCompared
    <3>2. CASE spc'[t] = "convolve" /\ k[t] + 1 < Dims[stage]
      BY <2>0, <3>1, <3>2 DEF Onwards, Sums
    <3>3. CASE spc'[t] = "fetch"
      BY <3>3 DEF Sums
    <3> QED
      BY <3>1, <3>2, <3>3 DEF Onwards
  <2>4. CASE Written(t)
    BY <2>0, <2>4 DEF Written, Sums
  <2>5. CASE Compared(t)
    BY <2>0, <2>5 DEF Compared, Sums
  <2> QED
    BY <1>2, <2>1, <2>2, <2>3, <2>4, <2>5
<1>8. \A s \in Threads :
        /\ spc'[s] # "over" => s \in field.team
        /\ spc'[s] \in Sums \cup {"convolve"} => at'[s] < line' /\ k'[s] < Dims[stage]
        /\ spc'[s] = "over" /\ s \in field.team => line' = M
  BY <1>3, <1>6, <1>7
<1>9. (Filter!MappingSize(Filter!OtherDims))' = M
  BY <1>4 DEF M
<1> QED
  BY <1>1, <1>3, <1>5, <1>8, <1>9 DEF OnLines, TypesOf, Filter!Stages

(* The team starts with the first line of the next dimension.              *)
LEMMA StepEndStage ==
  ASSUME OnLines, Filter!EndStage(field.team), field' = field, field.team \subseteq Threads
  PROVE  OnLines'
<1>1. stage \in Filter!Stages /\ stage' = stage + 1 /\ line' = 0 /\ UNCHANGED <<at, k, svar>>
  BY DEF Filter!EndStage
<1>0. Len(Dims) \in Nat /\ Filter!Stages = 1 .. Len(Dims)
  BY DetectionAssumption DEF Filter!Stages
<1>2. CASE stage < Len(Dims)
  <2>1. spc' = [t \in Threads |-> IF t \in field.team THEN "fetch" ELSE "over"]
    BY <1>2 DEF Filter!EndStage, Filter!Restart
  <2>2. stage' \in Filter!Stages
    BY <1>0, <1>1, <1>2
  <2>3. (Filter!MappingSize(Filter!OtherDims))' \in Nat \ {0}
    BY <1>0, <2>2, LinesAre DEF Filter!OtherDims
  <2> QED
    BY <1>0, <1>1, <2>1, <2>2, <2>3 DEF OnLines, Sums
<1>3. CASE ~(stage < Len(Dims))
  <2>1. spc' = spc /\ stage' = Len(Dims) + 1 /\ \A t \in Threads : spc[t] = "over"
    BY <1>0, <1>1, <1>3 DEF Filter!EndStage, Filter!TeamIsDone
  <2> QED
    BY <1>0, <1>1, <2>1 DEF OnLines, Sums
<1> QED
  BY <1>2, <1>3

(* Each step of the run.                                                   *)
LEMMA StepOnLines == OnLines /\ field \in Fields /\ [RunNext]_runvars => OnLines'
<1> SUFFICES ASSUME OnLines, field \in Fields, [RunNext]_runvars PROVE OnLines'
  OBVIOUS
<1>0. field' = field /\ field.team \subseteq Threads
  BY FieldStays, BuildAssumption DEF IsField
<1>1. ASSUME UNCHANGED filter PROVE OnLines'
  <2>1. UNCHANGED <<stage, spc, line, at, k, svar>>
    BY <1>1 DEF filter
  <2> QED
    BY <1>0, <2>1 DEF OnLines, Filter!OtherDims
<1>2. CASE StartSmoothing
  <2>1. /\ stage' = 1 /\ line' = 0 /\ UNCHANGED <<at, k, svar>>
        /\ spc' = [t \in Threads |-> IF t \in field.team THEN "fetch" ELSE "over"]
    BY <1>2 DEF StartSmoothing, Filter!Apply, Filter!Restart
  <2>2. Len(Dims) \in Nat /\ 1 \in 1 .. Len(Dims) /\ stage' \in Filter!Stages
    BY <2>1, DetectionAssumption DEF Filter!Stages
  <2>3. (Filter!MappingSize(Filter!OtherDims))' \in Nat \ {0}
    BY <2>1, <2>2, LinesAre DEF Filter!OtherDims
  <2> QED
    BY <1>0, <2>1, <2>2, <2>3 DEF OnLines, Sums
<1>3. CASE Smooth
  BY <1>0, <1>3, StepWork, StepEndStage DEF Smooth
<1>4. CASE UNCHANGED runvars \/ (RunNext /\ ~StartSmoothing /\ ~Smooth)
  BY <1>1, <1>4 DEF runvars, RunNext, Build, BuildEnds, ReplaceValues, FilterConvection, NoSmoothing,
                    ReplacePoints, FilterByWeight, Cluster
<1> QED
  BY <1>2, <1>3, <1>4 DEF RunNext

(* No thread is working at the beginning.                                  *)
LEMMA InitOnLines == RunInit => OnLines
<1>1. 1 \in Vars /\ 0 \notin Filter!Stages /\ Len(Dims) \in Nat
  BY BuildAssumption, DetectionAssumption DEF Vars, Filter!Stages
<1> QED
  BY <1>1 DEF RunInit, Filter!SmoothInit, OnLines, Sums

(* The places on a line are grid points ...                                *)
LEMMA LineOnGrid ==
  ASSUME stage \in Filter!Stages,
         NEW n \in 0 .. Filter!MappingSize(Filter!OtherDims) - 1, NEW i \in 0 .. Dims[stage] - 1
  PROVE  Filter!GridPointOf(n, i) \in Filter!Grid
<1>0. PICK N \in Nat \ {0, 1} : N = Len(Dims) /\ Filter!Stages = 1 .. N
  BY DetectionAssumption DEF Filter!Stages
<1>1. PICK other \in Seq(Nat \ {0}) :
        /\ other = Filter!OtherDims /\ Len(other) = N - 1
        /\ \A d \in 1 .. N - 1 : other[d] = IF d < stage THEN Dims[d] ELSE Dims[d + 1]
  BY <1>0, LinesAre DEF Filter!OtherDims
<1>2. Filter!MappingSize(other) = MappingSize(other) /\ Filter!LinearToGrid(other, n) = LinearToGrid(other, n)
  BY DEF MappingSize, SliceSizes, Filter!MappingSize, Filter!SliceSizes, LinearToGrid, Filter!LinearToGrid
<1>3. PICK start : /\ start = Filter!LinearToGrid(other, n)
                   /\ \A d \in 1 .. N - 1 : start[d] \in Nat /\ start[d] < other[d]
  <2>1. Len(other) > 0 /\ n \in 0 .. MappingSize(other) - 1
    BY <1>0, <1>1, <1>2
  <2>2. \A d \in 1 .. Len(other) : LinearToGrid(other, n)[d] \in 0 .. other[d] - 1
    BY <2>1, ToGrid
  <2>3. ASSUME NEW d \in 1 .. N - 1
        PROVE  LinearToGrid(other, n)[d] \in Nat /\ LinearToGrid(other, n)[d] < other[d]
    <3>1. other[d] \in Nat /\ LinearToGrid(other, n)[d] \in 0 .. other[d] - 1
      BY <1>1, <2>2
    <3> QED
      BY <3>1
  <2> QED
    BY <1>2, <2>3
<1>4. Filter!GridPointOf(n, i) =
        [d \in 1 .. N |-> IF d < stage THEN start[d] ELSE IF d = stage THEN i ELSE start[d - 1]]
  BY <1>0, <1>1, <1>3 DEF Filter!GridPointOf
<1> DEFINE g == [d \in 1 .. N |-> IF d < stage THEN start[d] ELSE IF d = stage THEN i ELSE start[d - 1]]
<1>5. ASSUME NEW d \in 1 .. N PROVE g[d] \in Nat /\ g[d] < Dims[d]
  <2>0. stage \in 1 .. N /\ Dims[stage] \in Nat \ {0}
    BY <1>0, LinesAre
  <2>1. CASE d < stage
    <3>1. d \in 1 .. N - 1 /\ g[d] = start[d]
      BY <2>0, <2>1
    <3> QED
      BY <1>1, <1>3, <2>1, <3>1
  <2>2. CASE d = stage
    <3>1. g[d] = i
      BY <2>0, <2>2
    <3> QED
      BY <2>0, <2>2, <3>1
  <2>3. CASE d > stage
    <3>1. d - 1 \in 1 .. N - 1 /\ g[d] = start[d - 1] /\ ~(d - 1 < stage) /\ (d - 1) + 1 = d
      BY <2>0, <2>3
    <3> QED
      BY <1>1, <1>3, <3>1
  <2> QED
    BY <2>0, <2>1, <2>2, <2>3
<1>6. g \in [1 .. N -> Nat]
  <2>1. \A d \in 1 .. N : g[d] \in Nat
    BY <1>5
  <2>2. g = [d \in 1 .. N |-> g[d]]
    OBVIOUS
  <2> HIDE DEF g
  <2> QED
    BY <2>1, <2>2
<1> HIDE DEF g
<1>7. Filter!GridPointOf(n, i) = g
  BY <1>4 DEF g
<1> QED
  BY <1>0, <1>5, <1>6, <1>7, GridIs

(* ... and every grid point is on a line.                                  *)
LEMMA GridOnLines ==
  ASSUME stage \in Filter!Stages, NEW g \in Filter!Grid
  PROVE  \E n \in 0 .. Filter!MappingSize(Filter!OtherDims) - 1, i \in 0 .. Dims[stage] - 1 :
           Filter!GridPointOf(n, i) = g
<1>0. PICK N \in Nat \ {0, 1} : N = Len(Dims) /\ Filter!Stages = 1 .. N
  BY DetectionAssumption DEF Filter!Stages
<1>1. PICK other \in Seq(Nat \ {0}) :
        /\ other = Filter!OtherDims /\ Len(other) = N - 1
        /\ \A d \in 1 .. N - 1 : other[d] = IF d < stage THEN Dims[d] ELSE Dims[d + 1]
  BY <1>0, LinesAre DEF Filter!OtherDims
<1>2. g \in [1 .. N -> Nat] /\ \A d \in 1 .. N : g[d] < Dims[d]
  BY <1>0, GridIs
<1>3. stage \in 1 .. N /\ Dims[stage] \in Nat \ {0}
  BY <1>0, LinesAre
<1> DEFINE start == [d \in 1 .. N - 1 |-> IF d < stage THEN g[d] ELSE g[d + 1]]
<1>4. \A d \in 1 .. N - 1 : start[d] \in Nat /\ start[d] < other[d]
  <2> SUFFICES ASSUME NEW d \in 1 .. N - 1 PROVE start[d] \in Nat /\ start[d] < other[d]
    OBVIOUS
  <2>1. d \in 1 .. N /\ d + 1 \in 1 .. N
    OBVIOUS
  <2>2. CASE d < stage
    <3>1. start[d] = g[d] /\ other[d] = Dims[d]
      BY <1>1, <2>2
    <3> HIDE DEF start
    <3> QED
      BY <1>2, <2>1, <3>1
  <2>3. CASE ~(d < stage)
    <3>1. start[d] = g[d + 1] /\ other[d] = Dims[d + 1]
      BY <1>1, <2>3
    <3> HIDE DEF start
    <3> QED
      BY <1>2, <2>1, <3>1
  <2> QED
    BY <2>2, <2>3
<1>5. start = [d \in 1 .. N - 1 |-> start[d]]
  OBVIOUS
<1>6. \A d \in 1 .. N - 1 : start[d] = IF d < stage THEN g[d] ELSE g[d + 1]
  OBVIOUS
<1> HIDE DEF start
<1>7. start \in [1 .. Len(other) -> Nat]
  BY <1>1, <1>4, <1>5
<1>8. PICK n \in 0 .. MappingSize(other) - 1 : LinearToGrid(other, n) = start
  <2>1. Len(other) > 0 /\ \A d \in 1 .. Len(other) : start[d] < other[d]
    BY <1>0, <1>1, <1>4
  <2> QED
    BY <1>7, <2>1, FromGrid
<1>9. Filter!MappingSize(other) = MappingSize(other) /\ Filter!LinearToGrid(other, n) = LinearToGrid(other, n)
  BY DEF MappingSize, SliceSizes, Filter!MappingSize, Filter!SliceSizes, LinearToGrid, Filter!LinearToGrid
<1>10. Filter!GridPointOf(n, g[stage]) =
         [d \in 1 .. N |-> IF d < stage THEN start[d] ELSE IF d = stage THEN g[stage] ELSE start[d - 1]]
  BY <1>0, <1>1, <1>8, <1>9 DEF Filter!GridPointOf
<1>11. ASSUME NEW d \in 1 .. N
       PROVE  g[d] = IF d < stage THEN start[d] ELSE IF d = stage THEN g[stage] ELSE start[d - 1]
  <2>1. CASE d < stage
    BY <1>3, <1>6, <2>1
  <2>2. CASE d = stage
    BY <2>2
  <2>3. CASE d > stage
    <3>1. d - 1 \in 1 .. N - 1 /\ ~(d - 1 < stage) /\ (d - 1) + 1 = d
      BY <1>3, <2>3
    <3>2. start[d - 1] = g[d]
      BY <1>6, <3>1
    <3> QED
      BY <1>3, <2>3, <3>2
  <2> QED
    BY <1>3, <2>1, <2>2, <2>3
<1>12. Filter!GridPointOf(n, g[stage]) = g
  BY <1>2, <1>10, <1>11
<1>13. g[stage] \in 0 .. Dims[stage] - 1 /\ n \in 0 .. Filter!MappingSize(Filter!OtherDims) - 1
  BY <1>1, <1>2, <1>3, <1>8, <1>9
<1> QED
  BY <1>12, <1>13

(* What is around a place is on its line, and has a weight.                *)
LEMMA WindowIs ==
  ASSUME stage \in Filter!Stages, NEW i \in 0 .. Dims[stage] - 1
  PROVE  \A j \in Filter!Window(stage, i) :
           j \in 0 .. Dims[stage] - 1 /\ Filter!Weight(stage, i, j) \in Int
<1>1. PICK D \in Nat \ {0} : D = Dims[stage]
  BY LinesAre DEF Filter!Stages
<1>2. PICK L \in Nat \ {0} : L = Len(Kernels[stage]) /\ \A n \in 1 .. L : Kernels[stage][n] \in Int
  <2>1. stage \in DOMAIN Dims
    BY DetectionAssumption DEF Filter!Stages
  <2>2. Kernels[stage] \in Seq(Int) /\ Len(Kernels[stage]) > 0
    BY <2>1, DetectionAssumption
  <2> QED
    BY <2>2
<1>3. Filter!Window(stage, i) = (IF i >= L - 1 THEN i - (L - 1) ELSE 0) ..
                           ((IF i + (L - 1) < D - 1 THEN i + (L - 1) ELSE D - 1) - 1)
  BY <1>1, <1>2 DEF Filter!Window
<1>4. i \in 0 .. D - 1
  BY <1>1
<1>5. \A j \in (IF i >= L - 1 THEN i - (L - 1) ELSE 0) ..
                 ((IF i + (L - 1) < D - 1 THEN i + (L - 1) ELSE D - 1) - 1) :
        (IF j <= i THEN i - j ELSE j - i) + 1 \in 1 .. L /\ j \in 0 .. D - 1
  BY <1>4
<1>6. ASSUME NEW j \in Filter!Window(stage, i)
      PROVE  j \in 0 .. D - 1 /\ Filter!Weight(stage, i, j) \in Int
  <2>1. PICK n \in 1 .. L : n = (IF j <= i THEN i - j ELSE j - i) + 1
    BY <1>3, <1>5
  <2>2. Filter!Weight(stage, i, j) = Kernels[stage][n]
    BY <2>1 DEF Filter!Weight
  <2> QED
    BY <1>2, <1>3, <1>5, <2>2
<1> QED
  BY <1>1, <1>6

(* The convolution a thread computes is that of the stage.                 *)
LEMMA ConvolutionIsConvolved ==
  ASSUME stage \in Filter!Stages,
         NEW n \in 0 .. Filter!MappingSize(Filter!OtherDims) - 1, NEW i \in 0 .. Dims[stage] - 1,
         NEW g, g = Filter!GridPointOf(n, i)
  PROVE  Convolved(original, stage)[g] =
           IF Filter!Sampled(n, i) = {} THEN NoPoint
           ELSE [values |-> [v \in Filter!SVars |-> Filter!Convolution(n, i, v)],
                 original |-> original[g] # NoPoint /\ original[g].original]
<1>0. g \in Filter!Grid /\ stage \in Filter!Stages
  BY LineOnGrid
<1>a. PICK start : \A j : Filter!GridPointOf(n, j) =
        [d \in Filter!Stages |-> IF d < stage THEN start[d] ELSE IF d = stage THEN j ELSE start[d - 1]]
  BY DEF Filter!GridPointOf
<1>b. stage \in Nat /\ Filter!Stages \subseteq Nat
  BY <1>0, DetectionAssumption DEF Filter!Stages
<1>c. ~(stage < stage)
  BY <1>b
<1>1. DOMAIN g = Filter!Stages /\ g[stage] = i
  BY <1>0, <1>a, <1>c
<1>2. \A j : [g EXCEPT ![stage] = j] = Filter!GridPointOf(n, j)
  <2> SUFFICES ASSUME NEW j PROVE [g EXCEPT ![stage] = j] = Filter!GridPointOf(n, j)
    OBVIOUS
  <2> DEFINE h == Filter!GridPointOf(n, j)
  <2>1. DOMAIN h = Filter!Stages /\ h = [d \in DOMAIN h |-> h[d]] /\ h[stage] = j
    BY <1>0, <1>a, <1>c
  <2>2. ASSUME NEW d \in Filter!Stages, d # stage PROVE h[d] = g[d]
    BY <1>a, <2>2
  <2> HIDE DEF h
  <2>3. ASSUME NEW d \in Filter!Stages PROVE [g EXCEPT ![stage] = j][d] = h[d]
    BY <1>0, <1>1, <2>1, <2>2
  <2>4. DOMAIN [g EXCEPT ![stage] = j] = Filter!Stages
    BY <1>1
  <2>5. [g EXCEPT ![stage] = j] = h
    BY <2>1, <2>3, <2>4
  <2> QED
    BY <2>5 DEF h
<1> DEFINE near == {j \in Filter!Window(stage, g[stage]) : original[[g EXCEPT ![stage] = j]] # NoPoint}
           weighed(v) == [j \in near |-> Filter!Times(Filter!Weight(stage, g[stage], j),
                                           original[[g EXCEPT ![stage] = j]].values[v])]
<1>3. Convolved(original, stage)[g] =
        IF near = {} THEN NoPoint
        ELSE [values |-> [v \in Vars |-> Filter!Total(weighed(v))],
              original |-> original[g] # NoPoint /\ original[g].original]
  BY <1>0 DEF Convolved
<1>4. near = Filter!Sampled(n, i)
  BY <1>1, <1>2 DEF Filter!Sampled
<1>5. ASSUME NEW v PROVE Filter!Total(weighed(v)) = Filter!Convolution(n, i, v)
  <2> DEFINE products == [j \in Filter!Sampled(n, i) |->
                            Filter!Times(Filter!Weight(stage, i, j), original[Filter!GridPointOf(n, j)].values[v])]
  <2>1. weighed(v) = products
    <3> HIDE DEF near
    <3> QED
      BY <1>1, <1>2, <1>4
  <2> QED
    BY <2>1 DEF Filter!Convolution
<1> HIDE DEF near, weighed
<1> QED
  BY <1>3, <1>4, <1>5 DEF Filter!SVars, Vars

(* The filtered indexes of the stages.                                     *)
Smoothing[d \in 0 .. Len(Dims)] ==
  IF d = 0 THEN IndexOf(list) ELSE Convolved(Smoothing[d - 1], d)

(* The results of the stages: each is the convolution of the one before.   *)
LEMMA SmoothingIs ==
  /\ Smoothing[0] = IndexOf(list)
  /\ \A d \in 1 .. Len(Dims) : Smoothing[d] = Convolved(Smoothing[d - 1], d)
<1>0. PICK N \in Nat : N = Len(Dims)
  BY DetectionAssumption
<1> DEFINE start == IndexOf(list)
           Reached == {m \in 0 .. N : \E f : f = [d \in 0 .. m |-> IF d = 0 THEN start ELSE Convolved(f[d - 1], d)]}
<1> HIDE DEF start
<1>1. 0 \in Reached
  <2> DEFINE f == [d \in 0 .. 0 |-> start]
  <2>1. f = [d \in 0 .. 0 |-> IF d = 0 THEN start ELSE Convolved(f[d - 1], d)]
    OBVIOUS
  <2> HIDE DEF f
  <2> QED
    BY <2>1
<1>2. ASSUME NEW m \in 0 .. N - 1, m \in Reached PROVE m + 1 \in Reached
  <2>1. PICK f : f = [d \in 0 .. m |-> IF d = 0 THEN start ELSE Convolved(f[d - 1], d)]
    BY <1>2
  <2> DEFINE g == [d \in 0 .. m + 1 |-> IF d = 0 THEN start ELSE Convolved(f[d - 1], d)]
  <2>2. \A d \in 0 .. m : g[d] = f[d]
    BY <2>1
  <2>3. \A d \in 0 .. m + 1 : d # 0 => g[d - 1] = f[d - 1]
    <3> HIDE DEF g
    <3>1. \A d \in 0 .. m + 1 : d # 0 => d - 1 \in 0 .. m
      OBVIOUS
    <3> QED
      BY <2>2, <3>1
  <2>4. g = [d \in 0 .. m + 1 |-> IF d = 0 THEN start ELSE Convolved(g[d - 1], d)]
    BY <2>3
  <2> HIDE DEF g
  <2> QED
    BY <2>4
<1>3. \E f : f = [d \in 0 .. N |-> IF d = 0 THEN start ELSE Convolved(f[d - 1], d)]
  <2>1. \A m \in 0 .. N - 1 : m \in Reached => m + 1 \in Reached
    BY <1>2
  <2> HIDE DEF Reached
  <2>2. 0 .. N \subseteq Reached
    BY <1>1, <2>1, UpTo
  <2>3. N \in Reached
    BY <2>2
  <2> QED
    BY <2>3 DEF Reached
<1> DEFINE f == CHOOSE f : f = [d \in 0 .. N |-> IF d = 0 THEN start ELSE Convolved(f[d - 1], d)]
<1>4. f = [d \in 0 .. N |-> IF d = 0 THEN start ELSE Convolved(f[d - 1], d)]
  BY <1>3
<1>5. Smoothing = f
  BY <1>0 DEF Smoothing, start
<1> HIDE DEF f
<1>6. f[0] = start /\ \A d \in 1 .. N : f[d] = Convolved(f[d - 1], d)
  BY <1>4
<1> QED
  BY <1>0, <1>5, <1>6 DEF start

(* A thread has the i-th place on the n-th line before it.                 *)
Ahead(t, n, i) ==
  at[t] = n /\ \/ spc[t] = "convolve" /\ k[t] <= i
               \/ spc[t] \in Sums /\ k[t] < i

(* What is written in a stage is its result, and all of it is written but  *)
(* for the places that are not reached yet.                                *)
InStage ==
  /\ original = Smoothing[stage - 1]
  /\ \A g \in Filter!Grid : filtered[g] = NoPoint \/ filtered[g] = Smoothing[stage][g]
  /\ \A n \in 0 .. line - 1, i \in 0 .. Dims[stage] - 1 :
       \/ filtered[Filter!GridPointOf(n, i)] = Smoothing[stage][Filter!GridPointOf(n, i)]
       \/ \E t \in Threads : Ahead(t, n, i)

Staged ==
  /\ phase \in {"build", "replace", "scale"} => filtered = Filter!EmptyIndex
  /\ phase = "smooth" =>
       /\ stage \in 1 .. Len(Dims) + 1
       /\ stage \in Filter!Stages => InStage
       /\ stage = Len(Dims) + 1 => filtered = Smoothing[Len(Dims)]

(* They depend on the list only, which the smoothing leaves alone.         *)
LEMMA SmoothingStays == ASSUME list' = list PROVE Smoothing' = Smoothing
  BY DEF Smoothing, IndexOf, Convolved

(* A thread writes the result of the stage, and nothing else.              *)
LEMMA WritesResult ==
  ASSUME OnLines, IsIndex(filtered), stage \in Filter!Stages, InStage,
         NEW t \in Threads, Filter!Work(t)
  PROVE  /\ \A g \in Filter!Grid : filtered'[g] = filtered[g] \/ filtered'[g] = Smoothing[stage][g]
         /\ spc[t] = "convolve" =>
              filtered'[Filter!GridPointOf(at[t], k[t])] = Smoothing[stage][Filter!GridPointOf(at[t], k[t])]
<1>1. LineTaken(t) \/ NoLine(t) \/ NothingAround(t) \/ Written(t) \/ Compared(t) \/ LastCompared(t)
  BY WorkEffects
<1>2. Smoothing[stage] = Convolved(original, stage)
  BY SmoothingIs DEF InStage, Filter!Stages
<1>3. CASE spc[t] # "convolve"
  BY <1>1, <1>3 DEF LineTaken, NoLine, NothingAround, Written, Compared, LastCompared
<1>4. CASE spc[t] = "convolve"
  <2>1. PICK g : g = Filter!GridPointOf(at[t], k[t])
    OBVIOUS
  <2>2. /\ at[t] \in 0 .. Filter!MappingSize(Filter!OtherDims) - 1
        /\ k[t] \in 0 .. Dims[stage] - 1
    <3>1. at[t] \in Nat /\ k[t] \in Nat /\ line \in Nat /\ at[t] < line /\ k[t] < Dims[stage]
      BY <1>4 DEF OnLines
    <3>2. line <= Filter!MappingSize(Filter!OtherDims)
      BY DEF OnLines
    <3>3. Filter!MappingSize(Filter!OtherDims) \in Nat /\ Dims[stage] \in Nat
      BY LinesAre DEF Filter!Stages, Filter!OtherDims
    <3> QED
      BY <3>1, <3>2, <3>3
  <2>3. g \in Filter!Grid /\
        Smoothing[stage][g] =
           IF Filter!Sampled(at[t], k[t]) = {} THEN NoPoint
           ELSE [values |-> [v \in Filter!SVars |-> Filter!Convolution(at[t], k[t], v)],
                 original |-> original[g] # NoPoint /\ original[g].original]
    BY <1>2, <2>1, <2>2, ConvolutionIsConvolved, LineOnGrid
  <2>4. filtered[g] = NoPoint \/ filtered[g] = Smoothing[stage][g]
    BY <2>3 DEF InStage
  <2>5. CASE NothingAround(t)
    BY <2>1, <2>3, <2>4, <2>5 DEF NothingAround
  <2>6. CASE Written(t)
    <3>1. PICK e : e = [values |-> [v \in Filter!SVars |-> Filter!Convolution(at[t], k[t], v)],
                        original |-> Filter!IsOriginal(g)]
      OBVIOUS
    <3>2. filtered' = [filtered EXCEPT ![g] = e] /\ Filter!Sampled(at[t], k[t]) # {}
      BY <2>1, <2>6, <3>1 DEF Written
    <3>3. \A h \in Filter!Grid : filtered'[h] = IF h = g THEN e ELSE filtered[h]
      BY <3>2, ElseWhere DEF IsIndex
    <3>4. Filter!IsOriginal(g) = (original[g] # NoPoint /\ original[g].original)
      <4>1. CASE filtered[g] = NoPoint
        BY <4>1 DEF Filter!IsOriginal
      <4>2. CASE filtered[g] # NoPoint
        <5>1. filtered[g].original = (original[g] # NoPoint /\ original[g].original)
          BY <2>3, <2>4, <3>2, <4>2
        <5> QED
          BY <4>2, <5>1 DEF Filter!IsOriginal
      <4> QED
        BY <4>1, <4>2
    <3>5. e = Smoothing[stage][g]
      BY <2>3, <3>1, <3>2, <3>4
    <3> QED
      BY <2>1, <2>3, <3>3, <3>5
  <2> QED
    BY <1>1, <1>4, <2>5, <2>6 DEF LineTaken, NoLine, Compared, LastCompared, Sums
<1> QED
  BY <1>3, <1>4

(* The places that are before a thread are written when they are not       *)
(* before it any more.                                                     *)
LEMMA AheadStep ==
  ASSUME OnLines, IsIndex(filtered), stage \in Filter!Stages, InStage,
         NEW t \in Threads, Filter!Work(t),
         NEW s \in Threads, NEW n \in Nat, NEW i \in 0 .. Dims[stage] - 1, Ahead(s, n, i)
  PROVE  \/ filtered'[Filter!GridPointOf(n, i)] = Smoothing[stage][Filter!GridPointOf(n, i)]
         \/ Ahead(s, n, i)'
<1>1. LineTaken(t) \/ NoLine(t) \/ NothingAround(t) \/ Written(t) \/ Compared(t) \/ LastCompared(t)
  BY WorkEffects
<1>2. CASE s # t
  BY <1>2, WorkTypes DEF SameThread, Ahead
<1>3. CASE s = t
  <2>0. at[t] = n /\ k[t] \in Nat /\ i \in Nat
    BY <1>3 DEF Ahead, OnLines
  <2>a. Dims[stage] \in Nat /\ i < Dims[stage]
    BY LinesAre DEF Filter!Stages
  <2>1. CASE spc[t] = "convolve" /\ k[t] = i
    BY <2>0, <2>1, WritesResult
  <2>2. CASE spc[t] = "convolve" /\ k[t] # i
    <3>1. k[t] < i
      BY <1>3, <2>0, <2>2 DEF Ahead, Sums
    <3>2. CASE Written(t)
      BY <1>3, <2>0, <3>1, <3>2 DEF Written, Ahead, Sums
    <3>3. CASE NothingAround(t)
      <4>1. Onwards(t) /\ k[t] + 1 < Dims[stage] /\ k[t] + 1 <= i
        BY <2>0, <2>a, <3>1, <3>3 DEF NothingAround
      <4> QED
        BY <1>3, <2>0, <4>1 DEF Onwards, Ahead
    <3> QED
      BY <1>1, <2>2, <3>2, <3>3 DEF LineTaken, NoLine, Compared, LastCompared, Sums
  <2>3. CASE spc[t] \in Sums
    <3>1. k[t] < i
      BY <1>3, <2>0, <2>3 DEF Ahead, Sums
    <3>2. CASE Compared(t)
      BY <1>3, <2>0, <3>1, <3>2 DEF Compared, Ahead
    <3>3. CASE LastCompared(t)
      <4>1. Onwards(t) /\ k[t] + 1 < Dims[stage] /\ k[t] + 1 <= i
        BY <2>0, <2>a, <3>1, <3>3 DEF LastCompared
      <4> QED
        BY <1>3, <2>0, <4>1 DEF Onwards, Ahead
    <3> QED
      BY <1>1, <2>3, <3>2, <3>3 DEF LineTaken, NoLine, NothingAround, Written, Sums
  <2> QED
    BY <1>3, <2>1, <2>2, <2>3 DEF Ahead
<1> QED
  BY <1>2, <1>3

(* A step of a thread keeps what is written and what is still to be        *)
(* written apart.                                                          *)
LEMMA StepInStage ==
  ASSUME OnLines, IsIndex(filtered), stage \in Filter!Stages, InStage,
         NEW t \in Threads, Filter!Work(t), list' = list
  PROVE  InStage'
<1>1. LineTaken(t) \/ NoLine(t) \/ NothingAround(t) \/ Written(t) \/ Compared(t) \/ LastCompared(t)
  BY WorkEffects
<1>2. stage' = stage /\ original' = original /\ Smoothing' = Smoothing
  BY WorkTypes, SmoothingStays
<1>3. \A g \in Filter!Grid : filtered'[g] = NoPoint \/ filtered'[g] = Smoothing[stage][g]
  BY WritesResult DEF InStage
<1>4. ASSUME NEW n \in 0 .. line' - 1, NEW i \in 0 .. Dims[stage] - 1
      PROVE  \/ filtered'[Filter!GridPointOf(n, i)] = Smoothing[stage][Filter!GridPointOf(n, i)]
             \/ \E s \in Threads : Ahead(s, n, i)'
  <2>0. line \in Nat /\ (line' = line \/ line' = line + 1) /\ n \in Nat
    BY <1>1 DEF OnLines, LineTaken, NoLine, NothingAround, Written, Compared, LastCompared, Onwards
  <2>1. CASE n \in 0 .. line - 1
    <3>1. CASE \E s \in Threads : Ahead(s, n, i)
      BY <2>0, <3>1, AheadStep
    <3>2. CASE filtered[Filter!GridPointOf(n, i)] = Smoothing[stage][Filter!GridPointOf(n, i)]
      <4>1. n \in 0 .. Filter!MappingSize(Filter!OtherDims) - 1
        <5>1. line <= Filter!MappingSize(Filter!OtherDims)
          BY DEF OnLines
        <5>2. Filter!MappingSize(Filter!OtherDims) \in Nat
          BY LinesAre DEF Filter!Stages, Filter!OtherDims
        <5> QED
          BY <2>0, <2>1, <5>1, <5>2
      <4>2. Filter!GridPointOf(n, i) \in Filter!Grid
        BY <4>1, LineOnGrid
      <4> QED
        BY <3>2, <4>2, WritesResult
    <3> QED
      BY <2>1, <3>1, <3>2 DEF InStage
  <2>2. CASE n \notin 0 .. line - 1
    <3>1. n = line /\ line' = line + 1
      BY <2>0, <2>2
    <3>2. LineTaken(t)
      BY <1>1, <2>0, <3>1 DEF NoLine, NothingAround, Written, Compared, LastCompared, Onwards
    <3>3. Ahead(t, n, i)'
      BY <3>1, <3>2 DEF LineTaken, Ahead
    <3> QED
      BY <3>3
  <2> QED
    BY <2>1, <2>2
<1>5. \A n, i : Filter!GridPointOf(n, i)' = Filter!GridPointOf(n, i)
  BY <1>2 DEF Filter!GridPointOf, Filter!OtherDims
<1>6. original' = Smoothing'[stage' - 1]
  BY <1>2 DEF InStage
<1> QED
  BY <1>2, <1>3, <1>4, <1>5, <1>6 DEF InStage

(* When the threads have joined, the result of the stage is complete.      *)
LEMMA StageIsComplete ==
  ASSUME OnLines, IsIndex(filtered), stage \in Filter!Stages, InStage, Filter!TeamIsDone,
         field.team \subseteq Threads, field.team # {}
  PROVE  filtered = Smoothing[stage]
<1>1. \A t \in Threads : spc[t] = "over"
  BY DEF Filter!TeamIsDone
<1>2. line = Filter!MappingSize(Filter!OtherDims)
  BY <1>1 DEF OnLines
<1>3. \A t \in Threads : \A n, i : ~Ahead(t, n, i)
  BY <1>1 DEF Ahead, Sums
<1>4. \A g \in Filter!Grid : filtered[g] = Smoothing[stage][g]
  <2> SUFFICES ASSUME NEW g \in Filter!Grid PROVE filtered[g] = Smoothing[stage][g]
    OBVIOUS
  <2>1. PICK n \in 0 .. Filter!MappingSize(Filter!OtherDims) - 1, i \in 0 .. Dims[stage] - 1 :
          Filter!GridPointOf(n, i) = g
    BY GridOnLines
  <2> QED
    BY <1>2, <1>3, <2>1 DEF InStage
<1>5. Smoothing[stage] = [g \in Filter!Grid |-> Smoothing[stage][g]]
  <2>1. Smoothing[stage] = Convolved(Smoothing[stage - 1], stage)
    BY SmoothingIs DEF Filter!Stages
  <2> QED
    BY <2>1 DEF Convolved
<1> QED
  BY <1>4, <1>5 DEF IsIndex

(* A stage starts with an empty result.                                    *)
LEMMA StageStarts ==
  ASSUME stage' \in Filter!Stages, line' = 0, filtered' = Filter!EmptyIndex,
         original' = Smoothing'[stage' - 1]
  PROVE  InStage'
<1>1. \A g \in Filter!Grid : filtered'[g] = NoPoint
  BY DEF Filter!EmptyIndex
<1>2. 0 .. line' - 1 = {}
  OBVIOUS
<1> QED
  BY <1>1, <1>2 DEF InStage

(* Each step of the run.                                                   *)
LEMMA StepStaged ==
  ASSUME OnLines, field \in Fields, Measured, Staged, [RunNext]_runvars
  PROVE  Staged'
<1>0. field' = field /\ field.team \subseteq Threads /\ field.team # {}
  BY FieldStays, BuildAssumption DEF IsField
<1>a. Len(Dims) \in Nat \ {0, 1} /\ Filter!Stages = 1 .. Len(Dims)
  <2>1. PICK N \in Nat \ {0, 1} : N = Len(Dims)
    BY DetectionAssumption
  <2> QED
    BY <2>1 DEF Filter!Stages
<1>1. CASE StartSmoothing
  <2>1. /\ phase = "scale" /\ phase' = "smooth"
        /\ stage' = 1 /\ line' = 0 /\ filtered' = filtered /\ original' = IndexOf(list)'
    BY <1>1 DEF StartSmoothing, Filter!Apply, IndexOf
  <2>2. filtered = Filter!EmptyIndex
    BY <2>1 DEF Staged
  <2>3. (Smoothing[0] = IndexOf(list))'
    BY SmoothingIs, PTL
  <2>4. original' = Smoothing'[stage' - 1]
    BY <2>1, <2>3
  <2>5. InStage'
    BY <1>a, <2>1, <2>2, <2>4, StageStarts
  <2> QED
    BY <1>a, <2>1, <2>5 DEF Staged
<1>2. CASE Smooth
  <2>0. phase = "smooth" /\ phase' = "smooth" /\ list' = list /\ Smoothing' = Smoothing
    BY <1>2, SmoothingStays DEF Smooth, after
  <2>1. ASSUME NEW t \in field.team, Filter!Work(t) PROVE Staged'
    <3>1. t \in Threads
      BY <1>0
    <3>2. stage \in Filter!Stages
      <4>1. spc[t] # "over"
        BY <2>1, <3>1, WorkEffects DEF Sums, LineTaken, NoLine, NothingAround, Written, Compared,
                                       LastCompared
      <4> QED
        BY <3>1, <4>1 DEF OnLines
    <3>3. InStage'
      BY <2>0, <2>1, <3>1, <3>2, StepInStage DEF Staged, Measured
    <3>4. stage' = stage
      BY <2>1, <3>1, WorkTypes
    <3> QED
      BY <1>a, <2>0, <3>2, <3>3, <3>4 DEF Staged
  <2>2. CASE Filter!EndStage(field.team)
    <3>1. stage \in Filter!Stages /\ Filter!TeamIsDone /\ stage' = stage + 1 /\ line' = 0
      BY <2>2 DEF Filter!EndStage
    <3>2. filtered = Smoothing[stage]
      BY <1>0, <2>0, <3>1, StageIsComplete DEF Staged, Measured
    <3>3. CASE stage < Len(Dims)
      <4>1. original' = filtered /\ filtered' = Filter!EmptyIndex
        BY <2>2, <3>3 DEF Filter!EndStage
      <4>2. stage' \in Filter!Stages /\ stage' - 1 = stage
        BY <1>a, <3>1, <3>3
      <4>3. original' = Smoothing'[stage' - 1]
        BY <2>0, <3>2, <4>1, <4>2
      <4>4. InStage'
        BY <3>1, <4>1, <4>2, <4>3, StageStarts
      <4> QED
        BY <1>a, <2>0, <4>2, <4>4 DEF Staged
    <3>4. CASE ~(stage < Len(Dims))
      <4>1. filtered' = filtered
        BY <2>2, <3>4 DEF Filter!EndStage
      <4>2. stage = Len(Dims) /\ stage' = Len(Dims) + 1 /\ stage' \notin Filter!Stages
        BY <1>a, <3>1, <3>4
      <4> QED
        BY <1>a, <2>0, <3>2, <4>1, <4>2 DEF Staged
    <3> QED
      BY <3>3, <3>4
  <2> QED
    BY <1>2, <2>1, <2>2 DEF Smooth
<1>3. CASE Build \/ BuildEnds \/ ReplaceValues \/ FilterConvection
  BY <1>3 DEF Staged, Build, BuildEnds, ReplaceValues, FilterConvection, filter
<1>4. CASE NoSmoothing \/ ReplacePoints \/ FilterByWeight \/ Cluster
  BY <1>4 DEF Staged, NoSmoothing, ReplacePoints, FilterByWeight, Cluster
<1>5. CASE UNCHANGED runvars
  <2>1. UNCHANGED <<phase, list, filtered, original, stage, line, spc, at, k>>
    BY <1>5 DEF runvars, filter, after
  <2>2. Smoothing' = Smoothing
    BY <2>1, SmoothingStays
  <2>3. InStage => InStage'
    BY <2>1, <2>2 DEF InStage, Filter!GridPointOf, Filter!OtherDims, Ahead
  <2> QED
    BY <2>1, <2>2, <2>3 DEF Staged
<1> QED
  BY <1>1, <1>2, <1>3, <1>4, <1>5 DEF RunNext

(* The smoothing has not started at the beginning.                         *)
LEMMA InitStaged == RunInit => Staged
  BY DEF RunInit, Filter!SmoothInit, Staged

(* The invariants of the run that the others rest on.                      *)
LEMMA RunHolds == RunSpec => [](IInv /\ Locals /\ Measured /\ OnLines)
<1>1. RunSpec => [](IInv /\ Locals)
  BY BuildHolds, RunIsBuild, PTL
<1>2. RunSpec => []Measured
  BY <1>1, InitMeasured, StepMeasured, PTL DEF RunSpec
<1>3. IInv => field \in Fields
  BY DEF IInv, Types
<1>4. RunSpec => []OnLines
  BY <1>1, <1>3, InitOnLines, StepOnLines, PTL DEF RunSpec
<1> QED
  BY <1>1, <1>2, <1>4, PTL

(* Threads smooth along one dimension after the other, in whatever order   *)
(* they take and finish the lines: each stage reads the whole result of    *)
(* the one before it.                                                      *)
THEOREM SmoothingIsStaged == RunSpec => []SmoothedInStages
<1>1. OnLines /\ IInv /\ Measured /\ Staged /\ [RunNext]_runvars => Staged'
  BY StepStaged DEF IInv, Types
<1>2. RunSpec => []Staged
  BY <1>1, RunHolds, InitStaged, PTL DEF RunSpec
<1>3. ASSUME Staged, Measured PROVE SmoothedInStages
  <2> SUFFICES ASSUME phase = "smooth", stage > 1
               PROVE  IF Filter!Filtered THEN filtered = Smoothing[stage - 1]
                      ELSE original = Smoothing[stage - 1]
    <3>1. ASSUME (IF Filter!Filtered THEN filtered ELSE original) = Smoothing[stage - 1]
          PROVE  SmoothedInStages
      <4>1. \A i \in DOMAIN list : GridPoint(list[i].cell) \in Filter!Grid
        BY <1>3, CellsOnGrid DEF Measured, IsList, IsPoint
      <4> QED
        BY <3>1, <4>1 DEF SmoothedInStages, Smoothing
    <3> QED
      BY <3>1 DEF SmoothedInStages
  <2>a. Dims \in Seq(Nat \ {0})
    BY DetectionAssumption
  <2>1. stage \in 1 .. Len(Dims) + 1 /\ Len(Dims) \in Nat
    BY <1>3, <2>a DEF Staged
  <2>2. stage = Len(Dims) + 1 \/ stage \in Filter!Stages
    BY <2>1 DEF Filter!Stages
  <2> QED
    BY <1>3, <2>1, <2>2 DEF Staged, InStage, Filter!Filtered
<1> QED
  BY <1>2, <1>3, RunHolds, PTL

(* The sum of a function is the fold it is defined by.                     *)
LEMMA SumUnfolds ==
  ASSUME NEW f
  PROVE  Filter!SumFunction(f) =
           LET iter[s \in SUBSET DOMAIN f] ==
                 IF s = {} THEN 0
                 ELSE LET x == CHOOSE x \in s : TRUE IN f[x] + iter[s \ {x}]
           IN  iter[DOMAIN f]
  BY DEF Filter!SumFunction, Filter!SumFunctionOnSet, Filter!FoldFunctionOnSet, Filter!MapThenFoldSet

(* Finitely many numbers have a sum.                                       *)
LEMMA SumIsNumber ==
  ASSUME NEW D, IsFiniteSet(D), NEW f \in [D -> Int]
  PROVE  Filter!SumFunction(f) \in Int
<1>0. PICK N \in Nat : N = Cardinality(D)
  BY FS_CardinalityType
<1> DEFINE Level(n) == {s \in SUBSET D : Cardinality(s) <= n}
           Some(s) == CHOOSE x \in s : TRUE
           Value(h, s) == IF s = {} THEN 0 ELSE f[Some(s)] + h[s \ {Some(s)}]
           Reached == {n \in 0 .. N : \E h : h = [s \in Level(n) |-> Value(h, s)]}
<1>1. ASSUME NEW s \in SUBSET D
      PROVE  /\ Cardinality(s) \in 0 .. N /\ (Cardinality(s) = 0 <=> s = {})
             /\ s # {} => /\ Some(s) \in s /\ Some(s) \in D /\ s \ {Some(s)} \in SUBSET D
                          /\ Cardinality(s \ {Some(s)}) = Cardinality(s) - 1
  <2>1. IsFiniteSet(s) /\ Cardinality(s) \in Nat /\ Cardinality(s) <= N
    BY <1>0, FS_Subset, FS_CardinalityType
  <2>2. Cardinality(s) = 0 <=> s = {}
    BY <2>1, FS_EmptySet
  <2>3. ASSUME s # {} PROVE Some(s) \in s
    BY <2>3
  <2>4. PICK x : x = Some(s)
    OBVIOUS
  <2>5. x \in s => Cardinality(s \ {x}) = Cardinality(s) - 1
    BY <2>1, FS_RemoveElement
  <2> QED
    BY <2>1, <2>2, <2>3, <2>4, <2>5
<1>z. \A s \in SUBSET D : Cardinality(s) \in 0 .. N /\ (Cardinality(s) = 0 => s = {})
  <2> HIDE DEF Level, Some
  <2> QED
    BY <1>1
<1>y. \A n : \A s : s \in Level(n) <=> s \in SUBSET D /\ Cardinality(s) <= n
  OBVIOUS
<1>2. SUBSET D = Level(N)
  <2>1. \A s \in SUBSET D : Cardinality(s) <= N
    BY <1>z
  <2> HIDE DEF Level
  <2> QED
    BY <1>y, <2>1
<1>3. ASSUME NEW n \in 0 .. N - 1, NEW s \in Level(n + 1), s # {}
      PROVE  s \ {Some(s)} \in Level(n)
  <2>1. s \in SUBSET D /\ Cardinality(s) <= n + 1
    BY <1>3
  <2>2. Cardinality(s) \in Nat /\ s \ {Some(s)} \in SUBSET D
        /\ Cardinality(s \ {Some(s)}) = Cardinality(s) - 1
    BY <1>1, <1>3, <2>1
  <2>3. Cardinality(s) - 1 <= n
    BY <2>1, <2>2
  <2> QED
    BY <2>2, <2>3
<1> HIDE DEF Level, Some
<1>4. ASSUME NEW s \in Level(0) PROVE s = {}
  <2>1. s \in SUBSET D /\ Cardinality(s) <= 0
    BY <1>y, <1>4
  <2> QED
    BY <1>z, <2>1
<1>5. ASSUME NEW n \in 0 .. N - 1, NEW s \in Level(n) PROVE s \in Level(n + 1)
  <2>1. s \in SUBSET D /\ Cardinality(s) <= n
    BY <1>y, <1>5
  <2>2. Cardinality(s) \in Nat
    BY <1>z, <2>1
  <2> QED
    BY <1>y, <2>1, <2>2
<1>6. 0 \in Reached
  <2> DEFINE h == [s \in Level(0) |-> 0]
  <2>1. h = [s \in Level(0) |-> Value(h, s)]
    BY <1>4
  <2> HIDE DEF h, Value
  <2> QED
    BY <2>1
<1>7. ASSUME NEW n \in 0 .. N - 1, n \in Reached PROVE n + 1 \in Reached
  <2>1. PICK h : h = [s \in Level(n) |-> Value(h, s)]
    BY <1>7
  <2> DEFINE g == [s \in Level(n + 1) |-> Value(h, s)]
  <2>2. \A s \in Level(n) : g[s] = h[s]
    <3> HIDE DEF Value
    <3> QED
      BY <1>5, <2>1
  <2>3. \A s \in Level(n + 1) : Value(g, s) = Value(h, s)
    <3> HIDE DEF g
    <3> QED
      BY <1>3, <2>2
  <2>4. g = [s \in Level(n + 1) |-> Value(g, s)]
    <3> HIDE DEF Value
    <3> QED
      BY <2>3
  <2> HIDE DEF g, Value
  <2> QED
    BY <2>4
<1>8. \E h : h = [s \in SUBSET D |-> Value(h, s)]
  <2>1. \A n \in 0 .. N - 1 : n \in Reached => n + 1 \in Reached
    BY <1>7
  <2> HIDE DEF Reached
  <2>2. 0 .. N \subseteq Reached
    BY <1>6, <2>1, UpTo
  <2>3. N \in Reached
    BY <2>2
  <2> HIDE DEF Value
  <2> QED
    BY <1>2, <2>3 DEF Reached
<1> DEFINE iter == CHOOSE iter : iter = [s \in SUBSET D |-> Value(iter, s)]
<1>9. iter = [s \in SUBSET D |-> Value(iter, s)]
  <2> HIDE DEF Value
  <2> QED
    BY <1>8
<1>10. Filter!SumFunction(f) = iter[D]
  <2>1. DOMAIN f = D
    OBVIOUS
  <2> QED
    BY <2>1, SumUnfolds DEF Some
<1> HIDE DEF iter
<1>11. \A s \in SUBSET D : iter[s] = Value(iter, s)
  <2> HIDE DEF Value
  <2> QED
    BY <1>9
<1> DEFINE Typed == {n \in 0 .. N : \A s \in Level(n) : iter[s] \in Int}
<1>12. \A n \in 0 .. N : Level(n) \subseteq SUBSET D
  BY DEF Level
<1>13. 0 \in Typed
  BY <1>4, <1>11, <1>12
<1>14. ASSUME NEW n \in 0 .. N - 1, n \in Typed PROVE n + 1 \in Typed
  <2>1. ASSUME NEW s \in Level(n + 1) PROVE iter[s] \in Int
    <3>1. s \in SUBSET D /\ iter[s] = Value(iter, s)
      BY <1>11, <1>12, <2>1
    <3>2. CASE s = {}
      BY <3>1, <3>2
    <3>3. CASE s # {}
      <4>1. Some(s) \in D
        BY <1>1, <3>1, <3>3 DEF Some
      <4>2. iter[s \ {Some(s)}] \in Int
        BY <1>3, <1>14, <3>3
      <4>3. f[Some(s)] \in Int
        BY <4>1
      <4> QED
        BY <3>1, <3>3, <4>2, <4>3
    <3> QED
      BY <3>2, <3>3
  <2> QED
    BY <2>1
<1>15. N \in Typed
  <2>1. \A n \in 0 .. N - 1 : n \in Typed => n + 1 \in Typed
    BY <1>14
  <2> HIDE DEF Typed
  <2>2. 0 .. N \subseteq Typed
    BY <1>13, <2>1, UpTo
  <2> QED
    BY <2>2
<1>16. D \in Level(N)
  BY <1>2
<1> QED
  BY <1>10, <1>15, <1>16

Numbers == Int \cup {NaN}

(* The points of a list have numbers for values, and those of an index one *)
(* for each variable.                                                      *)
HaveNumbers(pts) == \A i \in DOMAIN pts : pts[i].values \in Seq(Numbers)

AreNumbers(index) ==
  \A g \in Filter!Grid : index[g] # NoPoint => index[g].values \in [Vars -> Numbers]

Numeric ==
  /\ turn \in Nat \ {0}
  /\ phase \in {"build", "replace", "scale"} => HaveNumbers(list)
  /\ AreNumbers(original) /\ AreNumbers(filtered)

(* Finitely many of them have a total, which may be NaN.                   *)
LEMMA TotalIsNumber ==
  ASSUME NEW D, IsFiniteSet(D), NEW f \in [D -> Numbers]
  PROVE  Filter!Total(f) \in Numbers
<1>1. CASE \E x \in DOMAIN f : f[x] = NaN
  BY <1>1 DEF Filter!Total, Numbers
<1>2. CASE \A x \in DOMAIN f : f[x] # NaN
  <2>1. f \in [D -> Int]
    BY <1>2 DEF Numbers
  <2>2. Filter!SumFunction(f) \in Int
    BY <2>1, SumIsNumber
  <2>3. Filter!Total(f) = Filter!SumFunction(f)
    BY <1>2 DEF Filter!Total
  <2> QED
    BY <2>2, <2>3 DEF Numbers
<1> QED
  BY <1>1, <1>2

(* So every convolution is a number.                                       *)
LEMMA ConvolutionIsNumber ==
  ASSUME Numeric, stage \in Filter!Stages,
         NEW n \in 0 .. Filter!MappingSize(Filter!OtherDims) - 1, NEW i \in 0 .. Dims[stage] - 1,
         NEW v \in Vars
  PROVE  Filter!Convolution(n, i, v) \in Numbers
<1>1. Dims[stage] \in Nat
  BY LinesAre, DetectionAssumption DEF Filter!Stages
<1>a. PICK m \in Int : m = Dims[stage] - 1
  BY <1>1
<1>2. IsFiniteSet(Filter!Sampled(n, i))
  <2>1. Filter!Sampled(n, i) \in SUBSET (0 .. Dims[stage] - 1)
    BY WindowIs DEF Filter!Sampled
  <2>2. IsFiniteSet(0 .. m)
    BY FS_Interval
  <2> QED
    BY <1>a, <2>1, <2>2, FS_Subset
<1> DEFINE Product(j) == Filter!Times(Filter!Weight(stage, i, j),
                                      original[Filter!GridPointOf(n, j)].values[v])
           products == [j \in Filter!Sampled(n, i) |-> Product(j)]
<1>3. ASSUME NEW j \in Filter!Sampled(n, i) PROVE Product(j) \in Numbers
  <2>1. j \in Filter!Window(stage, i) /\ original[Filter!GridPointOf(n, j)] # NoPoint
    BY DEF Filter!Sampled
  <2>2. PICK w \in Int : w = Filter!Weight(stage, i, j)
    BY <2>1, WindowIs
  <2>3. Filter!GridPointOf(n, j) \in Filter!Grid
    BY <2>1, WindowIs, LineOnGrid
  <2>4. original[Filter!GridPointOf(n, j)].values \in [Vars -> Numbers]
    BY <2>1, <2>3 DEF Numeric, AreNumbers
  <2>5. PICK x \in Numbers : x = original[Filter!GridPointOf(n, j)].values[v]
    BY <2>4
  <2>6. Product(j) = Filter!Times(w, x)
    BY <2>2, <2>5
  <2>7. x # NaN => w * x \in Int
    BY DEF Numbers
  <2> QED
    BY <2>6, <2>7 DEF Filter!Times, Numbers
<1> HIDE DEF Product
<1>4. products \in [Filter!Sampled(n, i) -> Numbers]
  BY <1>3
<1> HIDE DEF products
<1>5. Filter!Total(products) \in Numbers
  BY <1>2, <1>4, TotalIsNumber
<1> QED
  BY <1>5 DEF Filter!Convolution, products, Product

(* What is read of a point is a number.                                    *)
LEMMA ReadIsNumber ==
  ASSUME NEW p, p.values \in Seq(Numbers), NEW v \in Vars
  PROVE  At(p, v) \subseteq Numbers
<1>1. v <= Len(p.values) => p.values[v] \in Numbers
  BY BuildAssumption DEF Vars
<1> QED
  BY <1>1, BuildAssumption DEF At, Numbers

(* The points of the feature space have numbers for values.                *)
LEMMA PointsAreNumbers == ASSUME IInv PROVE HaveNumbers(points)
<1> SUFFICES ASSUME NEW i \in DOMAIN points PROVE points[i].values \in Seq(Numbers)
  BY DEF HaveNumbers
<1>1. points \in Seq(PointType) /\ field \in Fields
  BY DEF IInv, Types
<1>2. PICK c \in Cells : points[i] = PointOf(c)
  BY <1>1 DEF PointType
<1>3. PICK values \in Seq(Int) : values = points[i].values
  BY <1>1, <1>2, ValuesAreNumbers DEF PointOf
<1>4. values \in Seq(Numbers)
  BY DEF Numbers
<1> QED
  BY <1>3, <1>4

(* A value behind some others is one of them, or read behind the end.      *)
LEMMA NthIsNumber ==
  ASSUME NEW around, NEW value \in [around -> Numbers], NEW mode, NEW n
  PROVE  Nth(value, mode, n) \subseteq Numbers
<1>1. Garbage \subseteq Numbers
  BY BuildAssumption DEF Numbers
<1>2. \A S : {value[i] : i \in {i \in DOMAIN value : i \in S}} \subseteq Numbers
  OBVIOUS
<1> DEFINE S == {i \in DOMAIN value : \E s \in InFront(value, mode, n) :
                               i \notin s /\ s \cup {i} \in InFront(value, mode, n + 1)}
<1>3. \A i \in S : i \in around
  OBVIOUS
<1>4. Nth(value, mode, n) = Garbage \/ Nth(value, mode, n) = {value[i] : i \in S}
  BY DEF Nth
<1> HIDE DEF S
<1> QED
  BY <1>1, <1>3, <1>4

(* So is the average of the first of them, if there is one.                *)
LEMMA AverageIsNumber ==
  ASSUME NEW around, IsFiniteSet(around), NEW value \in [around -> Numbers], NEW mode, NEW n \in Int
  PROVE  Averages(value, mode, n) \subseteq Numbers
<1> DEFINE Total(s) == Filter!Total([i \in s |-> value[i]])
           Average(s) == IF Total(s) = NaN THEN NaN ELSE Total(s) \div n
<1>1. Garbage \subseteq Numbers /\ NaN \in Numbers
  BY BuildAssumption DEF Numbers
<1>2. ASSUME n # 0, NEW s \in InFront(value, mode, n) PROVE Average(s) \in Numbers
  <2>1. s \in SUBSET around /\ Cardinality(s) = n
    BY DEF InFront
  <2>2. IsFiniteSet(s) /\ n \in Nat \ {0}
    BY <1>2, <2>1, FS_Subset, FS_CardinalityType
  <2>3. [i \in s |-> value[i]] \in [s -> Numbers]
    BY <2>1
  <2>4. PICK f \in [s -> Numbers] : f = [i \in s |-> value[i]]
    BY <2>3
  <2>5. PICK sum \in Numbers : sum = Total(s)
    BY <2>2, <2>4, TotalIsNumber
  <2>6. sum # NaN => sum \div n \in Int
    BY <2>2 DEF Numbers
  <2> HIDE DEF Total
  <2> QED
    BY <1>1, <2>5, <2>6 DEF Numbers
<1>3. \/ Averages(value, mode, n) \in {{NaN}, Garbage}
      \/ n # 0 /\ Averages(value, mode, n) = {Average(s) : s \in InFront(value, mode, n)}
  BY DEF Averages
<1> HIDE DEF Average
<1> QED
  BY <1>1, <1>2, <1>3

(* What is made of the values around a point is a number.                  *)
LEMMA ReplacementsAreNumbers ==
  ASSUME IsList(list), HaveNumbers(list), field \in Fields,
         NEW p, p.values \in Seq(Numbers), NEW v \in Vars
  PROVE  Replacements(p, v) \subseteq Numbers
<1>1. PICK around \in SUBSET DOMAIN list :
        around = {i \in DOMAIN list : list[i].cell \in field.reach[p.cell]}
  OBVIOUS
<1>2. PICK mode : mode = field.mode[v]
  OBVIOUS
<1>3. IsFiniteSet(around)
  <2>1. PICK n \in Nat : DOMAIN list = 1 .. n
    BY DEF IsList
  <2>2. IsFiniteSet(1 .. n)
    BY FS_Interval
  <2> QED
    BY <1>1, <2>1, <2>2, FS_Subset
<1>4. PICK num \in Int : num = Rounded(Cardinality(around) * field.percent[v])
  <2>1. field.percent[v] \in Int
    BY DetectionAssumption DEF IsFiltered
  <2>2. PICK c \in Int : c = Cardinality(around) * field.percent[v]
    BY <1>3, <2>1, FS_CardinalityType
  <2>3. Rounded(c) \in Int
    BY DEF Rounded
  <2> QED
    BY <2>2, <2>3
<1>5. Replacements(p, v) =
        IF around = {} THEN At(p, v)
        ELSE UNION {IF mode = "median" THEN Nth(value, mode, Quotient(num, 2))
                    ELSE Averages(value, mode, num) : value \in Readings(around, v)}
  BY <1>1, <1>2, <1>4 DEF Replacements
<1>6. ASSUME NEW value \in Readings(around, v)
      PROVE  Nth(value, mode, Quotient(num, 2)) \cup Averages(value, mode, num) \subseteq Numbers
  <2>1. value \in [around -> UNION {At(list[i], v) : i \in around}]
        /\ \A i \in around : value[i] \in At(list[i], v)
    BY DEF Readings
  <2>2. \A i \in around : At(list[i], v) \subseteq Numbers
    BY ReadIsNumber DEF HaveNumbers
  <2>3. value \in [around -> Numbers]
    BY <2>1, <2>2
  <2> QED
    BY <1>3, <2>3, NthIsNumber, AverageIsNumber
<1>7. At(p, v) \subseteq Numbers
  BY ReadIsNumber
<1> QED
  BY <1>5, <1>6, <1>7

(* A number put into a point leaves it with numbers.                       *)
LEMMA PutIsNumber ==
  ASSUME NEW p, IsPoint(p), p.values \in Seq(Numbers), NEW v, NEW x \in Numbers
  PROVE  Put(p, v, x).values \in Seq(Numbers)
<1>1. DOMAIN Put(p, v, x).values = DOMAIN p.values
      /\ \A u \in DOMAIN p.values : Put(p, v, x).values[u] = p.values[u] \/ Put(p, v, x).values[u] = x
  BY PutIsPoint
<1>2. PICK n \in Nat : p.values \in [1 .. n -> Numbers]
  BY DEF Numbers
<1>3. CASE ~(v <= Len(p.values))
  BY <1>3 DEF Put
<1>4. CASE v <= Len(p.values)
  <2>1. Put(p, v, x).values = [p.values EXCEPT ![v] = x]
    BY <1>4 DEF Put, IsPoint
  <2>2. PICK values \in [1 .. n -> Numbers] : values = p.values
    BY <1>2
  <2>3. [values EXCEPT ![v] = x] \in [1 .. n -> Numbers]
    OBVIOUS
  <2>4. [values EXCEPT ![v] = x] \in Seq(Numbers)
    BY <2>3
  <2> QED
    BY <2>1, <2>2, <2>4
<1> QED
  BY <1>3, <1>4

(* The filters that change values store numbers.                           *)
LEMMA StepNumericList ==
  ASSUME field \in Fields, Measured, Numeric, ReplaceValues \/ FilterConvection
  PROVE  HaveNumbers(list')
<1>0. IsList(list) /\ HaveNumbers(list) /\ \A i \in DOMAIN list : IsPoint(list[i])
  BY DEF Measured, Numeric, IsList, ReplaceValues, FilterConvection
<1>1. CASE ReplaceValues
  <2>1. PICK v : v = field.filters[turn]
    OBVIOUS
  <2>2. v \in Vars
    BY <1>1, <2>1, DetectionAssumption DEF IsFiltered, ReplaceValues, Numeric
  <2>3. PICK results :
          /\ \A i \in DOMAIN list : results[i] \in Replacements(list[i], v)
          /\ list' = [i \in DOMAIN list |-> Put(list[i], v, results[i])]
    BY <1>1, <2>1 DEF ReplaceValues
  <2>4. ASSUME NEW i \in DOMAIN list PROVE list'[i].values \in Seq(Numbers)
    <3>1. list[i].values \in Seq(Numbers) /\ IsPoint(list[i]) /\ list'[i] = Put(list[i], v, results[i])
      BY <1>0, <2>3 DEF HaveNumbers
    <3>2. results[i] \in Numbers
      BY <1>0, <2>2, <2>3, <3>1, ReplacementsAreNumbers
    <3> QED
      BY <3>1, <3>2, PutIsNumber
  <2>5. DOMAIN list' = DOMAIN list
    BY <2>3
  <2> QED
    BY <2>4, <2>5 DEF HaveNumbers
<1>2. CASE FilterConvection
  <2>1. CASE list' = list
    BY <1>0, <2>1
  <2>2. CASE list' = [i \in DOMAIN list |-> Put(list[i], Zeroed, 0)]
    <3>1. \A i \in DOMAIN list : list'[i].values \in Seq(Numbers)
      <4>1. 0 \in Numbers
        BY DEF Numbers
      <4> QED
        BY <1>0, <2>2, <4>1, PutIsNumber DEF HaveNumbers
    <3>2. DOMAIN list' = DOMAIN list
      BY <2>2
    <3> QED
      BY <3>1, <3>2 DEF HaveNumbers
  <2> QED
    BY <1>2, <2>1, <2>2 DEF FilterConvection
<1> QED
  BY <1>1, <1>2

(* What is read for the smoothing has one for each variable.               *)
LEMMA ReadableIsNumbers ==
  ASSUME NEW p, p.values \in Seq(Numbers)
  PROVE  Readable(p) \subseteq [Vars -> Numbers]
<1> SUFFICES ASSUME NEW s \in Readable(p) PROVE s \in [Vars -> Numbers]
  OBVIOUS
<1>1. s \in [Vars -> UNION {At(p, v) : v \in Vars}] /\ \A v \in Vars : s[v] \in At(p, v)
  BY DEF Readable
<1>2. \A v \in Vars : s[v] \in Numbers
  BY <1>1, ReadIsNumber
<1> QED
  BY <1>1, <1>2

(* An index has the values of its list.                                    *)
LEMMA IndexIsNumbers ==
  ASSUME NEW pts, \A i \in DOMAIN pts : pts[i].values \in [Vars -> Numbers]
  PROVE  AreNumbers(IndexOf(pts))
<1> SUFFICES ASSUME NEW g \in Filter!Grid, IndexOf(pts)[g] # NoPoint
             PROVE  IndexOf(pts)[g].values \in [Vars -> Numbers]
  BY DEF AreNumbers
<1>1. \E i \in DOMAIN pts : GridPoint(pts[i].cell) = g
  BY DEF IndexOf
<1> DEFINE i == CHOOSE i \in DOMAIN pts : GridPoint(pts[i].cell) = g
<1>2. i \in DOMAIN pts
  BY <1>1
<1>3. IndexOf(pts)[g] = [values |-> pts[i].values, original |-> pts[i].original]
  BY <1>1 DEF IndexOf
<1> HIDE DEF i
<1> QED
  BY <1>2, <1>3

(* Threads write convolutions.                                             *)
LEMMA StepNumericWork ==
  ASSUME OnLines, Measured, Numeric, NEW t \in Threads, Filter!Work(t)
  PROVE  AreNumbers(filtered') /\ AreNumbers(original')
<1>0. AreNumbers(filtered) /\ AreNumbers(original) /\ original' = original
  BY WorkTypes DEF Numeric
<1>1. LineTaken(t) \/ NoLine(t) \/ NothingAround(t) \/ Written(t) \/ Compared(t) \/ LastCompared(t)
  BY WorkEffects
<1>2. CASE Written(t)
  <2>1. stage \in Filter!Stages /\ at[t] < line /\ k[t] < Dims[stage] /\ at[t] \in Nat /\ k[t] \in Nat
        /\ line \in Nat
    BY <1>2 DEF Written, OnLines
  <2>2. line <= Filter!MappingSize(Filter!OtherDims)
        /\ Filter!MappingSize(Filter!OtherDims) \in Nat /\ Dims[stage] \in Nat
    BY <2>1, LinesAre DEF OnLines, Filter!Stages, Filter!OtherDims
  <2>3. at[t] \in 0 .. Filter!MappingSize(Filter!OtherDims) - 1 /\ k[t] \in 0 .. Dims[stage] - 1
    BY <2>1, <2>2
  <2>4. PICK e, g : /\ filtered' = [filtered EXCEPT ![g] = e]
                    /\ e.values = [v \in Filter!SVars |-> Filter!Convolution(at[t], k[t], v)]
    <3> DEFINE g == Filter!GridPointOf(at[t], k[t])
               e == [values |-> [v \in Filter!SVars |-> Filter!Convolution(at[t], k[t], v)],
                     original |-> Filter!IsOriginal(g)]
    <3>1. filtered' = [filtered EXCEPT ![g] = e]
      BY <1>2 DEF Written
    <3>2. e.values = [v \in Filter!SVars |-> Filter!Convolution(at[t], k[t], v)]
      OBVIOUS
    <3> HIDE DEF g, e
    <3> QED
      BY <3>1, <3>2
  <2>5. \A v \in Vars : Filter!Convolution(at[t], k[t], v) \in Numbers
    BY <2>1, <2>3, ConvolutionIsNumber
  <2>6. e.values \in [Vars -> Numbers]
    BY <2>4, <2>5 DEF Filter!SVars, Vars
  <2>7. \A h \in Filter!Grid : filtered'[h] = IF h = g THEN e ELSE filtered[h]
    BY <2>4, ElseWhere DEF Measured, IsIndex
  <2> QED
    BY <1>0, <2>6, <2>7 DEF AreNumbers
<1>3. CASE ~Written(t)
  BY <1>0, <1>1, <1>3 DEF LineTaken, NoLine, NothingAround, Compared, LastCompared
<1> QED
  BY <1>2, <1>3

(* Each step of the run.                                                   *)
LEMMA StepNumeric ==
  ASSUME IInv, Measured, OnLines, Numeric, [RunNext]_runvars
  PROVE  Numeric'
<1>0. field' = field /\ field.team \subseteq Threads /\ field \in Fields
  BY FieldStays, BuildAssumption DEF IsField, IInv, Types
<1> SUFFICES
      /\ turn' \in Nat \ {0}
      /\ phase' \in {"build", "replace", "scale"} => HaveNumbers(list')
      /\ AreNumbers(original') /\ AreNumbers(filtered')
  BY DEF Numeric, AreNumbers, HaveNumbers
<1>a. AreNumbers(original) /\ AreNumbers(filtered) /\ turn \in Nat \ {0} /\ turn + 1 \in Nat \ {0}
  BY DEF Numeric
<1>b. AreNumbers(Filter!EmptyIndex)
  BY DEF AreNumbers, Filter!EmptyIndex
<1>1. CASE ReplaceValues \/ FilterConvection
  BY <1>0, <1>1, <1>a, StepNumericList DEF ReplaceValues, FilterConvection, filter
<1>2. CASE StartSmoothing
  <2>1. PICK read : /\ \A i \in DOMAIN list : read[i] \in Readable(list[i])
                    /\ list' = [i \in DOMAIN list |-> [list[i] EXCEPT !.values = read[i]]]
                    /\ original' = IndexOf(list') /\ filtered' = filtered
                    /\ phase = "scale" /\ phase' = "smooth" /\ turn' = turn
    BY <1>2 DEF StartSmoothing, Filter!Apply
  <2>2. ASSUME NEW i \in DOMAIN list' PROVE list'[i].values \in [Vars -> Numbers]
    <3>1. i \in DOMAIN list /\ DOMAIN list' = DOMAIN list
      BY <2>1, <2>2
    <3>2. read[i] \in [Vars -> Numbers]
      BY <2>1, <3>1, ReadableIsNumbers DEF Numeric, HaveNumbers
    <3>3. list'[i].values = read[i]
      BY <2>1, <3>1 DEF Measured, IsList, IsPoint
    <3> QED
      BY <3>2, <3>3
  <2>3. PICK new : new = list'
    OBVIOUS
  <2>4. AreNumbers(IndexOf(new))
    BY <2>2, <2>3, IndexIsNumbers
  <2> QED
    BY <1>a, <2>1, <2>3, <2>4
<1>3. CASE Smooth
  <2>1. phase' = "smooth" /\ turn' = turn
    BY <1>3 DEF Smooth
  <2>2. ASSUME NEW t \in field.team, Filter!Work(t)
        PROVE  AreNumbers(original') /\ AreNumbers(filtered')
    BY <1>0, <2>2, StepNumericWork
  <2>3. ASSUME Filter!EndStage(field.team)
        PROVE  AreNumbers(original') /\ AreNumbers(filtered')
    BY <1>a, <1>b, <2>3 DEF Filter!EndStage
  <2> QED
    BY <1>3, <1>a, <2>1, <2>2, <2>3 DEF Smooth
<1>4. CASE Build
  BY <1>4, <1>a DEF Build, filter, after, Numeric
<1>5. CASE NoSmoothing \/ ReplacePoints \/ FilterByWeight \/ Cluster
  BY <1>5, <1>a DEF NoSmoothing, ReplacePoints, FilterByWeight, Cluster, filter
<1>6. CASE UNCHANGED runvars
  BY <1>6, <1>a DEF runvars, filter, after, Numeric
<1>7. CASE BuildEnds
  BY <1>7, <1>a, PointsAreNumbers DEF BuildEnds, filter
<1> QED
  BY <1>1, <1>2, <1>3, <1>4, <1>5, <1>6, <1>7 DEF RunNext

(* There are no values at the beginning.                                   *)
LEMMA InitNumeric == RunInit => Numeric
<1> SUFFICES ASSUME RunInit PROVE Numeric
  OBVIOUS
<1>1. list = <<>> /\ original = Filter!EmptyIndex /\ filtered = Filter!EmptyIndex /\ turn = 1
  BY DEF RunInit, Filter!SmoothInit
<1> QED
  BY <1>1 DEF Numeric, AreNumbers, HaveNumbers, Filter!EmptyIndex

(* With one thread t: all values lie within the ranges, but for those of   *)
(* the point it has just written, which it has not compared yet.           *)
Here(t) == Filter!GridPointOf(at[t], k[t])

Low(t, g, v) ==
  \/ filtered[g].values[v] = NaN
  \/ fmin[v] <= filtered[g].values[v]
  \/ spc[t] \in Sums /\ g = Here(t) /\ v > svar[t]
  \/ spc[t] \in {"compare_least", "set_least"} /\ g = Here(t) /\ v = svar[t]

High(t, g, v) ==
  \/ filtered[g].values[v] = NaN
  \/ filtered[g].values[v] <= fmax[v]
  \/ spc[t] \in Sums /\ g = Here(t) /\ v >= svar[t]

SumsFit(t) ==
  /\ fmin \in [Vars -> Int] /\ fmax \in [Vars -> Int]
  /\ \A g \in Filter!Grid : filtered[g] # NoPoint => \A v \in Vars : Low(t, g, v) /\ High(t, g, v)
  /\ spc[t] \notin Sums => svar[t] = 1
  /\ spc[t] \in Sums =>
       filtered[Here(t)].values = [v \in Vars |-> Filter!Convolution(at[t], k[t], v)]
  /\ spc[t] = "set_least" => Filter!IsLess(Filter!Sum(t), fmin[svar[t]])
  /\ spc[t] = "set_greatest" => Filter!IsGreater(Filter!Sum(t), fmax[svar[t]])

(* What does not change in a stage while a thread stays where it is.       *)
LEMMA SamePlace ==
  ASSUME stage' = stage, original' = original, NEW t \in Threads, at'[t] = at[t], k'[t] = k[t]
  PROVE  /\ Here(t)' = Here(t)
         /\ \A v : Filter!Convolution(at[t], k[t], v)' = Filter!Convolution(at[t], k[t], v)
  BY DEF Here, Filter!GridPointOf, Filter!OtherDims, Filter!Convolution, Filter!Sampled,
         Filter!Weight, Filter!Window, Filter!Times, Filter!Total

(* A thread that writes a sum is on a line.                                *)
LEMMA OnItsLine ==
  ASSUME OnLines, NEW t \in Threads, spc[t] \in Sums \cup {"convolve"}
  PROVE  /\ stage \in Filter!Stages
         /\ at[t] \in 0 .. Filter!MappingSize(Filter!OtherDims) - 1
         /\ k[t] \in 0 .. Dims[stage] - 1
         /\ Here(t) \in Filter!Grid
<1>1. stage \in Filter!Stages /\ at[t] < line /\ k[t] < Dims[stage] /\ at[t] \in Nat /\ k[t] \in Nat
      /\ line \in Nat
  BY DEF OnLines, Sums
<1>2. line <= Filter!MappingSize(Filter!OtherDims)
      /\ Filter!MappingSize(Filter!OtherDims) \in Nat /\ Dims[stage] \in Nat
  BY <1>1, LinesAre DEF OnLines, Filter!Stages, Filter!OtherDims
<1>3. at[t] \in 0 .. Filter!MappingSize(Filter!OtherDims) - 1 /\ k[t] \in 0 .. Dims[stage] - 1
  BY <1>1, <1>2
<1> QED
  BY <1>1, <1>3, LineOnGrid DEF Here

(* The steps that do not look at the ranges.                               *)
LEMMA StepSumsWritten ==
  ASSUME OnLines, Measured, NEW t \in Threads, Filter!Work(t), SumsFit(t), spc[t] \notin Sums
  PROVE  SumsFit(t)'
<1>1. LineTaken(t) \/ NoLine(t) \/ NothingAround(t) \/ Written(t)
  BY WorkEffects DEF Compared, LastCompared
<1>2. stage' = stage /\ original' = original
  BY WorkTypes
<1>3. fmin' = fmin /\ fmax' = fmax /\ svar'[t] = 1
  BY <1>1 DEF SumsFit, LineTaken, NoLine, NothingAround, Written
<1>4. \A g \in Filter!Grid : filtered[g] # NoPoint =>
        \A v \in Vars : \/ filtered[g].values[v] = NaN
                        \/ fmin[v] <= filtered[g].values[v] /\ filtered[g].values[v] <= fmax[v]
  BY DEF SumsFit, Low, High, Sums
<1>5. CASE ~Written(t)
  <2>1. filtered' = filtered /\ spc'[t] \notin Sums
    BY <1>1, <1>5 DEF LineTaken, NoLine, NothingAround, Onwards, Sums
  <2>2. \A g \in Filter!Grid : filtered'[g] # NoPoint => \A v \in Vars : Low(t, g, v)' /\ High(t, g, v)'
    BY <1>3, <1>4, <2>1 DEF Low, High
  <2>3. spc'[t] # "set_least" /\ spc'[t] # "set_greatest"
    BY <2>1 DEF Sums
  <2> QED
    BY <1>3, <2>1, <2>2, <2>3 DEF SumsFit
<1>6. CASE Written(t)
  <2>0. spc'[t] = "compare_least" /\ spc[t] = "convolve" /\ at'[t] = at[t] /\ k'[t] = k[t]
    BY <1>6 DEF Written
  <2>1. PICK g, e : /\ g = Here(t) /\ filtered' = [filtered EXCEPT ![g] = e]
                    /\ e.values = [v \in Filter!SVars |-> Filter!Convolution(at[t], k[t], v)]
    <3> DEFINE g == Filter!GridPointOf(at[t], k[t])
               e == [values |-> [v \in Filter!SVars |-> Filter!Convolution(at[t], k[t], v)],
                     original |-> Filter!IsOriginal(g)]
    <3>1. filtered' = [filtered EXCEPT ![g] = e] /\ g = Here(t)
      BY <1>6 DEF Written, Here
    <3>2. e.values = [v \in Filter!SVars |-> Filter!Convolution(at[t], k[t], v)]
      OBVIOUS
    <3> HIDE DEF g, e
    <3> QED
      BY <3>1, <3>2
  <2>2. g \in Filter!Grid
    BY <2>0, <2>1, OnItsLine
  <2>3. \A h \in Filter!Grid : filtered'[h] = IF h = g THEN e ELSE filtered[h]
    BY <2>1, ElseWhere DEF Measured, IsIndex
  <2>4. /\ Here(t)' = g
        /\ \A v : Filter!Convolution(at[t], k[t], v)' = Filter!Convolution(at[t], k[t], v)
    BY <1>2, <2>0, <2>1, SamePlace
  <2>5. filtered'[g].values = [v \in Vars |-> Filter!Convolution(at[t], k[t], v)]
    BY <2>1, <2>2, <2>3 DEF Filter!SVars, Vars
  <2>6. ASSUME NEW h \in Filter!Grid, filtered'[h] # NoPoint, NEW v \in Vars
        PROVE  Low(t, h, v)' /\ High(t, h, v)'
    <3>1. CASE h = g
      <4>1. v = 1 \/ v > 1
        BY DEF Vars
      <4>2. spc'[t] \in Sums /\ v >= 1
        BY <2>0 DEF Sums, Vars
      <4> QED
        BY <1>3, <2>0, <2>4, <3>1, <4>1, <4>2 DEF Low, High
    <3>2. CASE h # g
      BY <1>3, <1>4, <2>3, <2>6, <3>2 DEF Low, High
    <3> QED
      BY <3>1, <3>2
  <2>7. (filtered[Here(t)].values)' = [v \in Vars |-> Filter!Convolution(at[t], k[t], v)']
    BY <2>4, <2>5
  <2> QED
    BY <1>3, <2>0, <2>6, <2>7 DEF SumsFit, Sums
<1> QED
  BY <1>5, <1>6

(* The next variable is compared when the one before it fits.              *)
LEMMA StepNextSum ==
  ASSUME OnLines, NEW t \in Threads, Filter!Work(t), SumsFit(t), spc[t] \in Sums,
         Filter!NextSum(t), filtered' = filtered, at' = at, fmin' = fmin, fmax' \in [Vars -> Int],
         \A g \in Filter!Grid : filtered[g] # NoPoint => \A v \in Vars :
           \/ filtered[g].values[v] = NaN
           \/ g = Here(t) /\ v > svar[t]
           \/ fmin[v] <= filtered[g].values[v] /\ filtered[g].values[v] <= fmax'[v]
  PROVE  SumsFit(t)'
<1>1. svar[t] \in Vars /\ Rank \in Nat \ {0}
  BY BuildAssumption DEF OnLines
<1>2. stage' = stage /\ original' = original
  BY WorkTypes
<1>3. CASE svar[t] < Rank
  <2>1. svar'[t] = svar[t] + 1 /\ spc'[t] = "compare_least" /\ at'[t] = at[t] /\ k'[t] = k[t]
    BY <1>3 DEF Filter!NextSum, Filter!SGoto, OnLines
  <2>2. /\ Here(t)' = Here(t)
        /\ \A v : Filter!Convolution(at[t], k[t], v)' = Filter!Convolution(at[t], k[t], v)
    BY <1>2, <2>1, SamePlace
  <2>3. ASSUME NEW g \in Filter!Grid, filtered[g] # NoPoint, NEW v \in Vars
        PROVE  Low(t, g, v)' /\ High(t, g, v)'
    <3>1. v \in Nat /\ svar[t] \in Nat
      BY <1>1 DEF Vars
    <3>2. v > svar[t] => v > svar[t] + 1 \/ v = svar[t] + 1
      BY <3>1
    <3>3. v > svar[t] => v >= svar[t] + 1
      BY <3>1
    <3> QED
      BY <2>1, <2>2, <2>3, <3>2, <3>3 DEF Low, High, Sums
  <2>4. (filtered[Here(t)].values)' = [v \in Vars |-> Filter!Convolution(at[t], k[t], v)']
    BY <2>2 DEF SumsFit
  <2> QED
    BY <2>1, <2>3, <2>4 DEF SumsFit, Sums
<1>4. CASE ~(svar[t] < Rank)
  <2>1. svar'[t] = 1 /\ spc'[t] \in {"convolve", "fetch"}
    BY <1>4 DEF Filter!NextSum, Filter!NextPlace, Filter!SGoto, OnLines
  <2>2. \A v \in Vars : ~(v > svar[t])
    BY <1>1, <1>4 DEF Vars
  <2>3. ASSUME NEW g \in Filter!Grid, filtered[g] # NoPoint, NEW v \in Vars
        PROVE  Low(t, g, v)' /\ High(t, g, v)'
    BY <2>2, <2>3 DEF Low, High
  <2> QED
    BY <2>1, <2>3 DEF SumsFit, Sums
<1> QED
  BY <1>3, <1>4

(* The steps that compare a sum with the ranges, or set them to it.        *)
LEMMA StepSumsCompared ==
  ASSUME OnLines, Numeric, NEW t \in Threads, Filter!Work(t), SumsFit(t), spc[t] \in Sums
  PROVE  SumsFit(t)'
<1> DEFINE V == svar[t]
           G == Here(t)
           x == Filter!Sum(t)
<1>1. V \in Vars /\ V \in Nat /\ Vars \subseteq Nat
  BY DEF OnLines, Vars
<1>2. stage' = stage /\ original' = original
  BY WorkTypes
<1>3. x \in Numbers /\ G \in Filter!Grid /\ filtered[G].values[V] = x
  <2>1. x = Filter!Convolution(at[t], k[t], V)
    BY DEF Filter!Sum
  <2> QED
    BY <1>1, <2>1, OnItsLine, ConvolutionIsNumber DEF SumsFit
<1>4. fmin \in [Vars -> Int] /\ fmax \in [Vars -> Int]
  BY DEF SumsFit
<1>5. ASSUME NEW g \in Filter!Grid, filtered[g] # NoPoint, NEW v \in Vars
      PROVE  /\ filtered[g].values[v] \in Numbers /\ v \in Nat /\ fmin[v] \in Int /\ fmax[v] \in Int
             /\ Low(t, g, v) /\ High(t, g, v)
  BY <1>1, <1>4, <1>5 DEF Numeric, AreNumbers, SumsFit
<1>6. ASSUME at' = at, k' = k, svar' = svar, filtered' = filtered
      PROVE  /\ Here(t)' = G /\ Filter!Sum(t)' = x /\ svar'[t] = V
             /\ (filtered[Here(t)].values)' = [v \in Vars |-> Filter!Convolution(at[t], k[t], v)']
  <2>1. /\ Here(t)' = G
        /\ \A v : Filter!Convolution(at[t], k[t], v)' = Filter!Convolution(at[t], k[t], v)
    BY <1>2, <1>6, SamePlace
  <2> QED
    BY <1>6, <2>1 DEF SumsFit, Filter!Sum
<1> HIDE DEF V, G, x
<1>7. CASE Filter!CompareLeastSum(t)
  <2>1. /\ spc[t] = "compare_least" /\ UNCHANGED <<at, k, svar, filtered, fmin, fmax>>
        /\ spc'[t] = IF Filter!IsLess(x, fmin[V]) THEN "set_least" ELSE "compare_greatest"
    BY <1>7 DEF Filter!CompareLeastSum, Filter!SGoto, Filter!sranges, OnLines, V, x
  <2>2. ASSUME NEW g \in Filter!Grid, filtered[g] # NoPoint, NEW v \in Vars
        PROVE  Low(t, g, v)' /\ High(t, g, v)'
    <3>1. CASE Filter!IsLess(x, fmin[V])
      BY <1>5, <1>6, <2>1, <2>2, <3>1 DEF Low, High, Sums, V, G
    <3>2. CASE ~Filter!IsLess(x, fmin[V])
      <4>1. High(t, g, v)'
        BY <1>5, <1>6, <2>1, <2>2, <3>2 DEF High, Sums, V, G
      <4>2. CASE g = G /\ v = V
        <5>1. filtered[g].values[v] = NaN \/ fmin[v] <= filtered[g].values[v]
          BY <1>3, <1>5, <2>2, <3>2, <4>2 DEF Filter!IsLess, Numbers
        <5> QED
          BY <2>1, <4>1, <5>1 DEF Low
      <4>3. CASE ~(g = G /\ v = V)
        BY <1>5, <1>6, <2>1, <2>2, <3>2, <4>1, <4>3 DEF Low, Sums, V, G
      <4> QED
        BY <4>2, <4>3
    <3> QED
      BY <3>1, <3>2
  <2>3. spc'[t] = "set_least" => Filter!IsLess(Filter!Sum(t)', fmin'[svar'[t]])
    BY <1>6, <2>1
  <2> QED
    BY <1>4, <1>6, <2>1, <2>2, <2>3 DEF SumsFit, Sums, Filter!IsLess
<1>8. CASE Filter!SetLeastSum(t)
  <2>1. /\ spc[t] = "set_least" /\ UNCHANGED <<at, k, svar, filtered, fmax>>
        /\ spc'[t] = "compare_greatest" /\ fmin' = [fmin EXCEPT ![V] = x]
    BY <1>8 DEF Filter!SetLeastSum, Filter!SGoto, OnLines, V, x
  <2>2. x \in Int /\ x < fmin[V]
    BY <1>3, <2>1 DEF SumsFit, x, V, Filter!IsLess, Numbers
  <2>3. fmin' \in [Vars -> Int] /\ fmin'[V] = x /\ \A v \in Vars : v # V => fmin'[v] = fmin[v]
    BY <1>1, <1>4, <2>1, <2>2
  <2>4. ASSUME NEW g \in Filter!Grid, filtered[g] # NoPoint, NEW v \in Vars
        PROVE  Low(t, g, v)' /\ High(t, g, v)'
    <3>1. High(t, g, v)'
      BY <1>5, <1>6, <2>1, <2>4 DEF High, Sums, V, G
    <3>2. CASE v # V
      BY <1>5, <1>6, <2>1, <2>3, <2>4, <3>1, <3>2 DEF Low, Sums, V, G
    <3>3. CASE v = V /\ g = G
      <4>1. fmin'[v] <= filtered[g].values[v]
        BY <1>3, <2>2, <2>3, <3>3
      <4> QED
        BY <2>1, <3>1, <4>1 DEF Low
    <3>4. CASE v = V /\ g # G
      <4>1. filtered[g].values[v] = NaN \/ fmin[v] <= filtered[g].values[v]
        BY <1>5, <2>4, <3>4 DEF Low, G
      <4>2. filtered[g].values[v] = NaN \/ fmin'[v] <= filtered[g].values[v]
        BY <1>5, <2>2, <2>3, <2>4, <3>4, <4>1 DEF Numbers
      <4> QED
        BY <2>1, <3>1, <4>2 DEF Low
    <3> QED
      BY <3>2, <3>3, <3>4
  <2> QED
    BY <1>4, <1>6, <2>1, <2>3, <2>4 DEF SumsFit, Sums
<1>9. CASE Filter!CompareGreatestSum(t)
  <2>0. /\ spc[t] = "compare_greatest" /\ UNCHANGED <<at, filtered, fmin, fmax>>
        /\ \/ Filter!IsGreater(x, fmax[V]) /\ spc'[t] = "set_greatest" /\ UNCHANGED <<k, svar>>
           \/ ~Filter!IsGreater(x, fmax[V]) /\ Filter!NextSum(t)
    BY <1>9 DEF Filter!CompareGreatestSum, Filter!SGoto, Filter!sranges, OnLines, V, x
  <2>1. CASE Filter!IsGreater(x, fmax[V]) /\ spc'[t] = "set_greatest" /\ UNCHANGED <<k, svar>>
    <3>1. ASSUME NEW g \in Filter!Grid, filtered[g] # NoPoint, NEW v \in Vars
          PROVE  Low(t, g, v)' /\ High(t, g, v)'
      BY <1>5, <1>6, <2>0, <2>1, <3>1 DEF Low, High, Sums, V, G
    <3> QED
      BY <1>4, <1>6, <2>0, <2>1, <3>1 DEF SumsFit, Sums, Filter!IsGreater
  <2>2. CASE ~Filter!IsGreater(x, fmax[V]) /\ Filter!NextSum(t)
    <3>1. ASSUME NEW g \in Filter!Grid, filtered[g] # NoPoint, NEW v \in Vars
          PROVE  \/ filtered[g].values[v] = NaN
                 \/ g = Here(t) /\ v > svar[t]
                 \/ fmin[v] <= filtered[g].values[v] /\ filtered[g].values[v] <= fmax'[v]
      <4>1. \/ filtered[g].values[v] = NaN
            \/ fmin[v] <= filtered[g].values[v]
            \/ g = Here(t) /\ v > svar[t]
        BY <1>5, <2>0, <3>1 DEF Low
      <4>2. CASE g = G /\ v = V
        BY <1>3, <1>5, <2>0, <2>2, <3>1, <4>1, <4>2 DEF Filter!IsGreater, Numbers
      <4>3. CASE ~(g = G /\ v = V)
        BY <1>1, <1>5, <2>0, <3>1, <4>1, <4>3 DEF High, G, V
      <4> QED
        BY <4>2, <4>3
    <3> QED
      BY <1>4, <2>0, <2>2, <3>1, StepNextSum
  <2> QED
    BY <2>0, <2>1, <2>2
<1>10. CASE Filter!SetGreatestSum(t)
  <2>1. /\ spc[t] = "set_greatest" /\ UNCHANGED <<at, filtered, fmin>>
        /\ Filter!NextSum(t) /\ fmax' = [fmax EXCEPT ![V] = x]
    BY <1>10 DEF Filter!SetGreatestSum, OnLines, V, x
  <2>2. x \in Int /\ x > fmax[V]
    BY <1>3, <2>1 DEF SumsFit, x, V, Filter!IsGreater, Numbers
  <2>3. fmax' \in [Vars -> Int] /\ fmax'[V] = x /\ \A v \in Vars : v # V => fmax'[v] = fmax[v]
    BY <1>1, <1>4, <2>1, <2>2
  <2>4. ASSUME NEW g \in Filter!Grid, filtered[g] # NoPoint, NEW v \in Vars
        PROVE  \/ filtered[g].values[v] = NaN
               \/ g = Here(t) /\ v > svar[t]
               \/ fmin[v] <= filtered[g].values[v] /\ filtered[g].values[v] <= fmax'[v]
    <3>1. \/ filtered[g].values[v] = NaN
          \/ fmin[v] <= filtered[g].values[v]
          \/ g = Here(t) /\ v > svar[t]
      BY <1>5, <2>1, <2>4 DEF Low
    <3>2. CASE v # V
      BY <1>1, <1>5, <2>3, <2>4, <3>1, <3>2 DEF High, G, V
    <3>3. CASE v = V /\ g = G
      BY <1>3, <2>2, <2>3, <3>1, <3>3
    <3>4. CASE v = V /\ g # G
      <4>1. filtered[g].values[v] = NaN \/ filtered[g].values[v] <= fmax[v]
        BY <1>5, <2>4, <3>4 DEF High, G
      <4> QED
        BY <1>5, <2>2, <2>3, <2>4, <3>1, <3>4, <4>1 DEF Numbers
    <3> QED
      BY <3>2, <3>3, <3>4
  <2> QED
    BY <2>1, <2>3, <2>4, StepNextSum
<1> QED
  BY <1>7, <1>8, <1>9, <1>10 DEF Filter!Work, Filter!FetchLine, Filter!Convolve, Sums

(* The same of the points of the feature space, if it is built by one      *)
(* thread t and they are sane.                                             *)
Least(t, i, v) ==
  \/ min[v] <= points[i].values[v]
  \/ pc[t] \in After /\ i = Len(points) /\ v > var[t]
  \/ pc[t] \in {"compare_least", "set_least"} /\ i = Len(points) /\ v = var[t]

Most(t, i, v) ==
  \/ points[i].values[v] <= max[v]
  \/ pc[t] \in After /\ i = Len(points) /\ v >= var[t]

PointsFit(t) ==
  /\ \A i \in 1 .. Len(points), v \in Vars : Least(t, i, v) /\ Most(t, i, v)
  /\ pc[t] \notin After => var[t] = 1
  /\ pc[t] \in After => Len(points) > 0 /\ points[Len(points)].values = Values(cell[t])
  /\ pc[t] = "set_least" => Values(cell[t])[var[t]] < min[var[t]]
  /\ pc[t] = "set_greatest" => Values(cell[t])[var[t]] > max[var[t]]

(* Sane points have a number for each variable.                            *)
LEMMA PointValues ==
  ASSUME IInv, PointsAreSane, NEW i \in 1 .. Len(points), NEW v \in Vars
  PROVE  points[i].values[v] \in Int
<1>1. points \in Seq(PointType) /\ field \in Fields
  BY DEF IInv, Types
<1>2. PICK c \in Cells : points[i] = PointOf(c)
  BY <1>1 DEF PointType
<1>3. points[i].values \in Seq(Int)
  BY <1>1, <1>2, ValuesAreNumbers DEF PointOf
<1>4. Len(points[i].values) = Rank
  BY DEF PointsAreSane
<1> QED
  BY <1>3, <1>4 DEF Vars

(* A thread that stays in its cell keeps the values it has read.           *)
LEMMA ValuesStay ==
  ASSUME field' = field, NEW t \in Threads, cell'[t] = cell[t]
  PROVE  Values(cell[t])' = Values(cell[t])
  BY DEF Values

(* The steps that do not look at the ranges.                               *)
LEMMA StepPointsBefore ==
  ASSUME IInv, Locals, NEW t \in Threads, Step(t), PointsFit(t), pc[t] \notin After
  PROVE  PointsFit(t)'
<1>0. field' = field /\ Len(points) \in Nat
  BY StepOfOne DEF IInv, Types
<1>1. \A i \in 1 .. Len(points), v \in Vars :
        min[v] <= points[i].values[v] /\ points[i].values[v] <= max[v]
  BY DEF PointsFit, Least, Most, After
<1>2. CASE Fetch(t) \/ Read(t) \/ Enter(t)
  <2>1. UNCHANGED <<points, min, max, var>>
    BY <1>2 DEF Fetch, Read, Enter, ranges
  <2>2. pc'[t] \notin After
    <3>1. pc'[t] \in {"read", "over", "fetch", "create", "push"}
      BY <1>2 DEF Fetch, Read, Enter, Advance, Goto, IInv, Types
    <3> QED
      BY <3>1 DEF After
  <2>3. var'[t] = 1
    BY <2>1 DEF PointsFit
  <2>4. \A i \in 1 .. Len(points'), v \in Vars : Least(t, i, v)' /\ Most(t, i, v)'
    BY <1>1, <2>1 DEF Least, Most
  <2> QED
    BY <2>2, <2>3, <2>4 DEF PointsFit, After
<1>3. CASE Push(t)
  <2>1. Pushed(t) /\ UNCHANGED <<min, max, var>>
    BY <1>3 DEF Push, Goto, IInv, Types, Exclusive, Pushed, ranges
  <2>2. /\ Len(points') = Len(points) + 1
        /\ \A i \in 1 .. Len(points) : points'[i] = points[i]
        /\ points'[Len(points')] = MyPoint(t)
    BY <2>1 DEF IInv, Types, Pushed
  <2>3. pc'[t] = "compare_least" /\ var'[t] = 1 /\ cell'[t] = cell[t]
    BY <2>1 DEF Pushed, PointsFit
  <2>4. points'[Len(points')].values = Values(cell[t])'
    BY <1>0, <2>2, <2>3, ValuesStay DEF MyPoint
  <2>5. ASSUME NEW i \in 1 .. Len(points'), NEW v \in Vars PROVE Least(t, i, v)' /\ Most(t, i, v)'
    <3>1. CASE i \in 1 .. Len(points)
      BY <1>1, <2>1, <2>2, <3>1 DEF Least, Most
    <3>2. CASE i = Len(points')
      <4>1. v >= 1 /\ (v = 1 \/ v > 1)
        BY DEF Vars
      <4> QED
        BY <2>3, <3>2, <4>1 DEF Least, Most, After
    <3> QED
      BY <1>0, <2>2, <3>1, <3>2
  <2>6. Len(points') > 0
    BY <1>0, <2>2
  <2> QED
    BY <2>3, <2>4, <2>5, <2>6 DEF PointsFit, After
<1> QED
  BY <1>2, <1>3, RangeSteps DEF Step

(* The next variable is compared when the one before it fits.              *)
LEMMA StepNextVar ==
  ASSUME IInv, Locals, NEW t \in Threads, PointsFit(t), pc[t] \in After,
         NextVar(t), points' = points, field' = field, min' = min, max' \in [Vars -> Int],
         \A i \in 1 .. Len(points), v \in Vars :
           /\ min[v] <= points[i].values[v] \/ (i = Len(points) /\ v > var[t])
           /\ points[i].values[v] <= max'[v] \/ (i = Len(points) /\ v > var[t])
  PROVE  PointsFit(t)'
<1>1. var[t] \in Vars /\ Rank \in Nat \ {0}
  BY BuildAssumption DEF Locals
<1>3. CASE var[t] < Rank
  <2>1. var'[t] = var[t] + 1 /\ pc'[t] = "compare_least" /\ cell' = cell
    BY <1>3 DEF NextVar, Goto, Locals, IInv, Types
  <2>3. ASSUME NEW i \in 1 .. Len(points), NEW v \in Vars
        PROVE  Least(t, i, v)' /\ Most(t, i, v)'
    <3>1. v \in Nat /\ var[t] \in Nat
      BY <1>1 DEF Vars
    <3>2. v > var[t] => v > var[t] + 1 \/ v = var[t] + 1
      BY <3>1
    <3>3. v > var[t] => v >= var[t] + 1
      BY <3>1
    <3> QED
      BY <2>1, <2>3, <3>2, <3>3 DEF Least, Most, After
  <2>4. points'[Len(points')].values = Values(cell[t])' /\ Len(points') > 0
    BY <2>1, ValuesStay DEF PointsFit
  <2> QED
    BY <2>1, <2>3, <2>4 DEF PointsFit, After
<1>4. CASE ~(var[t] < Rank)
  <2>1. var'[t] = 1 /\ pc'[t] \in {"read", "fetch"}
    BY <1>4 DEF NextVar, Advance, Goto, Locals, IInv, Types
  <2>2. \A v \in Vars : ~(v > var[t])
    BY <1>1, <1>4 DEF Vars
  <2>3. ASSUME NEW i \in 1 .. Len(points), NEW v \in Vars
        PROVE  Least(t, i, v)' /\ Most(t, i, v)'
    BY <2>2 DEF Least, Most
  <2> QED
    BY <2>1, <2>3 DEF PointsFit, After
<1> QED
  BY <1>3, <1>4

(* The steps that compare a value with the ranges, or set them to it.      *)
LEMMA StepPointsAfter ==
  ASSUME IInv, Locals, PointsAreSane, NEW t \in Threads, Step(t), PointsFit(t), pc[t] \in After
  PROVE  PointsFit(t)'
<1> DEFINE V == var[t]
           G == Len(points)
           x == Values(cell[t])[var[t]]
<1>0. field' = field /\ UNCHANGED points /\ G \in Nat
  BY StepOfOne, RangeSteps, PlaceNames DEF Step, Fetch, Read, Enter, Push, IInv, Types
<1>1. V \in Vars /\ V \in Nat /\ Vars \subseteq Nat
  BY DEF Locals, Vars
<1>3. x \in Int /\ G \in 1 .. Len(points) /\ points[G].values[V] = x
  <2>1. G \in 1 .. Len(points) /\ points[G].values = Values(cell[t])
    BY <1>0 DEF PointsFit
  <2> QED
    BY <1>1, <2>1, PointValues
<1>2. At(MyPoint(t), V) = {x}
  <2>1. MyPoint(t).values = Values(cell[t]) /\ Len(Values(cell[t])) = Rank
    BY <1>3 DEF MyPoint, PointsFit, PointsAreSane
  <2>2. V <= Rank
    BY <1>1, BuildAssumption DEF Vars
  <2> QED
    BY <2>1, <2>2 DEF At
<1>4. min \in [Vars -> Int] /\ max \in [Vars -> Int]
  BY DEF Locals
<1>5. ASSUME NEW i \in 1 .. Len(points), NEW v \in Vars
      PROVE  /\ points[i].values[v] \in Int /\ v \in Nat /\ min[v] \in Int /\ max[v] \in Int
             /\ Least(t, i, v) /\ Most(t, i, v)
  BY <1>1, <1>4, PointValues DEF PointsFit
<1>6. ASSUME cell' = cell, var' = var
      PROVE  /\ Len(points') = G /\ var'[t] = V /\ (Values(cell[t])[var[t]])' = x
             /\ Len(points') > 0 /\ points'[Len(points')].values = Values(cell[t])'
  BY <1>0, <1>6, ValuesStay DEF PointsFit
<1> HIDE DEF V, G, x
<1>7. CASE CompareLeast(t)
  <2>1. /\ pc[t] = "compare_least" /\ UNCHANGED <<cell, var, min, max>>
        /\ pc'[t] = IF x < min[V] THEN "set_least" ELSE "compare_greatest"
    BY <1>2, <1>7 DEF CompareLeast, Goto, ranges, IInv, Types, V
  <2>2. ASSUME NEW i \in 1 .. Len(points), NEW v \in Vars
        PROVE  Least(t, i, v)' /\ Most(t, i, v)'
    <3>1. CASE x < min[V]
      BY <1>0, <1>5, <1>6, <2>1, <3>1 DEF Least, Most, After, V, G
    <3>2. CASE ~(x < min[V])
      <4>1. Most(t, i, v)'
        BY <1>0, <1>5, <1>6, <2>1, <3>2 DEF Most, After, V, G
      <4>2. CASE i = G /\ v = V
        <5>1. min[v] <= points[i].values[v]
          BY <1>3, <1>5, <3>2, <4>2
        <5> QED
          BY <1>0, <2>1, <4>1, <5>1 DEF Least
      <4>3. CASE ~(i = G /\ v = V)
        BY <1>0, <1>5, <1>6, <2>1, <3>2, <4>1, <4>3 DEF Least, After, V, G
      <4> QED
        BY <4>2, <4>3
    <3> QED
      BY <3>1, <3>2
  <2> QED
    BY <1>0, <1>6, <2>1, <2>2 DEF PointsFit, After
<1>8. CASE SetLeast(t)
  <2>1. /\ pc[t] = "set_least" /\ UNCHANGED <<cell, var, max>>
        /\ pc'[t] = "compare_greatest" /\ min' = [min EXCEPT ![V] = x]
    BY <1>2, <1>8 DEF SetLeast, Goto, IInv, Types, V
  <2>2. x < min[V]
    BY <2>1 DEF PointsFit, x, V
  <2>3. min'[V] = x /\ \A v \in Vars : v # V => min'[v] = min[v]
    BY <1>1, <1>3, <1>4, <2>1
  <2>4. ASSUME NEW i \in 1 .. Len(points), NEW v \in Vars
        PROVE  Least(t, i, v)' /\ Most(t, i, v)'
    <3>1. Most(t, i, v)'
      BY <1>0, <1>5, <1>6, <2>1 DEF Most, After, V, G
    <3>2. CASE v # V
      BY <1>0, <1>5, <1>6, <2>1, <2>3, <3>1, <3>2 DEF Least, After, V, G
    <3>3. CASE v = V /\ i = G
      <4>1. min'[v] <= points[i].values[v]
        BY <1>3, <2>3, <3>3
      <4> QED
        BY <1>0, <3>1, <4>1 DEF Least
    <3>4. CASE v = V /\ i # G
      <4>1. min[v] <= points[i].values[v]
        BY <1>5, <3>4 DEF Least, G
      <4>2. min'[v] <= points[i].values[v]
        BY <1>3, <1>5, <2>2, <2>3, <3>4, <4>1
      <4> QED
        BY <1>0, <3>1, <4>2 DEF Least
    <3> QED
      BY <3>2, <3>3, <3>4
  <2> QED
    BY <1>0, <1>6, <2>1, <2>4 DEF PointsFit, After
<1>9. CASE CompareGreatest(t)
  <2>0. /\ pc[t] = "compare_greatest" /\ UNCHANGED <<min, max>>
        /\ \/ x > max[V] /\ pc'[t] = "set_greatest" /\ UNCHANGED <<cell, var>>
           \/ ~(x > max[V]) /\ NextVar(t)
    BY <1>2, <1>9 DEF CompareGreatest, Goto, ranges, IInv, Types, V
  <2>1. CASE x > max[V] /\ pc'[t] = "set_greatest" /\ UNCHANGED <<cell, var>>
    <3>1. ASSUME NEW i \in 1 .. Len(points), NEW v \in Vars
          PROVE  Least(t, i, v)' /\ Most(t, i, v)'
      BY <1>0, <1>5, <1>6, <2>0, <2>1 DEF Least, Most, After, V, G
    <3> QED
      BY <1>0, <1>6, <2>0, <2>1, <3>1 DEF PointsFit, After
  <2>2. CASE ~(x > max[V]) /\ NextVar(t)
    <3>1. ASSUME NEW i \in 1 .. Len(points), NEW v \in Vars
          PROVE  /\ min[v] <= points[i].values[v] \/ (i = Len(points) /\ v > var[t])
                 /\ points[i].values[v] <= max'[v] \/ (i = Len(points) /\ v > var[t])
      <4>1. min[v] <= points[i].values[v] \/ (i = Len(points) /\ v > var[t])
        BY <1>5, <2>0 DEF Least
      <4>2. CASE i = G /\ v = V
        BY <1>3, <1>5, <2>0, <2>2, <4>1, <4>2
      <4>3. CASE ~(i = G /\ v = V)
        BY <1>1, <1>5, <2>0, <4>1, <4>3 DEF Most, G, V
      <4> QED
        BY <4>2, <4>3
    <3> QED
      BY <1>0, <1>4, <2>0, <2>2, <3>1, StepNextVar
  <2> QED
    BY <2>0, <2>1, <2>2
<1>10. CASE SetGreatest(t)
  <2>1. /\ pc[t] = "set_greatest" /\ UNCHANGED min
        /\ NextVar(t) /\ max' = [max EXCEPT ![V] = x]
    BY <1>2, <1>10 DEF SetGreatest, V
  <2>2. x > max[V]
    BY <2>1 DEF PointsFit, x, V
  <2>3. max' \in [Vars -> Int] /\ max'[V] = x /\ \A v \in Vars : v # V => max'[v] = max[v]
    BY <1>1, <1>3, <1>4, <2>1
  <2>4. ASSUME NEW i \in 1 .. Len(points), NEW v \in Vars
        PROVE  /\ min[v] <= points[i].values[v] \/ (i = Len(points) /\ v > var[t])
               /\ points[i].values[v] <= max'[v] \/ (i = Len(points) /\ v > var[t])
    <3>1. min[v] <= points[i].values[v] \/ (i = Len(points) /\ v > var[t])
      BY <1>5, <2>1 DEF Least
    <3>2. CASE v # V
      BY <1>1, <1>5, <2>3, <3>1, <3>2 DEF Most, G, V
    <3>3. CASE v = V /\ i = G
      BY <1>3, <2>3, <3>1, <3>3
    <3>4. CASE v = V /\ i # G
      <4>1. points[i].values[v] <= max[v]
        BY <1>5, <3>4 DEF Most, G
      <4> QED
        BY <1>3, <1>5, <2>2, <2>3, <3>1, <3>4, <4>1
    <3> QED
      BY <3>2, <3>3, <3>4
  <2> QED
    BY <1>0, <2>1, <2>3, <2>4, StepNextVar
<1> QED
  BY <1>7, <1>8, <1>9, <1>10, PlaceNames DEF Step, Fetch, Read, Enter, Push

(* If one thread builds the feature space: no other thread moves, and sane *)
(* points fit.                                                             *)
Fits ==
  \A t \in Threads : field.team = {t} =>
    /\ \A s \in Threads \ {t} : pc[s] = "over"
    /\ PointsAreSane => PointsFit(t)

(* Holds when the threads start.                                           *)
LEMMA InitFits == Init => Fits
<1> SUFFICES ASSUME Init, NEW t \in Threads, field.team = {t}
             PROVE  /\ \A s \in Threads \ {t} : pc[s] = "over"
                    /\ PointsFit(t)
  BY DEF Fits
<1>1. points = <<>> /\ Len(points) = 0 /\ pc[t] \notin After /\ var[t] = 1
  BY DEF Init, After
<1>2. pc[t] # "set_least" /\ pc[t] # "set_greatest"
  BY <1>1 DEF After
<1> QED
  BY <1>1, <1>2 DEF Init, PointsFit

(* Points are only added, so that insane ones do not become sane.          *)
LEMMA SaneBefore ==
  ASSUME IInv, NEW t \in Threads, Step(t), PointsAreSane'
  PROVE  PointsAreSane
<1>1. CASE Push(t)
  <2>1. /\ points \in Seq(PointType) /\ Len(points') = Len(points) + 1
        /\ \A i \in 1 .. Len(points) : points'[i] = points[i]
    BY <1>1 DEF IInv, Types, Push, Goto, Exclusive
  <2> QED
    BY <2>1 DEF PointsAreSane
<1>2. CASE ~Push(t)
  <2>1. points' = points
    BY <1>2 DEF Step, Fetch, Read, Enter, CompareLeast, SetLeast, CompareGreatest, SetGreatest
  <2> QED
    BY <2>1 DEF PointsAreSane
<1> QED
  BY <1>1, <1>2

(* Only a thread that is not over does something.                          *)
LEMMA StepIsNotOver == ASSUME NEW t \in Threads, Step(t) PROVE pc[t] # "over"
  BY DEF Step, Fetch, Read, Enter, Push, CompareLeast, SetLeast, CompareGreatest, SetGreatest

(* A step of the one thread keeps the points fitting.                      *)
LEMMA StepFits == IInv /\ Locals /\ Fits /\ [Next]_vars => Fits'
<1> SUFFICES ASSUME IInv, Locals, Fits, [Next]_vars, NEW t \in Threads, (field.team = {t})'
             PROVE  /\ \A s \in Threads \ {t} : pc'[s] = "over"
                    /\ PointsAreSane' => PointsFit(t)'
  BY DEF Fits
<1>1. CASE UNCHANGED vars
  <2>1. field.team = {t} /\ UNCHANGED <<field, pc, cell, var, points, min, max>>
    BY <1>1 DEF vars, local, ranges
  <2>2. /\ \A s \in Threads \ {t} : pc[s] = "over"
        /\ PointsAreSane => PointsFit(t)
    BY <2>1 DEF Fits
  <2>3. Values(cell[t])' = Values(cell[t])
    BY <2>1, ValuesStay
  <2> QED
    BY <2>1, <2>2, <2>3 DEF PointsAreSane, PointsFit, Least, Most
<1>2. ASSUME NEW s \in Threads, Step(s)
      PROVE  /\ \A u \in Threads \ {t} : pc'[u] = "over"
             /\ PointsAreSane' => PointsFit(t)'
  <2>1. field' = field /\ \A u \in Threads \ {s} : Alike(u)
    BY <1>2, StepOfOne DEF IInv
  <2>2. /\ \A u \in Threads \ {t} : pc[u] = "over"
        /\ PointsAreSane => PointsFit(t)
    BY <2>1 DEF Fits
  <2>3. s = t
    BY <1>2, <2>2, StepIsNotOver
  <2>4. PointsAreSane' => PointsAreSane
    BY <1>2, SaneBefore
  <2>5. ASSUME PointsAreSane, PointsFit(t) PROVE PointsFit(t)'
    BY <1>2, <2>3, <2>5, StepPointsBefore, StepPointsAfter
  <2> QED
    BY <2>1, <2>2, <2>3, <2>4, <2>5 DEF Alike
<1> QED
  BY <1>1, <1>2 DEF Next

(* A team of one is a thread.                                              *)
LEMMA OneThread ==
  ASSUME field \in Fields, Cardinality(field.team) = 1
  PROVE  \E t \in Threads : field.team = {t}
<1>1. field.team \subseteq Threads /\ IsFiniteSet(Threads)
  BY BuildAssumption DEF IsField
<1>2. IsFiniteSet(field.team)
  BY <1>1, FS_Subset
<1> QED
  BY <1>1, <1>2, FS_Singleton

(* When it is over, no value is outside.                                   *)
LEMMA FitsContain ==
  ASSUME IInv, Fits, NEW t \in Threads, field.team = {t}
  PROVE  AloneContainsAll
<1> SUFFICES ASSUME PointsAreSane, Built, NEW i \in 1 .. Len(points), NEW v \in Vars,
                    NEW x \in At(points[i], v)
             PROVE  min[v] <= x /\ x <= max[v]
  BY DEF AloneContainsAll, RangesContainAll
<1>1. Least(t, i, v) /\ Most(t, i, v)
  BY DEF Fits, PointsFit
<1>2. pc[t] \notin After
  BY PlaceNames DEF Built
<1>3. min[v] <= points[i].values[v] /\ points[i].values[v] <= max[v]
  BY <1>1, <1>2 DEF Least, Most, After
<1>4. x = points[i].values[v]
  <2>1. v <= Len(points[i].values)
    BY BuildAssumption DEF PointsAreSane, Vars
  <2> QED
    BY <2>1 DEF At
<1> QED
  BY <1>3, <1>4

(* The ranges of one thread contain all values it has stored.              *)
LEMMA FitsHold == Spec => []Fits
  BY BuildHolds, InitFits, StepFits, PTL DEF Spec

(* The same of the filter: the sums fit until they are copied to the list, *)
(* and then the values in the list do.                                     *)
ScaledAlone ==
  \A t \in Threads : field.team = {t} /\ Scale =>
    /\ phase \in {"build", "replace", "scale", "smooth"} => SumsFit(t)
    /\ Scaled

(* Holds when the run starts.                                              *)
LEMMA InitScaled == RunInit => ScaledAlone
<1> SUFFICES ASSUME RunInit, NEW t \in Threads PROVE SumsFit(t) /\ Scaled
  BY DEF ScaledAlone
<1>1. Scaled
  BY DEF RunInit, Scaled
<1>2. /\ spc[t] = "over" /\ svar[t] = 1 /\ filtered = Filter!EmptyIndex
      /\ fmin = [v \in Filter!SVars |-> Largest] /\ fmax = [v \in Filter!SVars |-> Tiny]
  BY DEF RunInit, Filter!SmoothInit
<1>3. fmin \in [Vars -> Int] /\ fmax \in [Vars -> Int]
  BY <1>2, BuildAssumption DEF Filter!SVars, Vars
<1>4. \A g \in Filter!Grid : filtered[g] = NoPoint
  BY <1>2 DEF Filter!EmptyIndex
<1> QED
  BY <1>1, <1>2, <1>3, <1>4 DEF SumsFit, Sums

(* A thread that is not in the middle of its comparisons.                  *)
LEMMA AtRest ==
  ASSUME NEW t \in Threads, SumsFit(t), spc[t] \notin Sums, spc'[t] \notin Sums,
         UNCHANGED <<svar, fmin, fmax>>,
         \A g \in Filter!Grid : filtered'[g] # NoPoint => filtered'[g] = filtered[g]
  PROVE  SumsFit(t)'
<1>1. \A g \in Filter!Grid : filtered'[g] # NoPoint => \A v \in Vars : Low(t, g, v)' /\ High(t, g, v)'
  BY DEF SumsFit, Low, High, Sums
<1> QED
  BY <1>1 DEF SumsFit, Sums

(* Elsewhere in the run the filter does not change.                        *)
LEMMA SumsStay ==
  ASSUME NEW t \in Threads, SumsFit(t), UNCHANGED filter
  PROVE  SumsFit(t)'
<1>1. UNCHANGED <<stage, spc, at, k, svar, original, filtered, fmin, fmax>>
  BY DEF filter
<1>2. /\ Here(t)' = Here(t)
      /\ \A v : Filter!Convolution(at[t], k[t], v)' = Filter!Convolution(at[t], k[t], v)
  BY <1>1, SamePlace
<1>3. Filter!Sum(t)' = Filter!Sum(t)
  BY <1>1, <1>2 DEF Filter!Sum
<1>4. (filtered[Here(t)].values)' = filtered[Here(t)].values
  BY <1>1, <1>2
<1> QED
  BY <1>1, <1>2, <1>3, <1>4 DEF SumsFit, Low, High

(* Where the smoothing starts and where a stage ends.                      *)
LEMMA StepStageSums ==
  ASSUME OnLines, NEW t \in Threads, SumsFit(t), StartSmoothing \/ Filter!EndStage(field.team)
  PROVE  SumsFit(t)'
<1>1. UNCHANGED <<svar, fmin, fmax>>
  BY DEF StartSmoothing, Filter!Apply, Filter!EndStage, Filter!sranges
<1>2. spc[t] = "over"
  <2>1. CASE StartSmoothing
    <3>1. stage \notin Filter!Stages
      BY <2>1 DEF StartSmoothing, Filter!Apply, Filter!Stages
    <3> QED
      BY <3>1 DEF OnLines
  <2>2. CASE Filter!EndStage(field.team)
    BY <2>2 DEF Filter!EndStage, Filter!TeamIsDone
  <2> QED
    BY <2>1, <2>2
<1>3. spc'[t] \in {"fetch", "over"}
  BY <1>2 DEF StartSmoothing, Filter!Apply, Filter!EndStage, Filter!Restart
<1>4. \A g \in Filter!Grid : filtered'[g] # NoPoint => filtered'[g] = filtered[g]
  BY DEF StartSmoothing, Filter!Apply, Filter!EndStage, Filter!EmptyIndex
<1> QED
  BY <1>1, <1>2, <1>3, <1>4, AtRest DEF Sums

(* What is copied to the list fits when the last stage is over.            *)
LEMMA CopiedIsScaled ==
  ASSUME OnLines, NEW t \in Threads, SumsFit(t), ReplacePoints
  PROVE  Scaled'
<1> DEFINE S == {i \in 1 .. Size : filtered[GridPoint(i - 1)] # NoPoint}
           cells == [i \in 1 .. Size |-> i - 1]
           Copy(c) == [cell |-> c, values |-> filtered[GridPoint(c)].values,
                       original |-> filtered[GridPoint(c)].original]
<1>1. fmin' = fmin /\ fmax' = fmax
  BY DEF ReplacePoints, filter
<1>2. PICK kept : kept = Picked(cells, S)
  OBVIOUS
<1>3. list' = [i \in DOMAIN kept |-> Copy(kept[i])]
  BY <1>2 DEF ReplacePoints
<1>4. spc[t] = "over"
  <2>1. PICK N \in Nat : N = Len(Dims)
    BY DetectionAssumption
  <2>2. stage = N + 1 /\ Filter!Stages = 1 .. N
    BY <2>1 DEF ReplacePoints, Filter!Filtered, Filter!Stages
  <2>3. stage \notin Filter!Stages
    BY <2>2
  <2> QED
    BY <2>3 DEF OnLines
<1>5. ASSUME NEW g \in Filter!Grid, filtered[g] # NoPoint, NEW v \in Vars
      PROVE  filtered[g].values[v] # NaN =>
               fmin[v] <= filtered[g].values[v] /\ filtered[g].values[v] <= fmax[v]
  BY <1>4, <1>5 DEF SumsFit, Low, High, Sums
<1>6. Size \in Nat /\ cells \in Seq(Cells) /\ DOMAIN cells = 1 .. Size
  <2>1. Size \in Nat
    BY BuildAssumption
  <2>2. cells \in [1 .. Size -> Cells]
    BY <2>1 DEF Cells
  <2> QED
    BY <2>1, <2>2
<1>7. \A j \in 1 .. Size : cells[j] = j - 1
  OBVIOUS
<1>8. \A i \in DOMAIN kept : \E j \in DOMAIN cells \cap S : kept[i] = cells[j]
  <2> HIDE DEF cells, S
  <2> QED
    BY <1>2, <1>6, PickedElements
<1>9. ASSUME NEW i \in DOMAIN kept
      PROVE  GridPoint(kept[i]) \in Filter!Grid /\ filtered[GridPoint(kept[i])] # NoPoint
  <2>1. PICK j \in DOMAIN cells \cap S : kept[i] = cells[j]
    BY <1>8
  <2>2. kept[i] = j - 1 /\ j \in S /\ j \in 1 .. Size
    BY <1>6, <1>7, <2>1
  <2>3. kept[i] \in Cells
    BY <1>6, <2>2 DEF Cells
  <2> QED
    BY <2>2, <2>3, CellsOnGrid
<1> HIDE DEF cells, S
<1>10. ASSUME NEW i \in DOMAIN kept, NEW v \in Vars
       PROVE  list'[i].values[v] # NaN =>
                fmin'[v] <= list'[i].values[v] /\ list'[i].values[v] <= fmax'[v]
  <2>1. list'[i].values = filtered[GridPoint(kept[i])].values
    BY <1>3
  <2> QED
    BY <1>1, <1>5, <1>9, <2>1
<1> HIDE DEF Copy
<1>11. DOMAIN list' = DOMAIN kept
  BY <1>3
<1> QED
  BY <1>10, <1>11 DEF Scaled

(* Each step of the run.                                                   *)
LEMMA StepScaled ==
  ASSUME IInv, Measured, OnLines, Numeric, ScaledAlone, [RunNext]_runvars
  PROVE  ScaledAlone'
<1>0. field' = field
  BY FieldStays DEF IInv, Types
<1> SUFFICES ASSUME NEW t \in Threads, field.team = {t}, Scale
             PROVE  /\ phase' \in {"build", "replace", "scale", "smooth"} => SumsFit(t)'
                    /\ Scaled'
  BY <1>0 DEF ScaledAlone, Scale
<1>a. /\ phase \in {"build", "replace", "scale", "smooth"} => SumsFit(t)
      /\ Scaled
  BY DEF ScaledAlone
<1>1. CASE Build \/ BuildEnds \/ ReplaceValues \/ FilterConvection
  <2>1. /\ phase \in {"build", "replace"} /\ phase' \in {"build", "replace", "scale", "failed"}
        /\ UNCHANGED filter
    BY <1>1 DEF Build, BuildEnds, ReplaceValues, FilterConvection
  <2> QED
    BY <1>a, <2>1, SumsStay DEF Scaled
<1>2. CASE StartSmoothing
  <2>1. phase = "scale" /\ phase' = "smooth"
    BY <1>2 DEF StartSmoothing
  <2> QED
    BY <1>2, <1>a, <2>1, StepStageSums DEF Scaled
<1>3. CASE Smooth
  <2>1. phase = "smooth" /\ phase' = "smooth"
    BY <1>3 DEF Smooth
  <2>2. SumsFit(t)'
    BY <1>3, <1>a, <2>1, StepStageSums, StepSumsWritten, StepSumsCompared DEF Smooth
  <2> QED
    BY <2>1, <2>2 DEF Scaled
<1>4. CASE NoSmoothing
  BY <1>4 DEF NoSmoothing
<1>5. CASE ReplacePoints
  <2>1. phase = "smooth" /\ phase' = "weights"
    BY <1>5 DEF ReplacePoints
  <2> QED
    BY <1>5, <1>a, <2>1, CopiedIsScaled
<1>6. CASE FilterByWeight
  <2>1. phase = "weights" /\ phase' = "cluster" /\ fmin' = fmin /\ fmax' = fmax
    BY <1>6 DEF FilterByWeight, filter
  <2>2. list' = list \/ \E S : list' = Picked(list, S)
    BY <1>6 DEF FilterByWeight
  <2>3. \A i \in DOMAIN list' : \E j \in DOMAIN list : list'[i] = list[j]
    BY <2>2, PickedIsList DEF Measured
  <2> QED
    BY <1>a, <2>1, <2>3 DEF Scaled
<1>7. CASE Cluster
  <2>1. phase' \in {"done", "failed"}
    BY <1>7 DEF Cluster
  <2> QED
    BY <2>1 DEF Scaled
<1>8. CASE UNCHANGED runvars
  <2>1. UNCHANGED <<phase, list, filter, fmin, fmax>>
    BY <1>8 DEF runvars, after, filter
  <2> QED
    BY <1>0, <1>a, <2>1, SumsStay DEF Scaled, Scale
<1> QED
  BY <1>1, <1>2, <1>3, <1>4, <1>5, <1>6, <1>7, <1>8 DEF RunNext

(* With one thread, no value lies outside of the ranges it is scaled with, *)
(* after the feature space is built and after it is smoothed.              *)
THEOREM AloneIsScaledHolds == RunSpec => []AloneIsScaled
<1>1. RunSpec => []Fits
  BY FitsHold, RunIsBuild, PTL
<1>2. RunSpec => []Numeric
  BY RunHolds, InitNumeric, StepNumeric, PTL DEF RunSpec
<1>3. RunSpec => []ScaledAlone
  BY <1>2, RunHolds, InitScaled, StepScaled, PTL DEF RunSpec
<1>4. ASSUME IInv, Fits, ScaledAlone PROVE AloneIsScaled
  <2> SUFFICES ASSUME Cardinality(field.team) = 1 PROVE AloneContainsAll /\ Scaled
    BY DEF AloneIsScaled
  <2>1. PICK t \in Threads : field.team = {t}
    BY <1>4, OneThread DEF IInv, Types
  <2>2. AloneContainsAll
    BY <1>4, <2>1, FitsContain
  <2>3. Scaled
    BY <1>4, <2>1 DEF ScaledAlone, Scaled
  <2> QED
    BY <2>2, <2>3
<1> QED
  BY <1>1, <1>3, <1>4, RunHolds, PTL
=============================================================================
