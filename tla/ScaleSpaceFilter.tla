-------------------------- MODULE ScaleSpaceFilter --------------------------
(***************************************************************************)
(* ScaleSpaceFilter::apply_parallellized: a convolution in one dimension   *)
(* after the other.  In each stage a team of threads takes the lines along *)
(* that dimension, reads the original index, and writes the filtered one,  *)
(* which is the original of the next stage.  As in FeatureSpace, what is   *)
(* compared with the ranges is set in a critical section of its own.       *)
(***************************************************************************)
EXTENDS LinearIndexMapping, FiniteSetsExt, SequencesExt

CONSTANTS
  Threads, Rank, Largest, Tiny,   \* as in FeatureSpace
  Dims,          \* the sizes of the dimensions
  Kernels,       \* for each dimension the weights by distance, in grid steps
  NoPoint,       \* the NULL of an array index
  NaN            \* what 0/0 is

VARIABLES
  stage,         \* the dimension convolved along, 0 before, Len(Dims)+1 after
  spc,           \* where each thread is
  line,          \* the first line that is not handed out
  at,            \* the line of a thread
  k,             \* its place in the line
  svar,          \* the variable whose range it looks at
  original, filtered,   \* the two array indexes
  fmin, fmax     \* m_min, m_max of the filter

sranges == <<fmin, fmax>>
svars == <<stage, spc, line, at, k, svar, original, filtered, sranges>>

Stages == 1 .. Len(Dims)
SVars == 1 .. Rank
Grid == {g \in [Stages -> 0 .. Max({Dims[i] : i \in Stages})] :
           \A i \in Stages : g[i] < Dims[i]}
EmptyIndex == [g \in Grid |-> NoPoint]

SmoothInit ==
  /\ stage = 0
  /\ spc = [t \in Threads |-> "over"]
  /\ line = 0
  /\ at = [t \in Threads |-> 0] /\ k = [t \in Threads |-> 0]
  /\ svar = [t \in Threads |-> 1]
  /\ original = EmptyIndex /\ filtered = EmptyIndex
  /\ fmin = [v \in SVars |-> Largest] /\ fmax = [v \in SVars |-> Tiny]

SGoto(t, place) == spc' = [spc EXCEPT ![t] = place]
Restart(team) == spc' = [t \in Threads |-> IF t \in team THEN "fetch" ELSE "over"]

(* Copies of the points are indexed; the ranges were set in SmoothInit.    *)
Apply(team, index) ==
  /\ stage = 0
  /\ stage' = 1 /\ line' = 0 /\ original' = index /\ Restart(team)
  /\ UNCHANGED <<at, k, svar, filtered, sranges>>

(* The dimensions a line is a point of, and the grid point on it.          *)
OtherDims == RemoveAt(Dims, stage)

GridPointOf(n, i) ==
  LET start == LinearToGrid(OtherDims, n) IN
  [d \in Stages |-> IF d < stage THEN start[d] ELSE IF d = stage THEN i ELSE start[d - 1]]

FetchLine(t) ==
  /\ spc[t] = "fetch"
  /\ IF line < MappingSize(OtherDims)
     THEN /\ at' = [at EXCEPT ![t] = line] /\ line' = line + 1
          /\ k' = [k EXCEPT ![t] = 0]
          /\ SGoto(t, "convolve")
     ELSE /\ at' = [at EXCEPT ![t] = 0] /\ k' = [k EXCEPT ![t] = 0]
          /\ SGoto(t, "over") /\ UNCHANGED line
  /\ UNCHANGED <<stage, svar, original, filtered, sranges>>

(* minIndex up to, and without, maxIndex, which the last place is: it is   *)
(* never read.                                                             *)
Window(d, i) ==
  LET width == Len(Kernels[d]) - 1
      end == Dims[d] - 1
  IN  (IF i >= width THEN i - width ELSE 0) ..
        (IF i + width < end THEN i + width ELSE end) - 1

Sampled(n, i) == {j \in Window(stage, i) : original[GridPointOf(n, j)] # NoPoint}

Weight(d, i, j) == Kernels[d][(IF j <= i THEN i - j ELSE j - i) + 1]

(* Whatever is calculated with NaN is NaN.                                 *)
Times(weight, value) == IF value = NaN THEN NaN ELSE weight * value
Total(f) == IF \E x \in DOMAIN f : f[x] = NaN THEN NaN ELSE SumFunction(f)

Convolution(n, i, v) ==
  Total([j \in Sampled(n, i) |->
           Times(Weight(stage, i, j), original[GridPointOf(n, j)].values[v])])

NextPlace(t) ==
  /\ k' = [k EXCEPT ![t] = @ + 1]
  /\ SGoto(t, IF k[t] + 1 < Dims[stage] THEN "convolve" ELSE "fetch")

IsOriginalAlways(g) == original[g] # NoPoint

(* A point keeps its isOriginalPoint if the filtered index has one.        *)
IsOriginal(g) ==
  LET p == IF filtered[g] = NoPoint THEN original[g] ELSE filtered[g]
  IN  p # NoPoint /\ p.original

Convolve(t) ==
  LET g == GridPointOf(at[t], k[t]) IN
  /\ spc[t] = "convolve"
  /\ IF Sampled(at[t], k[t]) = {}
     THEN NextPlace(t) /\ UNCHANGED filtered
     ELSE /\ filtered' = [filtered EXCEPT ![g] =
               [values |-> [v \in SVars |-> Convolution(at[t], k[t], v)],
                original |-> IsOriginal(g)]]
          /\ SGoto(t, "compare_least")
          /\ UNCHANGED k
  /\ UNCHANGED <<stage, line, at, svar, original, sranges>>

(* A comparison with NaN is false.                                         *)
Sum(t) == Convolution(at[t], k[t], svar[t])
IsLess(x, y) == x # NaN /\ x < y
IsGreater(x, y) == x # NaN /\ x > y

CompareLeastSum(t) ==
  /\ spc[t] = "compare_least"
  /\ SGoto(t, IF IsLess(Sum(t), fmin[svar[t]]) THEN "set_least" ELSE "compare_greatest")
  /\ UNCHANGED <<stage, line, at, k, svar, original, filtered, sranges>>

SetLeastSum(t) ==
  /\ spc[t] = "set_least"
  /\ fmin' = [fmin EXCEPT ![svar[t]] = Sum(t)]
  /\ SGoto(t, "compare_greatest")
  /\ UNCHANGED <<stage, line, at, k, svar, original, filtered, fmax>>

NextSum(t) ==
  IF svar[t] < Rank
  THEN /\ svar' = [svar EXCEPT ![t] = @ + 1]
       /\ SGoto(t, "compare_least")
       /\ UNCHANGED k
  ELSE NextPlace(t) /\ svar' = [svar EXCEPT ![t] = 1]

CompareGreatestSum(t) ==
  /\ spc[t] = "compare_greatest"
  /\ IF IsGreater(Sum(t), fmax[svar[t]]) THEN SGoto(t, "set_greatest") /\ UNCHANGED <<k, svar>>
     ELSE NextSum(t)
  /\ UNCHANGED <<stage, line, at, original, filtered, sranges>>

SetGreatestSum(t) ==
  /\ spc[t] = "set_greatest"
  /\ fmax' = [fmax EXCEPT ![svar[t]] = Sum(t)]
  /\ NextSum(t)
  /\ UNCHANGED <<stage, line, at, original, filtered, fmin>>

Work(t) ==
  \/ FetchLine(t) \/ Convolve(t) \/ CompareLeastSum(t) \/ SetLeastSum(t)
  \/ CompareGreatestSum(t) \/ SetGreatestSum(t)

TeamIsDone == \A t \in Threads : spc[t] = "over"

EndStageInPlace(team) ==
  /\ stage \in Stages /\ TeamIsDone
  /\ stage' = stage + 1 /\ line' = 0
  /\ IF stage < Len(Dims)
     THEN filtered' = EmptyIndex /\ Restart(team)
     ELSE UNCHANGED <<spc, filtered>>
  /\ UNCHANGED <<at, k, svar, original, sranges>>

(* The threads join; the filtered index becomes the original.              *)
EndStage(team) ==
  /\ stage \in Stages /\ TeamIsDone
  /\ stage' = stage + 1 /\ line' = 0
  /\ IF stage < Len(Dims)
     THEN original' = filtered /\ filtered' = EmptyIndex /\ Restart(team)
     ELSE UNCHANGED <<spc, original, filtered>>
  /\ UNCHANGED <<at, k, svar, sranges>>

Filtered == stage = Len(Dims) + 1
=============================================================================
