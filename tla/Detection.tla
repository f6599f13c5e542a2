----------------------------- MODULE Detection -----------------------------
(***************************************************************************)
(* Detection::run up to the clusters: the feature space is built, goes     *)
(* through the filters (replacement, convection, scale space and weight    *)
(* function), and the clusters made of it (Aggregation's subject, any set  *)
(* of measured points here) are told whether they lie at the margin of the *)
(* data.                                                                   *)
(***************************************************************************)
EXTENDS FeatureSpace, LinearIndexMapping

CONSTANTS
  Dims, Kernels, NoPoint, NaN,   \* as in ScaleSpaceFilter
  Unit           \* values are multiples of one Unit-th

VARIABLES
  phase,
  turn,          \* the replacement filter that is next
  stage, spc, line, at, k, svar, original, filtered, fmin, fmax,  \* the filter
  list,          \* fs->points once the feature space is built
  cluster,       \* the cells of one of the clusters
  margin         \* its m_has_margin_points

Filter == INSTANCE ScaleSpaceFilter

filter == <<stage, spc, line, at, k, svar, original, filtered, fmin, fmax>>
after == <<list, cluster, margin>>
runvars == <<vars, phase, turn, filter, after>>

(* The options of the run that are not the feature space's.                *)
Scale == field.scale           \* params.scale is given
Thinned == field.wwf           \* ctx.wwf_apply
Zeroed == field.zeroed         \* the variable of the convection filter, or 0

(* The replacement filters as they are given: their variables in turn, and *)
(* for each variable the mode and the percentage (-100 if there is none)   *)
(* that were given last.  A percentage has to be given for the lowest and  *)
(* the highest values.  The bandwidth decides which cells the range search *)
(* around a cell reaches.                                                  *)
IsFiltered(f) ==
  /\ f.scale \in BOOLEAN /\ f.wwf \in BOOLEAN /\ f.zeroed \in 0 .. Rank
  /\ f.filters \in Seq(Vars)
  /\ f.mode \in [Vars -> {"lowest", "highest", "median"}]
  /\ f.percent \in [Vars -> Nat \cup {-100}]
  /\ \A v \in Vars : f.percent[v] = -100 => f.mode[v] = "median"
  /\ f.reach \in [Cells -> SUBSET Cells]

ASSUME DetectionAssumption ==
  /\ Dims \in Seq(Nat \ {0}) /\ Len(Dims) > 1 /\ Size = MappingSize(Dims)
  /\ \A d \in DOMAIN Dims : Kernels[d] \in Seq(Int) /\ Len(Kernels[d]) > 0
  /\ NaN \notin Int /\ Unit \in Nat \ {0}
  /\ \A f \in Fields : IsFiltered(f)

GridPoint(c) == LinearToGrid(Dims, c)

Neighbours(c) ==
  {d \in Cells : \A i \in DOMAIN Dims : GridPoint(d)[i] - GridPoint(c)[i] \in -1 .. 1}

RunInit ==
  /\ Init /\ Filter!SmoothInit
  /\ phase = "build" /\ turn = 1
  /\ list = <<>> /\ cluster = {} /\ margin = FALSE

Build ==
  /\ phase = "build" /\ Next
  /\ UNCHANGED <<phase, turn, filter, after>>

BuildEnds ==
  /\ phase = "build" /\ Built
  /\ list' = points /\ phase' = "replace"
  /\ UNCHANGED <<vars, turn, filter, cluster, margin>>

(* The points by their grid points: ArrayIndex::index.                     *)
IndexOf(pts) ==
  [g \in Filter!Grid |->
     IF \E i \in DOMAIN pts : GridPoint(pts[i].cell) = g
     THEN LET i == CHOOSE i \in DOMAIN pts : GridPoint(pts[i].cell) = g
          IN  [values |-> pts[i].values, original |-> pts[i].original]
     ELSE NoPoint]

(* The division of C, round() of a percentage, and double to int.          *)
Quotient(x, y) == IF x >= 0 THEN x \div y ELSE -((-x) \div y)
Rounded(x) == IF x >= 0 THEN (2 * x + 100) \div 200 ELSE -((100 - 2 * x) \div 200)
Truncated(x) == Quotient(x, Unit)

(* What may be read of variable v in the points at the places in S.        *)
Readings(S, v) ==
  {r \in [S -> UNION {At(list[i], v) : i \in S}] : \A i \in S : r[i] \in At(list[i], v)}

(* The sets of n places that may be in front when the values are sorted:   *)
(* ascending, or descending by the comparison of std::greater<int>, which  *)
(* cuts off what is behind the point.  With NaN there is no order.         *)
InFront(value, mode, n) ==
  LET Key(i) == IF mode = "highest" THEN -Truncated(value[i]) ELSE value[i] IN
  {s \in SUBSET DOMAIN value :
     /\ Cardinality(s) = n
     /\ \/ \E i \in DOMAIN value : value[i] = NaN
        \/ \A i \in s, j \in DOMAIN value \ s : Key(i) <= Key(j)}

(* The value behind n others: the one at that index, or what is read where *)
(* there is none.                                                          *)
Nth(value, mode, n) ==
  IF n \notin 0 .. Cardinality(DOMAIN value) - 1 THEN Garbage
  ELSE {value[i] : i \in {i \in DOMAIN value :
                            \E s \in InFront(value, mode, n) :
                              i \notin s /\ s \cup {i} \in InFront(value, mode, n + 1)}}

(* The average of the first n values, rounded to units: NaN of none, and   *)
(* with whatever is behind the end for more than there are.                *)
Averages(value, mode, n) ==
  LET Average(s) == LET sum == Filter!Total([i \in s |-> value[i]]) IN
                    IF sum = NaN THEN NaN ELSE sum \div n
  IN  IF n = 0 THEN {NaN}
      ELSE IF n > Cardinality(DOMAIN value) THEN Garbage
      ELSE {Average(s) : s \in InFront(value, mode, n)}

(* ReplacementFilter: what is made of the values around a point.           *)
Replacements(p, v) ==
  LET around == {i \in DOMAIN list : list[i].cell \in field.reach[p.cell]}
      mode == field.mode[v]
      num == Rounded(Cardinality(around) * field.percent[v])
  IN  IF around = {} THEN At(p, v)
      ELSE UNION {IF mode = "median" THEN Nth(value, mode, Quotient(num, 2))
                  ELSE Averages(value, mode, num) : value \in Readings(around, v)}

(* What is written behind the end of a vector is not in it.                *)
Put(p, v, x) == IF v <= Len(p.values) THEN [p EXCEPT !.values[v] = x] ELSE p

(* All results are stored when all have been computed.  Behind the end of  *)
(* a vector that goes unnoticed, or destroys what is there.                *)
ReplaceValues ==
  /\ phase = "replace" /\ turn <= Len(field.filters)
  /\ LET v == field.filters[turn] IN
     /\ \E results \in [DOMAIN list -> UNION {Replacements(list[i], v) : i \in DOMAIN list}] :
          /\ \A i \in DOMAIN list : results[i] \in Replacements(list[i], v)
          /\ list' = [i \in DOMAIN list |-> Put(list[i], v, results[i])]
     /\ \/ phase' = phase
        \/ phase' = "failed" /\ \E i \in DOMAIN list : v > Len(list[i].values)
  /\ turn' = turn + 1
  /\ UNCHANGED <<vars, filter, cluster, margin>>

(* ConvectionFilter: it is never told to erase points, and then sets those *)
(* inside of the convective radius to zero like all the others; it looks   *)
(* with at(), which throws behind the end of a vector.                     *)
FilterConvection ==
  /\ phase = "replace" /\ turn > Len(field.filters)
  /\ IF Zeroed # 0 /\ \E i \in DOMAIN list : Zeroed > Len(list[i].values)
     THEN phase' = "failed" /\ UNCHANGED list
     ELSE /\ list' = IF Zeroed = 0 THEN list
                     ELSE [i \in DOMAIN list |-> Put(list[i], Zeroed, 0)]
          /\ phase' = "scale"
  /\ UNCHANGED <<vars, turn, filter, cluster, margin>>

(* What the smoothing may read of points whose vectors are too short, taken*)
(* to stay the same while it does.                                         *)
Readable(p) ==
  {s \in [Vars -> UNION {At(p, v) : v \in Vars}] : \A v \in Vars : s[v] \in At(p, v)}

(* The list holds what is read of its points until they are replaced.      *)
StartSmoothing ==
  /\ phase = "scale" /\ Scale
  /\ \E read \in [DOMAIN list -> UNION {Readable(list[i]) : i \in DOMAIN list}] :
       /\ \A i \in DOMAIN list : read[i] \in Readable(list[i])
       /\ list' = [i \in DOMAIN list |-> [list[i] EXCEPT !.values = read[i]]]
       /\ Filter!Apply(field.team, IndexOf(list'))
  /\ phase' = "smooth"
  /\ UNCHANGED <<vars, turn, cluster, margin>>

NoSmoothing ==
  /\ phase = "scale" /\ ~Scale
  /\ phase' = "weights"
  /\ UNCHANGED <<vars, turn, filter, after>>

Smooth ==
  /\ phase = "smooth"
  /\ (\E t \in field.team : Filter!Work(t)) \/ Filter!EndStage(field.team)
  /\ UNCHANGED <<vars, phase, turn, after>>

(* replace_points: what the filtered index holds, in the order of the grid.*)
ReplacePoints ==
  LET kept == Picked([i \in 1 .. Size |-> i - 1],
                     {i \in 1 .. Size : filtered[GridPoint(i - 1)] # NoPoint})
      Copy(c) == [cell |-> c, values |-> filtered[GridPoint(c)].values,
                  original |-> filtered[GridPoint(c)].original]
  IN  /\ phase = "smooth" /\ Filter!Filtered
      /\ list' = [i \in DOMAIN kept |-> Copy(kept[i])]
      /\ phase' = "weights"
      /\ UNCHANGED <<vars, turn, filter, cluster, margin>>

(* Which weights lie between the thresholds is left open.                  *)
FilterByWeight ==
  /\ phase = "weights"
  /\ IF Thinned
     THEN \E accepted \in SUBSET {list[i].cell : i \in DOMAIN list} :
            list' = Picked(list, {i \in DOMAIN list : list[i].cell \in accepted})
     ELSE UNCHANGED list
  /\ phase' = "cluster"
  /\ UNCHANGED <<vars, turn, filter, cluster, margin>>

InList == {list[i].cell : i \in DOMAIN list}
Originals == {list[i].cell : i \in {i \in DOMAIN list : list[i].original}}

(* obtain_margin_flag: the neighbours are looked up in an index of the     *)
(* points of the feature space.                                            *)
HasMargin(cells) == \E c \in cells : Neighbours(c) \cap InList \cap off_limits # {}

(* replace_points_from_datastore: clusters are described by measured values*)
(* again, not by the smoothed ones they were found with, or by what stood  *)
(* in for a missing value.                                                 *)
Restored(p) == [p EXCEPT !.values = [v \in DOMAIN p.values |-> field.data[p.cell][v]]]

Cluster ==
  /\ phase = "cluster"
  /\ \E cells \in SUBSET Originals :
       /\ cluster' = cells /\ margin' = HasMargin(cells)
       /\ list' = [i \in DOMAIN list |->
                     IF list[i].cell \in cells THEN Restored(list[i]) ELSE list[i]]
       /\ \/ phase' = "done"
          \/ phase' = "failed" /\ \E i \in DOMAIN list :
               list[i].cell \in cells /\ DOMAIN list[i].values # Vars
  /\ UNCHANGED <<vars, turn, filter>>

RunNext ==
  \/ Build \/ BuildEnds \/ ReplaceValues \/ FilterConvection \/ StartSmoothing \/ NoSmoothing
  \/ Smooth \/ ReplacePoints \/ FilterByWeight \/ Cluster

RunSpec == RunInit /\ [][RunNext]_runvars
-----------------------------------------------------------------------------
(* The convolution of an index along dimension d: at every grid point with *)
(* a point in its window, the code's.                                      *)
Convolved(index, d) ==
  LET On(g, j) == [g EXCEPT ![d] = j]
      Near(g) == {j \in Filter!Window(d, g[d]) : index[On(g, j)] # NoPoint}
  IN  [g \in Filter!Grid |->
         IF Near(g) = {} THEN NoPoint
         ELSE [values |-> [v \in Vars |-> Filter!Total([j \in Near(g) |->
                 Filter!Times(Filter!Weight(d, g[d], j), index[On(g, j)].values[v])])],
               original |-> index[g] # NoPoint /\ index[g].original]]

(* The smoothing is the convolution along one dimension after the other,   *)
(* whatever the order in which threads take and finish the lines: what a   *)
(* thread reads in a stage is not what another one writes.  So it is at    *)
(* every point there is after a stage, and no point of the list is missing *)
(* that has something in its windows.  (That the filter "does NOT create   *)
(* new points" is not so, and neither asked for nor contradicted here.)    *)
SmoothedInStages ==
  phase = "smooth" /\ stage > 1 =>
    LET after1[d \in 0 .. Len(Dims)] ==
          IF d = 0 THEN IndexOf(list) ELSE Convolved(after1[d - 1], d)
        result == IF Filter!Filtered THEN filtered ELSE original
        expected == after1[stage - 1]
    IN  /\ \A g \in Filter!Grid : result[g] # NoPoint => result[g] = expected[g]
        /\ \A i \in DOMAIN list : LET g == GridPoint(list[i].cell) IN
             expected[g] # NoPoint => result[g] # NoPoint

(* With one thread, no value a weight is computed from lies outside of the *)
(* ranges it is scaled with: "value scaled to [0..1]".  (NaN, which the    *)
(* replacement filter makes of no values, is in no range.)                 *)
Scaled ==
  phase \in {"weights", "cluster"} /\ Scale =>
    \A i \in DOMAIN list, v \in Vars : list[i].values[v] # NaN =>
      fmin[v] <= list[i].values[v] /\ list[i].values[v] <= fmax[v]

AloneIsScaled == Cardinality(field.team) = 1 => AloneContainsAll /\ Scaled

(* Points that count as original were not to be ignored where they are:    *)
(* smoothing fills in points, but none of them ends up in a cluster.  What *)
(* a cluster says of its points is what the data has there, for all that   *)
(* the filters have made of it, a missing value included where another one *)
(* was to replace it; the other variables have values within the           *)
(* thresholds, or out of the valid range.                                  *)
ClustersAreMeasured ==
  /\ \A c \in Originals : ~Discarded(c)
  /\ phase = "done" =>
       \A i \in DOMAIN list : list[i].cell \in cluster =>
         \A v \in DOMAIN list[i].values :
           LET x == list[i].values[v] IN
           /\ x = field.data[list[i].cell][v]
           /\ v \in field.replaced \/ x = Beyond \/ (field.lower[v] <= x /\ x <= field.upper[v])

(* "If a point borders the area marked as off limits in the feature space, *)
(* the cluster's margin flag is set."                                      *)
MarginIsFlagged ==
  phase = "done" /\ cluster # {} =>
    (margin <=> \E c \in cluster : Neighbours(c) \cap off_limits # {})
=============================================================================
