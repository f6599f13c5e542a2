---------------------------- MODULE FeatureSpace ----------------------------
(***************************************************************************)
(* FeatureSpace::build, the loop in which a team of threads makes a point  *)
(* of each grid point that has all its values, and keeps the least and the *)
(* greatest value of each variable.  All critical sections are unnamed and *)
(* share one lock; the comparisons with the ranges stand outside of them.  *)
(* A cell is the linear index of a grid point.                             *)
(***************************************************************************)
EXTENDS Integers, Sequences, FiniteSets

CONSTANTS
  Threads,       \* of which a field's team is taken
  Size, Rank,    \* the number of cells, and of variables
  Chunk,         \* cells a thread takes at a time, schedule(dynamic, Chunk)
  Missing,       \* a value equal to the fill value of its variable
  Beyond,        \* one outside of the valid range, known without fill value
  Garbage,       \* what may be read behind the end of a vector
  Fields,        \* inputs, see FieldType
  Largest, Tiny, \* numeric_limits::max() and the positive numeric_limits::min()
  NoOne          \* holds the lock when nobody does

Cells == 0 .. Size - 1
Vars == 1 .. Rank

IsField(f) ==
  /\ f.data \in [Cells -> [Vars -> Int \cup {Missing, Beyond}]]
  /\ f.lower \in [Vars -> Int] /\ f.upper \in [Vars -> Int]   \* thresholds
  /\ f.replaced \subseteq Vars      \* variables with a replacement value
  /\ f.team \subseteq Threads /\ f.team # {}

ASSUME BuildAssumption ==
  /\ Size \in Nat /\ Rank \in Nat \ {0} /\ Chunk \in Nat \ {0}
  /\ Garbage \subseteq Int /\ Garbage # {}
  /\ Largest \in Int /\ Tiny \in Int
  /\ Missing \notin Int /\ Beyond \notin Int
  /\ IsFiniteSet(Threads) /\ NoOne \notin Threads
  /\ \A f \in Fields : IsField(f)

VARIABLES
  field,        \* the input
  pc,           \* where each thread is in the body of the loop
  chunk,        \* the first cell that is not handed out
  cell, last,   \* what a thread works on, and the end of its chunk
  var,          \* the variable whose range a thread looks at
                \* (1, like cell 0, where it is not in scope)
  fill,         \* the size of the list as a thread in push_back has read it
  lock,
  off_limits,   \* cells marked in m_off_limits
  points,
  min, max      \* m_min, m_max

local == <<pc, chunk, cell, last, var, fill, lock>>
ranges == <<min, max>>
vars == <<field, local, off_limits, points, ranges>>

(* The elements of s at the places in S, in their order.                   *)
Picked(s, S) ==
  LET upto[n \in 0 .. Len(s)] ==
        IF n = 0 THEN <<>>
        ELSE IF n \in S THEN Append(upto[n - 1], s[n]) ELSE upto[n - 1]
  IN  upto[Len(s)]

(* A variable without a value, or with one outside of the thresholds, ends *)
(* the loop over the variables unless it has a replacement.                *)
Stops(c, v) ==
  LET x == field.data[c][v] IN
  /\ v \notin field.replaced
  /\ \/ x = Missing
     \/ x \notin {Missing, Beyond} /\ (x < field.lower[v] \/ x > field.upper[v])

Discarded(c) == \E v \in Vars : Stops(c, v)

Visited(c) == {v \in Vars : \A u \in 1 .. v - 1 : ~Stops(c, u)}

(* The replacement itself is assigned to a local variable, after the value *)
(* was stored if there was one, and nothing is stored if there was none.   *)
Stored(data) == Picked(data, {v \in Vars : data[v] \notin {Missing, Beyond}})
Values(c) == Stored(field.data[c])

At(p, v) == IF v <= Len(p.values) THEN {p.values[v]} ELSE Garbage

MyPoint(t) == [cell |-> cell[t], values |-> Values(cell[t]), original |-> TRUE]

Init ==
  /\ field \in Fields
  /\ pc = [t \in Threads |-> IF t \in field.team THEN "fetch" ELSE "over"]
  /\ chunk = 0
  /\ cell = [t \in Threads |-> 0] /\ last = [t \in Threads |-> 0]
  /\ var = [t \in Threads |-> 1] /\ fill = [t \in Threads |-> 0]
  /\ lock = NoOne
  /\ off_limits = {} /\ points = <<>>
  /\ min = [v \in Vars |-> Largest] /\ max = [v \in Vars |-> Tiny]

Goto(t, place) == pc' = [pc EXCEPT ![t] = place]

Fetch(t) ==
  /\ pc[t] = "fetch"
  /\ IF chunk < Size
     THEN /\ cell' = [cell EXCEPT ![t] = chunk]
          /\ chunk' = IF chunk + Chunk < Size THEN chunk + Chunk ELSE Size
          /\ last' = [last EXCEPT ![t] = chunk']
          /\ Goto(t, "read")
     ELSE /\ cell' = [cell EXCEPT ![t] = 0] /\ last' = [last EXCEPT ![t] = 0]
          /\ Goto(t, "over") /\ UNCHANGED chunk
  /\ UNCHANGED <<field, var, fill, lock, off_limits, points, ranges>>

(* The next iteration of the loop.                                         *)
Advance(t) ==
  /\ cell' = [cell EXCEPT ![t] = @ + 1]
  /\ Goto(t, IF cell[t] + 1 < last[t] THEN "read" ELSE "fetch")

(* The loop over the variables; only the marking of the cell is shared.    *)
Read(t) ==
  LET unknown == \E v \in Visited(cell[t]) : field.data[cell[t]][v] = Missing IN
  /\ pc[t] = "read" /\ (unknown => lock = NoOne)
  /\ off_limits' = IF unknown THEN off_limits \cup {cell[t]} ELSE off_limits
  /\ IF Discarded(cell[t]) THEN Advance(t) ELSE Goto(t, "create") /\ UNCHANGED cell
  /\ UNCHANGED <<field, chunk, last, var, fill, lock, points, ranges>>

EnterFreely(t) ==
  /\ pc[t] = "create"
  /\ lock' = t
  /\ fill' = [fill EXCEPT ![t] = Len(points)]
  /\ Goto(t, "push")
  /\ UNCHANGED <<field, chunk, cell, last, var, off_limits, points, ranges>>

(* push_back, in a critical section, reads the size of the list and then   *)
(* stores behind its end.                                                  *)
Enter(t) ==
  /\ pc[t] = "create" /\ lock = NoOne
  /\ lock' = t
  /\ fill' = [fill EXCEPT ![t] = Len(points)]
  /\ Goto(t, "push")
  /\ UNCHANGED <<field, chunk, cell, last, var, off_limits, points, ranges>>

Push(t) ==
  /\ pc[t] = "push"
  /\ points' = Append(SubSeq(points, 1, fill[t]), MyPoint(t))
  /\ lock' = NoOne
  /\ fill' = [fill EXCEPT ![t] = 0]
  /\ Goto(t, "compare_least")
  /\ UNCHANGED <<field, chunk, cell, last, var, off_limits, ranges>>

CompareLeast(t) ==
  /\ pc[t] = "compare_least"
  /\ \E x \in At(MyPoint(t), var[t]) :
       Goto(t, IF x < min[var[t]] THEN "set_least" ELSE "compare_greatest")
  /\ UNCHANGED <<field, chunk, cell, last, var, fill, lock, off_limits, points, ranges>>

NextVarOnePast(t) ==
  IF var[t] <= Rank
  THEN /\ var' = [var EXCEPT ![t] = @ + 1]
       /\ Goto(t, "compare_least")
       /\ UNCHANGED cell
  ELSE Advance(t) /\ var' = [var EXCEPT ![t] = 1]

NextVar(t) ==
  IF var[t] < Rank
  THEN /\ var' = [var EXCEPT ![t] = @ + 1]
       /\ Goto(t, "compare_least")
       /\ UNCHANGED cell
  ELSE Advance(t) /\ var' = [var EXCEPT ![t] = 1]

SetLeastOnly(t) ==
  /\ pc[t] = "set_least" /\ lock = NoOne
  /\ \E x \in At(MyPoint(t), var[t]) : min' = [min EXCEPT ![var[t]] = x]
  /\ NextVar(t)
  /\ UNCHANGED <<field, chunk, last, fill, lock, off_limits, points, max>>

SetLeast(t) ==
  /\ pc[t] = "set_least" /\ lock = NoOne
  /\ \E x \in At(MyPoint(t), var[t]) : min' = [min EXCEPT ![var[t]] = x]
  /\ Goto(t, "compare_greatest")
  /\ UNCHANGED <<field, chunk, cell, last, var, fill, lock, off_limits, points, max>>

CompareGreatest(t) ==
  /\ pc[t] = "compare_greatest"
  /\ \E x \in At(MyPoint(t), var[t]) :
       IF x > max[var[t]] THEN Goto(t, "set_greatest") /\ UNCHANGED <<cell, var>>
       ELSE NextVar(t)
  /\ UNCHANGED <<field, chunk, last, fill, lock, off_limits, points, ranges>>

SetGreatest(t) ==
  /\ pc[t] = "set_greatest" /\ lock = NoOne
  /\ \E x \in At(MyPoint(t), var[t]) : max' = [max EXCEPT ![var[t]] = x]
  /\ NextVar(t)
  /\ UNCHANGED <<field, chunk, last, fill, lock, off_limits, points, min>>

Step(t) ==
  \/ Fetch(t) \/ Read(t) \/ Enter(t) \/ Push(t)
  \/ CompareLeast(t) \/ SetLeast(t) \/ CompareGreatest(t) \/ SetGreatest(t)

Next == \E t \in Threads : Step(t)

Spec == Init /\ [][Next]_vars

Built == \A t \in Threads : pc[t] = "over"
-----------------------------------------------------------------------------
(* Types.                                                                  *)
TypeOK ==
  /\ IsField(field)
  /\ pc \in [Threads -> {"fetch", "read", "create", "push", "compare_least",
               "set_least", "compare_greatest", "set_greatest", "over"}]
  /\ chunk \in 0 .. Size
  /\ cell \in [Threads -> 0 .. Size] /\ last \in [Threads -> 0 .. Size]
  /\ var \in [Threads -> Vars] /\ fill \in [Threads -> Nat]
  /\ lock \in Threads \cup {NoOne}
  /\ off_limits \subseteq Cells
  /\ points \in Seq([cell : Cells, values : Seq(Int), original : BOOLEAN])
  /\ min \in [Vars -> Int] /\ max \in [Vars -> Int]

(* "Values below this are ignored", "values above", and missing ones that  *)
(* nothing replaces; what lies within the thresholds is used, and what has *)
(* a replacement.  (A value out of the valid range is neither: its point   *)
(* should be discarded, and the code leaves out only the value.)           *)
Usable(c) ==
  \A v \in Vars \ field.replaced :
    LET x == field.data[c][v] IN
    x \notin {Missing, Beyond} /\ field.lower[v] <= x /\ x <= field.upper[v]

(* The threads make exactly one point of each cell that can be used and    *)
(* none of those to be ignored: none is lost in push_back, none is made    *)
(* twice.                                                                  *)
EveryCellOnce ==
  Built =>
    LET made == {points[i].cell : i \in 1 .. Len(points)} IN
    /\ {c \in Cells : Usable(c)} \subseteq made
    /\ \A c \in made : ~Discarded(c)
    /\ \A i, j \in 1 .. Len(points) : points[i].cell = points[j].cell => i = j

(* "insane point": each point has a value of each variable.                *)
PointsAreSane == \A i \in 1 .. Len(points) : Len(points[i].values) = Rank

(* "Contains the inf of all points in the featurespace", and the sup.      *)
RangesContainAll ==
  Built => \A i \in 1 .. Len(points), v \in Vars :
             \A x \in At(points[i], v) : min[v] <= x /\ x <= max[v]

(* One thread leaves no value outside of the ranges.                       *)
AloneContainsAll ==
  Cardinality(field.team) = 1 /\ PointsAreSane => RangesContainAll
=============================================================================
