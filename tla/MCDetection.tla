---------------------------- MODULE MCDetection ----------------------------
(***************************************************************************)
(* Fields of 3 x 2 grid points and two variables for TLC, one or two       *)
(* threads.                                                                *)
(***************************************************************************)
EXTENDS Detection

MCDims == <<3, 2>>
MCKernels == <<<<2, 1>>, <<2, 1>>>>

Alone == {CHOOSE t \in Threads : TRUE}
Cell == 0 .. Size - 1

(* What the range search reaches from a cell: its neighbours, or nothing.  *)
Around == [c \in Cell |-> Neighbours(c)]
Nothing == [c \in Cell |-> {}]

(* d has the values of the first variable.  Those of the second are missing*)
(* where the first ones are and are not replaced, and otherwise numbers.   *)
Field(d, lower, replaced, team, scale, wwf) ==
  [data |-> [c \in Cell |-> <<d[c], IF d[c] = Missing /\ 1 \notin replaced THEN Missing
                             ELSE IF d[c] \in {Missing, Beyond} THEN 5 ELSE -d[c]>>],
   lower |-> <<lower, -50>>, upper |-> <<50, 50>>,
   replaced |-> replaced, team |-> team, scale |-> scale, wwf |-> wwf,
   filters |-> <<>>, mode |-> <<"median", "median">>, percent |-> <<-100, -100>>,
   reach |-> Around, zeroed |-> 0]

(* At most n cells have a value, of X.                                     *)
Sparse(n, X) ==
  {d \in [Cell -> X \cup {Missing}] : Cardinality({c \in Cell : d[c] # Missing}) <= n}

(* Values in three of the cells.                                           *)
Three(a, x, b, y, c, z) == [e \in Cell |-> CASE e = a -> x [] e = b -> y [] e = c -> z [] OTHER -> Missing]

(* Smoothed fields: for one thread every field of three values, for two    *)
(* pairs of neighbours, corners, and equal and different values.           *)
SmoothFields ==
  {Field(d, -50, {}, Alone, TRUE, FALSE) : d \in Sparse(3, {2, -4})} \cup
  {Field(d, -50, {}, Threads, TRUE, FALSE) :
     d \in Sparse(1, {2, -4}) \cup
           {Three(0, 2, 2, x, 4, y) : x, y \in {-4, 6}} \cup
           {Three(1, -4, 3, x, 4, y) : x, y \in {2, -4}}}

(* Fields as they are, with values below the threshold, replaced values,   *)
(* and values out of the valid range.                                      *)
PlainFields ==
  {Field(d, 0, {}, Alone, FALSE, TRUE) : d \in Sparse(2, {2, -4, Beyond})} \cup
  {Field(Three(0, 6, 2, 2, 4, x), 0, {1}, Alone, scale, FALSE) :
     x \in {2, -4, Beyond}, scale \in BOOLEAN} \cup
  {Field(Three(0, x, 2, y, 5, z), 0, {}, Threads, FALSE, FALSE) : x, y, z \in {2, -4, Beyond}}

(* Fields that go through replacement filters and the convection filter:   *)
(* each mode with none, some and more of the values, one filter after      *)
(* another, missing values that were not stored, and the smoothing behind. *)
Bases(scale, replaced) ==
  {Field(Three(a, 12, 2, -24, c, x), -50, replaced, Alone, scale, FALSE) :
     a \in {0, 1}, c \in {4, 5}, x \in {16, 18, Beyond}}

With(f, filters, mode, percent) ==
  [f EXCEPT !.filters = filters, !.mode = mode, !.percent = percent]

FilteredFields ==
  {With(f, <<1>>, <<"median", "median">>, <<p, -100>>) : f \in Bases(FALSE, {}), p \in {-100, 100, 250}} \cup
  {With(f, <<1>>, <<m, "median">>, <<p, -100>>) :
     f \in Bases(FALSE, {}), m \in {"lowest", "highest"}, p \in {10, 60, 150}} \cup
  {With(f, <<1, 2>>, <<"highest", "lowest">>, <<60, 60>>) : f \in Bases(FALSE, {})} \cup
  {With(f, <<1, 1>>, <<"lowest", "lowest">>, <<p, p>>) : f \in Bases(TRUE, {}), p \in {10, 60}} \cup
  {[With(f, <<2>>, <<"lowest", "lowest">>, <<25, 25>>) EXCEPT !.reach = Nothing] : f \in Bases(FALSE, {})} \cup
  {[f EXCEPT !.zeroed = 2] : f \in Bases(FALSE, {2})}

MCFields == SmoothFields \cup PlainFields \cup FilteredFields

(* Those of them in which every point has all of its values.               *)
ValidFields ==
  {f \in MCFields : f.replaced = {} /\ \A c \in Cell, v \in 1 .. Rank : f.data[c][v] # Beyond}
=============================================================================
