--------------------------- MODULE MCAggregation ---------------------------
(***************************************************************************)
(* Aggregation on a row of grid points, with the inputs the runs go        *)
(* through.                                                                *)
(***************************************************************************)
EXTENDS Aggregation, FiniteSets

CONSTANT Length   \* of the row of grid points, a bound

Row == 1 .. Length
RowNear == {pair \in Row \X Row : pair[1] - pair[2] \in {-1, 0, 1}}

Flat == [p \in Row |-> 0]

(* Every shift of every point, all of them original.                       *)
AnyShift ==
  {in \in [zero : SUBSET Row, target : [Row -> Row \cup {None}],
           original : {Row}, response : {Flat}, coalesce : {FALSE}] :
     \A p \in in.zero : in.target[p] = None}

(* Some of the points filled in, shifts to a neighbour or less than the    *)
(* grid, with and without coalescence.                                     *)
FilledIn ==
  {in \in [zero : SUBSET Row, target : [Row -> Row \cup {None}],
           original : SUBSET Row, response : {Flat, [p \in Row |-> p]}, coalesce : BOOLEAN] :
     \A p \in Row : in.target[p] = None \/ (p \notin in.zero /\ in.target[p] - p \in {0, 1})}

(* Every response of up to 3, points that have a cluster each and some     *)
(* that have none.                                                         *)
AnyResponse ==
  [zero : {{}}, target : {f \in [Row -> Row \cup {None}] : \A p \in Row : f[p] \in {p, None}},
   original : {Row}, response : [Row -> 0 .. 3], coalesce : {TRUE}]

AnyInput == AnyShift \cup FilledIn \cup AnyResponse
=============================================================================
