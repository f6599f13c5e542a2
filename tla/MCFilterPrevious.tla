-------------------------- MODULE MCFilterPrevious --------------------------
(***************************************************************************)
(* The filter on a row of grid points.  Detected clusters are blocks of    *)
(* the row, the previous ones lie anywhere on it.                          *)
(***************************************************************************)
EXTENDS FilterPrevious, Integers

CONSTANTS
  Length,   \* of the row, a bound
  Levels    \* of verbosity

Row == 1 .. Length
RowNear == {pair \in Row \X Row : pair[1] - pair[2] \in {-1, 0, 1}}

(* Where each of k blocks begins and where it ends.                        *)
Blocks(k) ==
  {f \in [1 .. New -> SUBSET Row] :
     /\ \A c \in k + 1 .. New : f[c] = {}
     /\ \A c \in 1 .. k : f[c] # {} /\ \A p, q \in f[c] : p .. q \subseteq f[c]
     /\ \A c, d \in 1 .. k : c < d => \A p \in f[c], q \in f[d] : p < q}

AnyInput ==
  UNION {[count : {k}, points : Blocks(k), olds : {o}, index : [Row -> (1 .. o) \cup {None}],
          verbosity : Levels] : k \in 0 .. New, o \in 0 .. Olds}
=============================================================================
