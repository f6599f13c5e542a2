------------------------- MODULE LinearIndexMapping -------------------------
(***************************************************************************)
(* LinearIndexMapping: the numbers that stand for grid points in parallel  *)
(* loops.  dims holds the size of each dimension; grid points count from 0.*)
(***************************************************************************)
EXTENDS Integers, Sequences

(* m_slice_sizes: how many grid points share the first n indices.          *)
SliceSizes(dims) ==
  LET size[n \in DOMAIN dims] ==
        IF n = Len(dims) THEN 1 ELSE size[n + 1] * dims[n + 1]
  IN  size

MappingSize(dims) == SliceSizes(dims)[1] * dims[1]

(* Each index is what the slices of its dimension go into the part of the  *)
(* number that the indices before it leave over.                           *)
LinearToGrid(dims, n) ==
  LET slice == SliceSizes(dims)
      rest[i \in DOMAIN dims] == IF i = 1 THEN n ELSE rest[i - 1] % slice[i - 1]
  IN  [i \in DOMAIN dims |-> rest[i] \div slice[i]]
=============================================================================
