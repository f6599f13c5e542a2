------------------------------ MODULE MCDriver ------------------------------
(***************************************************************************)
(* The modes of the driver and of the postprocessing for TLC.              *)
(***************************************************************************)
EXTENDS Experiment

AnyMode == ModeType
FilesInline == {[steps |-> FALSE, inline |-> TRUE, previous |-> FALSE, fail |-> FALSE]}

(* A dictionary and no more, and all of gnuplot's files with plots.        *)
Options(dictionary, plot) ==
  [dictionary |-> dictionary, gnuplot |-> FALSE, length |-> plot, vtk |-> FALSE, plot |-> plot]

MCWanted == {Options(TRUE, FALSE), Options(TRUE, TRUE)}
DictionaryOnly == {Options(TRUE, FALSE)}
=============================================================================
