----------------------------- MODULE ResultFile -----------------------------
(***************************************************************************)
(* What a cluster file may be once a process that writes it is over or     *)
(* dead: the promise of ClusterList::write the programs above rely on.     *)
(* A content is Absent, Torn (no NetCDF file one can open), Partial (one   *)
(* without all of its clusters) or a list.                                 *)
(***************************************************************************)
EXTENDS Naturals

CONSTANTS Absent, Torn, Partial

VARIABLES
  content,   \* what is found under the name of the file
  latest     \* the number of the list written last

(* The contents a process leaves that writes the list v over content c.  A *)
(* torn file stays: its dimensions are wanted for the new one.             *)
Outcomes(c, v) ==
  IF c = Torn THEN {Torn} ELSE {c, Absent, Torn, Partial, v}

Init == content = Absent /\ latest = 0

Begin == latest' = latest + 1 /\ UNCHANGED content

Write == content' \in Outcomes(content, latest) /\ UNCHANGED latest

Next == Begin \/ Write

Spec == Init /\ [][Next]_<<content, latest>>
=============================================================================
