---------------------------- MODULE ClusterFile ----------------------------
(***************************************************************************)
(* One cluster file, written again and again by ClusterList::write: the    *)
(* list goes to a file of another name that then replaces the old one.     *)
(* The processes that write may fail or be killed at any step; what of an  *)
(* open file is on disk then is up to the NetCDF library's buffers.        *)
(***************************************************************************)
EXTENDS Naturals

CONSTANTS
  Absent, Torn, Partial,
  MaxWrites   \* the number of writes, a bound

ASSUME ClusterFileAssumption ==
  /\ Absent # Torn /\ Absent # Partial /\ Torn # Partial
  /\ \A c \in {Absent, Torn, Partial} : c \notin Nat /\ c \notin {"path", "path-new"}
  /\ MaxWrites \in Nat

VARIABLES
  pc,       \* the next step of the process that writes, or "idle"
  disk,     \* what is found under the path and under path-new
  latest,   \* the number of the list written last
  existed,  \* file_existed
  open,     \* the name of the file held open for writing, or Absent
  result,   \* how the last write ended
  saved,    \* the last list that was written completely and closed
  broken    \* the last list whose writer failed, was killed, skipped a
            \* cluster or could not close the file, or 0

vars == <<pc, disk, latest, existed, open, result, saved, broken>>

Names == {"path", "path-new"}
Target == IF existed THEN "path-new" ELSE "path"

Init ==
  /\ pc = "idle" /\ disk = [n \in Names |-> Absent]
  /\ latest = 0 /\ existed = FALSE /\ open = Absent /\ result = "none"
  /\ saved = 0 /\ broken = 0   \* no parts of the program

(* The process ends without closing the open file, which is left as it is  *)
(* or as one of the given contents.                                        *)
Die(why, contents) ==
  /\ pc' = "idle" /\ result' = why /\ open' = Absent
  /\ \/ UNCHANGED disk
     \/ open # Absent /\ \E c \in contents : disk' = [disk EXCEPT ![open] = c]
  /\ broken' = IF why \in {"failed", "killed", "not closed"} THEN latest ELSE broken
  /\ UNCHANGED <<latest, existed, saved>>

(* Looks for the file and for the remains of an earlier process.           *)
Begin ==
  /\ pc = "idle" /\ latest < MaxWrites
  /\ latest' = latest + 1
  /\ existed' = (disk["path"] # Absent)
  /\ disk' = IF existed' THEN [disk EXCEPT !["path-new"] = Absent] ELSE disk
  /\ pc' = "create"
  /\ UNCHANGED <<open, result, saved, broken>>

RefuseNever ==
  /\ pc = "create" /\ existed /\ disk["path"] = Torn
  /\ existed' = FALSE
  /\ UNCHANGED <<pc, disk, latest, open, result, saved, broken>>

(* The dimensions come from the file that is there, if there is one; it    *)
(* must be readable.                                                       *)
Refuse ==
  /\ pc = "create" /\ existed /\ disk["path"] = Torn
  /\ Die("refused", {})

CreateInPlace ==
  /\ pc = "create" /\ ~(existed /\ disk["path"] = Torn)
  /\ disk' = [disk EXCEPT !["path"] = Absent, ![Target] = Torn]
  /\ open' = Target
  /\ pc' = "fill"
  /\ UNCHANGED <<latest, existed, result, saved, broken>>

Create ==
  /\ pc = "create" /\ ~(existed /\ disk["path"] = Torn)
  /\ disk' = [disk EXCEPT ![Target] = Torn]
  /\ open' = Target
  /\ pc' = "fill"
  /\ UNCHANGED <<latest, existed, result, saved, broken>>

Fill ==
  /\ pc = "fill"
  /\ disk' = [disk EXCEPT ![open] = latest]
  /\ pc' = IF existed THEN "remove" ELSE "close"
  /\ UNCHANGED <<latest, existed, open, result, saved, broken>>

(* A cluster whose variable cannot be added is left out; the writing goes  *)
(* on with the next one and ends as if nothing had been.                   *)
FillSkipping ==
  /\ pc = "fill"
  /\ disk' = [disk EXCEPT ![open] = Partial]
  /\ broken' = latest
  /\ pc' = IF existed THEN "remove" ELSE "close"
  /\ UNCHANGED <<latest, existed, open, result, saved>>

(* An exception ends the process at once, exit() lets the library write    *)
(* what it has: a NetCDF file without all of the clusters.                 *)
FillFails == pc = "fill" /\ Die("failed", {Torn, Partial})

Remove ==
  /\ pc = "remove"
  /\ disk' = [disk EXCEPT !["path"] = Absent]
  /\ pc' = "rename"
  /\ UNCHANGED <<latest, existed, open, result, saved, broken>>

(* remove() throws when it cannot delete; it returns FALSE, for the branch *)
(* that moves the file aside, only if there was no file.                   *)
RemoveFails == pc = "remove" /\ Die("not removed", {Torn})

Rename ==
  /\ pc = "rename"
  /\ disk' = [disk EXCEPT !["path"] = disk["path-new"], !["path-new"] = Absent]
  /\ open' = "path"
  /\ pc' = "close"
  /\ UNCHANGED <<latest, existed, result, saved, broken>>

(* The error is logged and the list left under the new name.               *)
RenameFails ==
  /\ pc = "rename"
  /\ pc' = "close"
  /\ UNCHANGED <<disk, latest, existed, open, result, saved, broken>>

(* ~ClusterList closes the file at the end of the program.                 *)
CloseLeaking ==
  /\ pc = "close"
  /\ result' = IF open = "path" THEN "saved" ELSE "not renamed"
  /\ saved' = IF disk[open] = latest THEN latest ELSE saved
  /\ pc' = "idle"
  /\ UNCHANGED <<disk, latest, existed, open, broken>>

Close ==
  /\ pc = "close"
  /\ open' = Absent
  /\ result' = IF open = "path" THEN "saved" ELSE "not renamed"
  /\ saved' = IF disk[open] = latest THEN latest ELSE saved
  /\ pc' = "idle"
  /\ UNCHANGED <<disk, latest, existed, broken>>

(* A file that cannot be closed loses what the library had in its buffers; *)
(* NcFile's destructor prints that, and the program ends with success.     *)
CloseFails == pc = "close" /\ Die("not closed", {Torn, Partial})

Killed == pc # "idle" /\ Die("killed", {Torn})

Next ==
  \/ Begin \/ Refuse \/ Create \/ Fill \/ FillSkipping \/ FillFails
  \/ Remove \/ RemoveFails \/ Rename \/ RenameFails \/ Close \/ CloseFails \/ Killed

Spec == Init /\ [][Next]_vars

-----------------------------------------------------------------------------
Contents == {Absent, Torn, Partial} \cup 1 .. MaxWrites

(* Types; a file is open for writing from its creation to the end, it is   *)
(* the only one under that name, and from the end of the writing on it has *)
(* the list, or all of it but the clusters that were skipped.              *)
TypeOK ==
  /\ pc \in {"idle", "create", "fill", "remove", "rename", "close"}
  /\ disk \in [Names -> Contents]
  /\ latest \in 0 .. MaxWrites /\ saved \in 0 .. latest
  /\ existed \in BOOLEAN /\ broken \in 0 .. latest
  /\ open \in Names \cup {Absent}
  /\ open # Absent <=> pc \in {"fill", "remove", "rename", "close"}
  /\ pc = "fill" => disk[open] = Torn
  /\ pc \in {"remove", "rename", "close"} =>
       disk[open] = IF broken = latest THEN Partial ELSE latest

(* The list under the path goes away only when the writing of a newer one  *)
(* under the other name has come to its end, whatever fails, unless its    *)
(* own writer loses it: the newer one is complete but for clusters that    *)
(* were skipped.                                                           *)
ReplacedByNewer ==
  [][disk["path"] \in Nat /\ open # "path" /\ disk'["path"] # disk["path"]
     => disk["path-new"] = IF broken = latest THEN Partial ELSE latest]_vars

(* From the end of a write that saved a complete list to the next one that *)
(* fails, is killed, skips a cluster or cannot close its file, that list   *)
(* or a newer one is always found under one name or the other, whatever    *)
(* remove and rename do: "finally deleting the original when done".        *)
SavedOrNewer ==
  saved > broken => \E n \in Names : disk[n] \in Nat /\ disk[n] >= saved

(* The file as other programs find it changes as ResultFile says.          *)
Found == IF pc = "fill" /\ open = "path" THEN Absent ELSE disk["path"]
AtPath == INSTANCE ResultFile WITH content <- Found
WritesResultFile == AtPath!Spec
=============================================================================
