------------------------- MODULE ClusterFileProofs -------------------------
(***************************************************************************)
(* For any number of writes and any of the failures: the file under the    *)
(* path changes as ResultFile says, a list under it goes only when the     *)
(* writing of a newer one has come to its end, and a list that was saved   *)
(* is there, or a newer one, until a writer fails, is killed, skips a      *)
(* cluster or cannot close its file.                                       *)
(***************************************************************************)
EXTENDS ClusterFile, TLAPS

(* Where the process that writes is, and what is on disk then.             *)
Progress ==
  /\ pc # "idle" => latest >= 1
  /\ pc \in {"create", "fill"} => broken # latest
  /\ pc = "create" => (existed <=> disk["path"] # Absent)
  /\ pc = "fill" => open = Target
  /\ pc \in {"remove", "rename"} => existed /\ open = "path-new"
  /\ existed /\ pc \in {"fill", "remove"} => disk["path"] \notin {Absent, Torn}
  /\ pc = "rename" => disk["path"] = Absent
  /\ pc = "close" /\ open = "path-new" => disk["path"] = Absent

IInv == TypeOK /\ Progress

USE ClusterFileAssumption DEF Names, Contents, Target

-----------------------------------------------------------------------------
(* The initial state has no file.                                          *)
LEMMA InitInv == ASSUME Init PROVE IInv
  <1>1. disk \in [Names -> Contents]
    BY DEF Init
  <1>2. latest \in 0 .. MaxWrites /\ saved \in 0 .. latest
    BY DEF Init
  <1>3. existed \in BOOLEAN /\ open \in Names \cup {Absent}
    BY DEF Init
  <1>4. TypeOK
    BY <1>1, <1>2, <1>3 DEF Init, TypeOK
  <1>5. Progress
    BY DEF Init, Progress
  <1> QED
    BY <1>4, <1>5 DEF IInv

(* The types, one by one.                                                  *)
LEMMA TypeFacts ==
  ASSUME TypeOK
  PROVE  /\ latest \in Nat /\ saved \in Nat /\ saved <= latest /\ latest <= MaxWrites
         /\ disk \in [Names -> Contents]
         /\ open \in Names \cup {Absent} /\ Absent \notin Names /\ Absent \notin Nat
         /\ broken \in Nat /\ broken <= latest
         /\ pc \in {"fill", "close"} => open \in Names
  BY DEF TypeOK

(* A process that dies leaves the types and no open file.                  *)
LEMMA DieInv ==
  ASSUME IInv, NEW why, NEW contents \in SUBSET {Torn, Partial}, Die(why, contents)
  PROVE  IInv'
  <1>1. disk' \in [Names -> Contents]
    <2>1. CASE UNCHANGED disk
      BY <2>1 DEF IInv, TypeOK
    <2>2. CASE open # Absent /\ \E c \in contents : disk' = [disk EXCEPT ![open] = c]
      BY <2>2 DEF IInv, TypeOK
    <2> QED
      BY <2>1, <2>2 DEF Die
  <1>2. broken' \in 0 .. latest /\ latest' = latest /\ saved' = saved
    <2>1. latest \in Nat /\ broken \in Nat /\ broken <= latest
      BY TypeFacts DEF IInv
    <2>2. broken' \in {broken, latest} /\ latest' = latest /\ saved' = saved
      BY DEF Die
    <2> QED
      BY <2>1, <2>2
  <1>3. TypeOK'
    BY <1>1, <1>2 DEF Die, IInv, TypeOK
  <1>4. Progress'
    BY DEF Die, Progress
  <1> QED
    BY <1>3, <1>4 DEF IInv

(* Every step keeps the invariant.                                         *)
LEMMA StepInv == ASSUME IInv, [Next]_vars PROVE IInv'
  <1>1. CASE Begin
    <2>1. disk' \in [Names -> Contents]
      BY <1>1 DEF Begin, IInv, TypeOK
    <2>2. TypeOK'
      BY <1>1, <2>1 DEF Begin, IInv, TypeOK, Progress
    <2>3. Progress'
      <3>1. latest' >= 1
        BY <1>1, TypeFacts DEF Begin, IInv
      <3>2. pc' = "create" /\ (existed' <=> disk'["path"] # Absent)
        BY <1>1, TypeFacts DEF Begin, IInv
      <3>3. broken' # latest'
        BY <1>1, TypeFacts DEF Begin, IInv
      <3> QED
        BY <3>1, <3>2, <3>3 DEF Progress
    <2> QED
      BY <2>2, <2>3 DEF IInv
  <1>2. CASE Refuse
    BY <1>2, DieInv DEF Refuse
  <1>3. CASE Create
    <2>1. disk' \in [Names -> Contents]
      BY <1>3 DEF Create, IInv, TypeOK
    <2>2. TypeOK'
      BY <1>3, <2>1 DEF Create, IInv, TypeOK, Progress
    <2>3. Progress'
      BY <1>3 DEF Create, IInv, TypeOK, Progress
    <2> QED
      BY <2>2, <2>3 DEF IInv
  <1>4. CASE Fill
    <2>1. disk' \in [Names -> Contents]
      <3>1. latest \in Contents /\ disk \in [Names -> Contents]
        BY <1>4, TypeFacts DEF Fill, IInv, Progress
      <3> QED
        BY <1>4, <3>1 DEF Fill
    <2>2. TypeOK'
      BY <1>4, <2>1 DEF Fill, IInv, TypeOK, Progress
    <2>3. Progress'
      BY <1>4 DEF Fill, IInv, TypeOK, Progress
    <2> QED
      BY <2>2, <2>3 DEF IInv
  <1>13. CASE FillSkipping
    <2>1. disk' \in [Names -> Contents]
      BY <1>13 DEF FillSkipping, IInv, TypeOK
    <2>2. TypeOK'
      BY <1>13, <2>1, TypeFacts DEF FillSkipping, IInv, TypeOK, Progress
    <2>3. Progress'
      BY <1>13 DEF FillSkipping, IInv, TypeOK, Progress
    <2> QED
      BY <2>2, <2>3 DEF IInv
  <1>5. CASE FillFails \/ CloseFails
    BY <1>5, DieInv DEF FillFails, CloseFails
  <1>6. CASE Remove
    <2>1. disk' \in [Names -> Contents]
      BY <1>6 DEF Remove, IInv, TypeOK
    <2>2. TypeOK'
      BY <1>6, <2>1 DEF Remove, IInv, TypeOK, Progress
    <2>3. Progress'
      BY <1>6 DEF Remove, IInv, TypeOK, Progress
    <2> QED
      BY <2>2, <2>3 DEF IInv
  <1>7. CASE RemoveFails
    BY <1>7, DieInv DEF RemoveFails
  <1>8. CASE Rename
    <2>1. disk' \in [Names -> Contents]
      BY <1>8 DEF Rename, IInv, TypeOK
    <2>2. TypeOK'
      BY <1>8, <2>1 DEF Rename, IInv, TypeOK, Progress
    <2>3. Progress'
      BY <1>8 DEF Rename, IInv, TypeOK, Progress
    <2> QED
      BY <2>2, <2>3 DEF IInv
  <1>9. CASE RenameFails
    BY <1>9 DEF RenameFails, IInv, TypeOK, Progress
  <1>10. CASE Close
    <2>1. latest \in Nat /\ saved' \in {saved, latest} /\ latest' = latest /\ pc' = "idle"
      BY <1>10, TypeFacts DEF Close, IInv
    <2>2. saved' \in 0 .. latest'
      BY <2>1, TypeFacts DEF IInv
    <2>3. TypeOK'
      <3>1. open' = Absent /\ disk' = disk /\ existed' = existed
        BY <1>10 DEF Close
      <3>2. broken' = broken /\ broken \in 0 .. latest
        BY <1>10 DEF Close, IInv, TypeOK
      <3> QED
        BY <2>1, <2>2, <3>1, <3>2, TypeFacts DEF IInv, TypeOK
    <2>4. Progress'
      BY <2>1 DEF Progress
    <2> QED
      BY <2>3, <2>4 DEF IInv
  <1>11. CASE Killed
    BY <1>11, DieInv DEF Killed
  <1>12. CASE UNCHANGED vars
    BY <1>12 DEF vars, IInv, TypeOK, Progress
  <1> QED
    BY <1>1, <1>2, <1>3, <1>4, <1>5, <1>6, <1>7, <1>8, <1>9, <1>10, <1>11, <1>12, <1>13 DEF Next

(* The invariant of every run.                                             *)
THEOREM FileInvariant == Spec => []IInv
  <1>1. Init => IInv
    BY InitInv
  <1>2. IInv /\ [Next]_vars => IInv'
    BY StepInv
  <1> QED
    BY <1>1, <1>2, PTL DEF Spec

(* Types, and the file held open.                                          *)
THEOREM FileTypes == Spec => []TypeOK
  <1>1. IInv => TypeOK
    BY DEF IInv
  <1> QED
    BY <1>1, FileInvariant, PTL

(* ClusterList::write removes the old file only when the writing of the    *)
(* new one has come to its end, with all clusters or without the skipped.  *)
THEOREM OnlyReplacedByNewer == Spec => ReplacedByNewer
  <1>1. ASSUME IInv, [Next]_vars
        PROVE  [disk["path"] \in Nat /\ open # "path" /\ disk'["path"] # disk["path"]
                  => disk["path-new"] = IF broken = latest THEN Partial ELSE latest]_vars
    <2> SUFFICES ASSUME Next, disk["path"] \in Nat, open # "path",
                        disk'["path"] # disk["path"]
                 PROVE  disk["path-new"] = IF broken = latest THEN Partial ELSE latest
      BY <1>1
    <2>1. ASSUME NEW why, NEW contents, Die(why, contents) PROVE FALSE
      BY <1>1, <2>1 DEF Die, IInv, TypeOK
    <2>2. CASE Begin
      BY <1>1, <2>2 DEF Begin, IInv, TypeOK
    <2>3. CASE Create
      BY <1>1, <2>3 DEF Create, IInv, TypeOK, Progress
    <2>4. CASE Fill \/ FillSkipping
      BY <1>1, <2>4 DEF Fill, FillSkipping, IInv, TypeOK
    <2>5. CASE Remove
      BY <1>1, <2>5 DEF Remove, IInv, TypeOK, Progress
    <2>6. CASE Rename
      BY <1>1, <2>6 DEF Rename, IInv, TypeOK, Progress
    <2>7. CASE RenameFails \/ Close
      BY <2>7 DEF RenameFails, Close
    <2>8. CASE Refuse \/ FillFails \/ RemoveFails \/ CloseFails \/ Killed
      BY <2>1, <2>8 DEF Refuse, FillFails, RemoveFails, CloseFails, Killed
    <2> QED
      BY <2>2, <2>3, <2>4, <2>5, <2>6, <2>7, <2>8 DEF Next
  <1> QED
    BY <1>1, FileInvariant, PTL DEF Spec, ReplacedByNewer

-----------------------------------------------------------------------------
(* A process that dies leaves one of the outcomes.                         *)
LEMMA DieWrites ==
  ASSUME IInv, NEW why, NEW contents \in SUBSET {Torn, Partial}, Die(why, contents)
  PROVE  AtPath!Next \/ UNCHANGED <<Found, latest>>
  <1>1. latest' = latest /\ pc' = "idle" /\ Found' = disk'["path"]
    BY DEF Die, Found
  <1>2. CASE UNCHANGED disk
    <2>1. Found' \in AtPath!Outcomes(Found, latest)
      BY <1>1, <1>2 DEF AtPath!Outcomes, Found, IInv, TypeOK
    <2> QED
      BY <1>1, <2>1 DEF AtPath!Next, AtPath!Write
  <1>3. CASE open # Absent /\ \E c \in contents : disk' = [disk EXCEPT ![open] = c]
    <2>1. CASE open = "path"
      <3>1. Found' \in {Torn, Partial} /\ Found # Torn
        BY <1>1, <1>3, <2>1 DEF Found, IInv, TypeOK
      <3> QED
        BY <1>1, <3>1 DEF AtPath!Next, AtPath!Write, AtPath!Outcomes
    <2>2. CASE open # "path"
      BY <1>1, <1>3, <2>2 DEF Found, IInv, TypeOK
    <2> QED
      BY <2>1, <2>2
  <1> QED
    BY <1>2, <1>3 DEF Die

(* Every step of write() is a step of ResultFile, or none that is seen.    *)
LEMMA StepWrites ==
  ASSUME IInv, [Next]_vars
  PROVE  AtPath!Next \/ UNCHANGED <<Found, latest>>
  <1>1. CASE Begin
    <2>1. Found' = Found
      BY <1>1 DEF Begin, Found, IInv, TypeOK
    <2> QED
      BY <1>1, <2>1 DEF Begin, AtPath!Next, AtPath!Begin
  <1>2. CASE Create
    BY <1>2 DEF Create, Found, IInv, TypeOK, Progress
  <1>3. CASE Fill
    <2>1. Found' = (IF open = "path" THEN latest ELSE Found) /\ latest' = latest
      BY <1>3 DEF Fill, Found, IInv, TypeOK
    <2>2. open = "path" => Found = Absent
      BY <1>3 DEF Fill, Found
    <2> QED
      BY <2>1, <2>2 DEF AtPath!Next, AtPath!Write, AtPath!Outcomes
  <1>10. CASE FillSkipping
    <2>1. Found' = (IF open = "path" THEN Partial ELSE Found) /\ latest' = latest
      BY <1>10 DEF FillSkipping, Found, IInv, TypeOK
    <2>2. open = "path" => Found = Absent
      BY <1>10 DEF FillSkipping, Found
    <2> QED
      BY <2>1, <2>2 DEF AtPath!Next, AtPath!Write, AtPath!Outcomes
  <1>4. CASE Remove
    <2>1. Found' = Absent /\ latest' = latest /\ Found # Torn
      BY <1>4 DEF Remove, Found, IInv, TypeOK, Progress
    <2> QED
      BY <2>1 DEF AtPath!Next, AtPath!Write, AtPath!Outcomes
  <1>5. CASE Rename
    <2>1. Found' \in {latest, Partial} /\ latest' = latest /\ Found # Torn
      BY <1>5 DEF Rename, Found, IInv, TypeOK, Progress
    <2> QED
      BY <2>1 DEF AtPath!Next, AtPath!Write, AtPath!Outcomes
  <1>6. CASE RenameFails
    BY <1>6 DEF RenameFails, Found
  <1>7. CASE Close
    BY <1>7 DEF Close, Found
  <1>8. CASE Refuse \/ FillFails \/ RemoveFails \/ CloseFails \/ Killed
    BY <1>8, DieWrites DEF Refuse, FillFails, RemoveFails, CloseFails, Killed
  <1>9. CASE UNCHANGED vars
    BY <1>9 DEF vars, Found
  <1> QED
    BY <1>1, <1>2, <1>3, <1>4, <1>5, <1>6, <1>7, <1>8, <1>9, <1>10 DEF Next

(* ClusterList::write implements ResultFile.                               *)
THEOREM WriteImplementsResultFile == Spec => WritesResultFile
  <1>1. Init => AtPath!Init
    BY DEF Init, AtPath!Init, Found
  <1>2. IInv /\ [Next]_vars => [AtPath!Next]_<<Found, latest>>
    BY StepWrites
  <1> QED
    BY <1>1, <1>2, FileInvariant, PTL DEF Spec, WritesResultFile, AtPath!Spec

-----------------------------------------------------------------------------
(* What is under the path is the list saved last or a newer one, or, until *)
(* a new file replaces it, it is under the other name.                     *)
Kept ==
  /\ disk["path"] = Torn => pc = "fill" /\ open = "path"
  /\ disk["path"] # Partial
  /\ disk["path"] \in Nat => disk["path"] >= saved
  /\ saved > 0 => \E n \in Names : disk[n] \in Nat /\ disk[n] >= saved

Survival == saved > broken => Kept

SInv == IInv /\ Survival

(* Closing a complete list starts the promise anew.                        *)
LEMMA CloseSurvives == ASSUME SInv, Close, saved' > broken' PROVE Kept'
  <1>1. /\ disk' = disk /\ broken' = broken /\ pc' = "idle"
        /\ open \in Names /\ latest \in Nat /\ saved \in Nat /\ broken \in Nat
        /\ disk[open] = IF broken = latest THEN Partial ELSE latest
        /\ open = "path-new" => disk["path"] = Absent
        /\ saved' = IF disk[open] = latest THEN latest ELSE saved
        /\ saved <= latest
    BY TypeFacts DEF Close, SInv, IInv, TypeOK, Progress
  <1>2. disk[open] = latest /\ saved' = latest
    BY <1>1
  <1>3. CASE open = "path"
    BY <1>1, <1>2, <1>3 DEF Kept
  <1>4. CASE open = "path-new"
    BY <1>1, <1>2, <1>4 DEF Kept
  <1> QED
    BY <1>1, <1>3, <1>4

(* Every other step keeps it; a writer that fails, is killed, skips a      *)
(* cluster or cannot close its file ends the promise.                      *)
LEMMA StepSurvives == ASSUME SInv, [Next]_vars PROVE Survival'
  <1> SUFFICES ASSUME saved' > broken', ~Close PROVE Kept'
    BY CloseSurvives DEF Survival
  <1>a. saved' = saved /\ (broken' = broken \/ broken' = latest)
    BY DEF Next, vars, Begin, Refuse, Create, Fill, FillSkipping, FillFails, Remove,
           RemoveFails, Rename, RenameFails, CloseFails, Killed, Die
  <1>b. Kept /\ saved > broken /\ broken' = broken /\ broken # latest
    <2>1. saved \in Nat /\ latest \in Nat /\ broken \in Nat /\ saved <= latest
      BY TypeFacts DEF SInv, IInv
    <2> QED
      BY <1>a, <2>1 DEF SInv, Survival
  <1> USE <1>a, <1>b DEF SInv, IInv, TypeOK, Progress, Kept
  <1>1. CASE Begin
    <2>1. saved' = saved /\ disk'["path"] = disk["path"]
      BY <1>1, TypeFacts DEF Begin
    <2>2. CASE disk["path"] = Absent
      <3>1. disk' = disk
        BY <1>1, <2>2 DEF Begin
      <3> QED
        BY <2>1, <2>2, <3>1
    <2>3. CASE disk["path"] # Absent
      <3>1. disk["path"] \in Nat
        BY <1>1, <2>3, TypeFacts DEF Begin
      <3> QED
        BY <2>1, <3>1
    <2> QED
      BY <2>2, <2>3
  <1>2. CASE Refuse
    BY <1>2 DEF Refuse
  <1>3. CASE Create
    BY <1>3 DEF Create
  <1>4. CASE Fill
    BY <1>4 DEF Fill
  <1>5. CASE Remove
    BY <1>5 DEF Remove
  <1>6. CASE RemoveFails
    <2>1. saved' = saved
      BY <1>6 DEF RemoveFails, Die
    <2>2. open = "path-new"
      BY <1>6 DEF RemoveFails
    <2>3. disk'["path"] = disk["path"]
      <3>1. CASE disk' = disk
        BY <3>1
      <3>2. CASE disk' = [disk EXCEPT !["path-new"] = Torn]
        BY <3>2, TypeFacts
      <3>3. disk' = disk \/ disk' = [disk EXCEPT !["path-new"] = Torn]
        BY <1>6, <2>2 DEF RemoveFails, Die
      <3> QED
        BY <3>1, <3>2, <3>3
    <2>4. disk["path"] \in Nat
      <3>1. disk["path"] \in Contents
        BY TypeFacts
      <3>2. disk["path"] \notin {Absent, Torn, Partial}
        BY <1>6 DEF RemoveFails
      <3> QED
        BY <3>1, <3>2
    <2>5. disk'["path"] \in Nat /\ disk'["path"] >= saved'
      BY <2>1, <2>3, <2>4
    <2> QED
      BY <2>5
  <1>7. CASE Rename
    BY <1>7 DEF Rename
  <1>8. CASE RenameFails
    BY <1>8 DEF RenameFails
  <1>9. CASE FillSkipping
    <2>1. broken' = latest
      BY <1>9 DEF FillSkipping
    <2> QED
      BY <2>1
  <1>10. CASE FillFails \/ CloseFails \/ Killed
    <2>1. broken' = latest
      BY <1>10 DEF FillFails, CloseFails, Killed, Die
    <2> QED
      BY <2>1
  <1>11. CASE UNCHANGED vars
    BY <1>11 DEF vars
  <1> QED
    BY <1>1, <1>2, <1>3, <1>4, <1>5, <1>6, <1>7, <1>8, <1>9, <1>10, <1>11 DEF Next

(* Failures of remove() and rename() alone never lose what was saved, and  *)
(* neither does what an earlier writer left behind.                        *)
THEOREM SavedSurvives == Spec => []SavedOrNewer
  <1>1. Init => SInv
    <2>1. Init => Survival
      BY DEF Init, Survival, Kept
    <2> QED
      BY <2>1, InitInv DEF SInv
  <1>2. SInv /\ [Next]_vars => SInv'
    BY StepInv, StepSurvives DEF SInv
  <1>3. SInv => SavedOrNewer
    <2>1. SInv => saved \in Nat /\ broken \in Nat
      BY TypeFacts DEF SInv, IInv
    <2> QED
      BY <2>1 DEF SInv, Survival, Kept, SavedOrNewer
  <1> QED
    BY <1>1, <1>2, <1>3, PTL DEF Spec
=============================================================================
