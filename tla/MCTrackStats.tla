---------------------------- MODULE MCTrackStats ----------------------------
(***************************************************************************)
(* Directories for TLC, of up to three frames of up to two clusters.       *)
(***************************************************************************)
EXTENDS TrackStats

Distinct(s) == \A c, d \in DOMAIN s : s[c] = s[d] => c = d
IdsOf(s) == {s[c] : c \in DOMAIN s}

(* The ids of a list: any of those before it, or the next two ids.         *)
After(ids, fresh) ==
  {s \in UNION {[1 .. n -> IdsOf(ids) \cup {fresh, fresh + 1}] : n \in 0 .. 2} :
     Distinct(s) /\ (fresh + 1 \in IdsOf(s) => s[1] = fresh)}

Beginnings == {<<>>, <<1>>, <<1, 2>>}

NoMap == <<>>
MapTo(k, S) == [i \in {k} |-> S]

(* The list of frame k: neighbouring frames overlap where a cluster keeps  *)
(* its place.  Repeating lists have uuids that start over.                 *)
Frame(k, ids, before, splits, merges, repeating) ==
  [time |-> k, rank |-> 2,
   clusters |-> [c \in DOMAIN ids |->
     [id |-> ids[c], uuid |-> IF repeating THEN c ELSE 2 * k + c - 2,
      cells |-> {10 * c + k, 10 * c + k + 1}, value |-> 10 * k + c]],
   tracked |-> IdsOf(ids) \cap IdsOf(before), splits |-> splits, merges |-> merges]

(* What tracking may have found besides: that the first cluster before     *)
(* has split, or that the first one now is merged from all before.         *)
Splits(ids, before) ==
  {NoMap} \cup IF Len(before) > 0 /\ Len(ids) = 2 THEN {MapTo(before[1], IdsOf(ids))} ELSE {}
Merges(ids, before) ==
  {NoMap} \cup IF Len(before) = 2 /\ Len(ids) > 0 THEN {MapTo(ids[1], IdsOf(before))} ELSE {}

FramesAfter(k, before, fresh) ==
  UNION {{Frame(k, ids, before, s, m, FALSE) : s \in Splits(ids, before), m \in Merges(ids, before)} :
           ids \in After(before, fresh)}

IdsIn(list) == [c \in DOMAIN list.clusters |-> list.clusters[c].id]

FirstFrames == {Frame(1, ids, <<>>, NoMap, NoMap, FALSE) : ids \in Beginnings}

Chains ==
  UNION {UNION {{<<f, g, h>> : h \in FramesAfter(3, IdsIn(g), 5)} :
                  g \in FramesAfter(2, IdsIn(f), 3)} : f \in FirstFrames}

(* Two frames, in either order, and an entry of another kind anywhere.     *)
Mixed ==
  LET Pairs == UNION {{<<f, g>>, <<g, f>>} : <<f, g>> \in
                 UNION {{<<f, g>> : g \in FramesAfter(2, IdsIn(f), 3)} : f \in FirstFrames}}
  IN  Pairs \cup UNION {{<<x>> \o d, <<d[1], x, d[2]>>, d \o <<x>>} : x \in Unread, d \in Pairs}

(* A frame of another rank, and frames whose uuids repeat.                 *)
Odd ==
  LET f == Frame(1, <<1, 2>>, <<>>, NoMap, NoMap, TRUE)
      g == Frame(2, <<2, 1>>, <<1, 2>>, NoMap, MapTo(2, {1, 2}), TRUE)
  IN  {<<f, g>>, <<f, [g EXCEPT !.rank = 3]>>}

Input(d, exclude, cumulated) ==
  [dir |-> d, exclude_degenerates |-> exclude, length |-> ~cumulated, cumulated |-> cumulated,
   dictionary |-> exclude, leftover |-> [u \in {1, 4} |-> {99}]]

MCInputs ==
  {Input(d, TRUE, FALSE) : d \in Chains} \cup
  {Input(d, e, c) : d \in Mixed \cup Odd, e \in BOOLEAN, c \in BOOLEAN}

MCCells == 0 .. 99
MCBins == <<1, 2>>
=============================================================================
