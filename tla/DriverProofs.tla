---------------------------- MODULE DriverProofs ----------------------------
(***************************************************************************)
(* For any number of frames, launches and interrupts, over files or time   *)
(* indices, inline or not, and whatever the started programs leave: the    *)
(* types, no launch that does not resume leaves a frame tracked against    *)
(* anything but the list of the frame before it; and, unless programs fail,*)
(* frames are complete, their number is where to resume, and statistics    *)
(* stay true of them across interrupted and resumed launches.              *)
(***************************************************************************)
EXTENDS Experiment, FiniteSetTheorems, TLAPS

Running == {"run", "frame", "track", "end"}

(* Where a launch that does not resume has come to.                        *)
FreshProgress ==
  ~resume =>
    /\ pc \in Running => \A f \in Frames : f > frame => output[f] = Absent
    /\ pc \in Running \ {"run"} => resume_at_index = 0 /\ last \in {None, frame - 1}
    /\ pc \in {"run", "frame"} => output[frame] = Absent

IInv == TypeOK /\ FreshProgress /\ FreshTrackedIsLinked

(* The contents of the files, and the frames that are linked.              *)
FilesOK ==
  /\ output \in [Frames -> {Absent, Torn, Partial, Detected, Tracked}]
  /\ linked \subseteq Frames /\ \A f \in linked : output[f] = Tracked
  /\ dirs \in BOOLEAN

-----------------------------------------------------------------------------
(* A launch has some of the frames, and works on one of them.              *)
LEMMA OnFrame ==
  ASSUME TypeOK
  PROVE  /\ Sources \subseteq Frames /\ Start \in Sources
         /\ until \in Nat /\ since \in Nat /\ since <= until /\ until <= End /\ Start < until
         /\ pc # "idle" => frame \in Frames /\ frame \in Sources
  BY DriverAssumption DEF TypeOK, Sources, Frames

(* More sources are among all frames still.                                *)
LEMMA MoreSources ==
  \A u, v \in Nat : Start < u /\ u <= v /\ v <= End =>
    /\ Start .. u - 1 \subseteq Start .. v - 1 /\ Start .. v - 1 \subseteq Start .. End - 1
    /\ Start \in Start .. v - 1 /\ Start .. v - 1 \subseteq Start .. v
  BY DriverAssumption

(* The number of files is a number.                                        *)
LEMMA WrittenCount == Cardinality(Written) \in Nat
  <1>1. IsFiniteSet(Frames)
    BY DriverAssumption, Start \in Int /\ End - 1 \in Int, FS_Interval DEF Frames
  <1>2. Written \subseteq Frames
    BY DEF Written
  <1> QED
    BY <1>1, <1>2, FS_Subset, FS_CardinalityType

(* The invariant holds when a launch begins. *)
LEMMA InitInv == ASSUME Init PROVE IInv
  <1>1. TypeOK
    <2>1. output \in [Frames -> {Absent, Torn, Partial, Detected, Tracked}]
      BY DEF Init, NoFiles
    <2>2. until \in Start + 1 .. End /\ since \in Start + 1 .. until /\ frame \in Start .. until
      BY DriverAssumption DEF Init
    <2>3. Written = {}
      BY DEF Init, NoFiles, Written
    <2> QED
      BY <2>1, <2>2, <2>3 DEF Init, TypeOK
  <1>2. FreshProgress
    BY DEF Init, FreshProgress, Running
  <1>3. FreshTrackedIsLinked
    BY DriverAssumption DEF Init, FreshTrackedIsLinked, NoFiles
  <1> QED
    BY <1>1, <1>2, <1>3 DEF IInv

(* No files at all.                                                        *)
LEMMA NoFilesOK ==
  ASSUME dirs' \in BOOLEAN, output' = NoFiles, linked' = {}
  PROVE  FilesOK' /\ \A f \in Frames : output'[f] = Absent
  BY DEF FilesOK, NoFiles, Frames

(* A started program changes no file but the one of the frame, and leaves  *)
(* a frame tracked only when it has tracked it against the frame before.   *)
LEMMA CommandFiles ==
  ASSUME TypeOK, frame \in Frames,
         NEW runs, NEW list \in {Detected, Tracked}, Command(runs, list)
  PROVE  /\ FilesOK'
         /\ \A f \in Frames : f # frame => output'[f] = output[f]
         /\ \A f \in Frames : f < frame /\ f \in linked => f \in linked'
         /\ /\ last = frame - 1 \/ list = Detected
            /\ output[frame] = Tracked => frame \in linked
            => (output'[frame] = Tracked => frame \in linked')
  <1> DEFINE Goal ==
        /\ FilesOK'
        /\ \A f \in Frames : f # frame => output'[f] = output[f]
        /\ \A f \in Frames : f < frame /\ f \in linked => f \in linked'
        /\ /\ last = frame - 1 \/ list = Detected
           /\ output[frame] = Tracked => frame \in linked
           => (output'[frame] = Tracked => frame \in linked')
  <1>1. frame \in Nat /\ \A f \in Frames : f \in Nat
    BY DriverAssumption DEF Frames
  <1>2. dirs' \in BOOLEAN
    BY DEF Command, TypeOK
  <1>3. CASE output' = output /\ linked' = linked
    BY <1>2, <1>3 DEF FilesOK, TypeOK
  <1>4. ASSUME NEW c \in {output[frame], Absent, Torn, Partial, list},
               output' = [output EXCEPT ![frame] = c],
               linked' =
                 IF c = list
                 THEN (linked \ {frame, frame + 1})
                        \cup {f \in {frame} : list = Tracked /\ last = frame - 1}
                 ELSE IF c = output[frame] THEN linked
                 ELSE linked \ {frame, frame + 1}
        PROVE  Goal
    <2>1. /\ output'[frame] = c
          /\ \A f \in Frames : f # frame => output'[f] = output[f]
      BY <1>4 DEF TypeOK
    <2>2. output[frame] \in {Absent, Torn, Partial, Detected, Tracked}
      BY DEF TypeOK
    <2>3. output' \in [Frames -> {Absent, Torn, Partial, Detected, Tracked}]
      BY <1>4, <2>2 DEF TypeOK
    <2>4. CASE c = list
      <3>1. linked' = (linked \ {frame, frame + 1})
                        \cup {f \in {frame} : list = Tracked /\ last = frame - 1}
        BY <1>4, <2>4
      <3>2. FilesOK'
        BY <1>2, <2>1, <2>3, <2>4, <3>1 DEF FilesOK, TypeOK
      <3>3. \A f \in Frames : f < frame /\ f \in linked => f \in linked'
        BY <1>1, <3>1
      <3>4. list = Detected => output'[frame] # Tracked
        BY <2>1, <2>4, DriverAssumption
      <3>5. list = Tracked /\ last = frame - 1 => frame \in linked'
        BY <3>1
      <3> QED
        BY <2>1, <3>2, <3>3, <3>4, <3>5
    <2>5. CASE c # list /\ c = output[frame]
      <3>1. linked' = linked
        BY <1>4, <2>5
      <3>2. output' = output
        BY <1>4, <2>5 DEF TypeOK
      <3> QED
        BY <1>2, <3>1, <3>2 DEF FilesOK, TypeOK
    <2>6. CASE c # list /\ c # output[frame]
      <3>1. linked' = linked \ {frame, frame + 1}
        BY <1>4, <2>6
      <3>2. FilesOK'
        BY <1>2, <2>1, <2>3, <3>1 DEF FilesOK, TypeOK
      <3>3. \A f \in Frames : f < frame /\ f \in linked => f \in linked'
        BY <1>1, <3>1
      <3>4. output'[frame] # Tracked
        BY <1>4, <2>1, <2>6, DriverAssumption
      <3> QED
        BY <2>1, <3>2, <3>3, <3>4
    <2> QED
      BY <2>4, <2>5, <2>6
  <1>5. \A c \in File!Outcomes(output[frame], list) \cup {list} :
          c \in {output[frame], Absent, Torn, Partial, list}
    BY DEF File!Outcomes
  <1> QED
    BY <1>3, <1>4, <1>5 DEF Command

(* The same of a launch that does not resume.                              *)
LEMMA CommandFresh ==
  ASSUME IInv, pc \in {"frame", "track"}, UNCHANGED <<resume, frame>>,
         NEW runs, NEW list \in {Detected, Tracked}, Command(runs, list),
         ~resume => last = frame - 1 \/ list = Detected
  PROVE  /\ FilesOK' /\ FreshTrackedIsLinked'
         /\ \A f \in Frames : f # frame => output'[f] = output[f]
         /\ ~resume => \A f \in Frames : f > frame => output'[f] = Absent
  <1>1. TypeOK /\ frame \in Frames /\ frame \in Nat /\ \A f \in Frames : f \in Nat
    BY DriverAssumption DEF IInv, TypeOK, Frames, Sources
  <1>2. FilesOK' /\ \A f \in Frames : f # frame => output'[f] = output[f]
    BY <1>1, CommandFiles
  <1>3. ~resume => \A f \in Frames : f > frame => output'[f] = Absent
    BY <1>1, <1>2 DEF IInv, FreshProgress, Running
  <1>4. FreshTrackedIsLinked'
    <2> SUFFICES ASSUME ~resume, NEW f \in Frames, output'[f] = Tracked
                 PROVE  f \in linked'
      BY DEF FreshTrackedIsLinked
    <2>1. CASE f > frame
      BY <1>3, <2>1, DriverAssumption
    <2>2. CASE f = frame
      BY <1>1, <2>2, CommandFiles DEF IInv, FreshTrackedIsLinked
    <2>3. CASE f < frame
      <3>1. f \in linked
        BY <1>1, <1>2, <2>3 DEF IInv, FreshTrackedIsLinked
      <3> QED
        BY <1>1, <2>3, <3>1, CommandFiles
    <2> QED
      BY <1>1, <2>1, <2>2, <2>3
  <1> QED
    BY <1>2, <1>3, <1>4

(* Every step of the driver keeps the invariant.                           *)
LEMMA StepInv == ASSUME IInv, [Next]_vars PROVE IInv'
  <1> USE DEF IInv, Running
  <1>f. /\ frame \in Start .. until /\ frame \in Nat /\ \A f \in Frames : f \in Nat
        /\ until \in Start + 1 .. End /\ since \in Start + 1 .. until /\ Sources \subseteq Frames
    BY DriverAssumption DEF TypeOK, Frames, Sources
  <1>s. Launch \/ UNCHANGED <<until, since>>
    BY DEF Next, Step, Run, Skip, Detect, Track, TrackRaises, NoTrack, EndFrame,
           Interrupt, counts, setting, vars
  <1>m. /\ mode' \in Modes /\ until' \in Start + 1 .. End /\ since' \in Start + 1 .. until'
        /\ Sources \subseteq Sources' /\ Sources' \subseteq Frames /\ Start \in Sources'
        /\ Sources' \subseteq Start .. until'
    <2>1. mode \in Modes
      BY DEF TypeOK
    <2>2. mode' = mode
      BY DEF Next, Step, Launch, Run, Skip, Detect, Track, TrackRaises, NoTrack, EndFrame,
             Interrupt, counts, setting, vars
    <2>3. until' \in until .. End /\ since' \in {since, until'}
      BY <1>f, <1>s DEF Launch
    <2>4. /\ Start \in Nat /\ End \in Nat /\ until \in Nat /\ since \in Nat /\ until' \in Nat
          /\ Start < since /\ since <= until /\ Start < until /\ until <= until' /\ until' <= End
      BY <1>f, <2>3, DriverAssumption
    <2>5. until' \in Start + 1 .. End /\ since' \in Start + 1 .. until'
      BY <2>3, <2>4
    <2>6. Sources = Start .. until - 1 /\ Sources' = Start .. until' - 1
      BY DEF Sources
    <2>7. /\ Start .. until - 1 \subseteq Start .. until' - 1
          /\ Start .. until' - 1 \subseteq Start .. End - 1
          /\ Start \in Start .. until' - 1 /\ Start .. until' - 1 \subseteq Start .. until'
      BY <2>4, MoreSources, Zenon
    <2>8. /\ Sources \subseteq Sources' /\ Sources' \subseteq Frames /\ Start \in Sources'
          /\ Sources' \subseteq Start .. until'
      BY <2>6, <2>7, Zenon DEF Frames
    <2> QED
      BY <2>1, <2>2, <2>5, <2>8
  <1>w. ASSUME \/ output' = output
               \/ \A f \in Frames : output'[f] = Absent
               \/ \A f \in Frames : f # frame => output'[f] = output[f],
               frame \in Sources
        PROVE  Written' \subseteq Sources'
    <2>1. Written \subseteq Sources
      BY DEF TypeOK
    <2> QED
      BY <1>m, <1>w, <2>1 DEF Written
  <1>p. ASSUME Proceed, frame \in Sources, ~Launch
        PROVE  /\ frame' = frame + 1 /\ frame' \in Start .. until'
               /\ pc' \in {"idle", "run", "frame"}
               /\ pc' # "idle" => frame' \in Sources'
    BY <1>f, <1>s, <1>p, DriverAssumption DEF Proceed, Sources
  <1>1. CASE Launch
    <2>1. FilesOK'
      BY <1>1, NoFilesOK DEF Launch, FilesOK, TypeOK, files
    <2>2. /\ frame' = Start /\ resume' \in BOOLEAN
          /\ pc' = "run"
          /\ resume_at_index' = resume_at_index /\ run_count' = run_count /\ last' = last
      BY <1>1 DEF Launch
    <2>3. Start \in Start .. until' /\ Start \in Sources' /\ Start \in Frames
      BY <1>m
    <2>w. Written' \subseteq Sources'
      <3>1. \/ output' = output
            \/ \A f \in Frames : output'[f] = Absent
        BY <1>1, NoFilesOK DEF Launch, files
      <3>2. Written \subseteq Sources
        BY DEF TypeOK
      <3> QED
        BY <1>m, <3>1, <3>2 DEF Written
    <2>4. TypeOK'
      BY <1>m, <2>1, <2>2, <2>3, <2>w DEF TypeOK, FilesOK
    <2>5. ~resume' => \A f \in Frames : output'[f] = Absent
      BY <1>1, NoFilesOK DEF Launch
    <2>6. FreshProgress'
      BY <1>m, <2>2, <2>3, <2>5 DEF FreshProgress
    <2>7. FreshTrackedIsLinked'
      BY <2>5, DriverAssumption DEF FreshTrackedIsLinked
    <2> QED
      BY <2>4, <2>6, <2>7
  <1>2. CASE Run
    <2>1. frame \in Sources /\ frame \in Frames /\ resume' = resume /\ ~Launch
      BY <1>2, <1>f DEF Run, TypeOK, Launch
    <2>2. /\ FilesOK'
          /\ \/ output' = output /\ linked' = linked
             \/ \A f \in Frames : output'[f] = Absent
      BY <1>2, NoFilesOK DEF Run, FilesOK, TypeOK, files
    <2>3. resume_at_index' \in Nat /\ (~resume => resume_at_index' = 0)
      BY <1>2, WrittenCount DEF Run
    <2>4. /\ run_count' \in Nat /\ last' \in Frames \cup {None, Start - 1}
          /\ frame' \in Start .. until'
          /\ pc' \in {"idle", "run", "frame"} /\ (pc' # "idle" => frame' \in Sources')
      <3>1. CASE BeforeResume(resume_at_index')
        BY <1>2, <1>p, <2>1, <3>1 DEF Run, TypeOK
      <3>2. CASE ~BeforeResume(resume_at_index')
        <4>1. /\ run_count' = IF TimeSteps THEN frame + 1 ELSE 0
              /\ last' = IF TimeSteps THEN frame - 1 ELSE None
              /\ pc' = "frame" /\ frame' = frame
          BY <1>2, <3>2 DEF Run
        <4>2. frame - 1 \in Frames \cup {Start - 1}
          BY <2>1, DriverAssumption DEF Frames
        <4> QED
          BY <1>f, <1>m, <2>1, <4>1, <4>2
      <3> QED
        BY <3>1, <3>2
    <2>w. Written' \subseteq Sources'
      BY <1>w, <2>1, <2>2
    <2>5. TypeOK'
      BY <1>m, <2>1, <2>2, <2>3, <2>4, <2>w DEF TypeOK, FilesOK
    <2>6. ~resume => /\ pc' = "frame" /\ frame' = frame
                     /\ last' \in {None, frame - 1}
      <3>1. ~resume => ~BeforeResume(resume_at_index')
        BY <1>f, <2>3 DEF BeforeResume
      <3> QED
        BY <1>2, <3>1 DEF Run
    <2>7. ~resume => \A f \in Frames : f >= frame => output'[f] = Absent
      BY <1>2, <1>f, <2>1, <2>2 DEF Run, FreshProgress
    <2>8. FreshProgress'
      <3>1. CASE resume
        BY <2>1, <3>1 DEF FreshProgress
      <3>2. CASE ~resume
        <4>1. frame' = frame /\ pc' = "frame" /\ last' \in {None, frame - 1} /\ resume_at_index' = 0
          BY <2>3, <2>6, <3>2
        <4>2. \A f \in Frames : f > frame => output'[f] = Absent
          BY <1>f, <2>7, <3>2
        <4>3. output'[frame] = Absent
          BY <1>f, <2>1, <2>7, <3>2
        <4> QED
          BY <4>1, <4>2, <4>3 DEF FreshProgress
      <3> QED
        BY <3>1, <3>2
    <2>9. FreshTrackedIsLinked'
      BY <2>1, <2>2, DriverAssumption DEF FreshTrackedIsLinked
    <2> QED
      BY <2>5, <2>8, <2>9
  <1>3. CASE Skip
    <2>1. /\ frame \in Sources /\ Proceed /\ resume' = resume /\ run_count' = run_count + 1
          /\ resume_at_index' = resume_at_index /\ last' = last /\ ~Launch
          /\ output' = output /\ linked' = linked /\ dirs' = dirs
      BY <1>3 DEF Skip, TypeOK, files, Launch
    <2>2. resume
      BY <1>3 DEF Skip, FreshProgress
    <2>3. TypeOK'
      BY <1>m, <1>p, <1>w, <2>1 DEF TypeOK
    <2> QED
      BY <2>1, <2>2, <2>3 DEF FreshProgress, FreshTrackedIsLinked
  <1>4. CASE Detect
    <2>1. /\ frame \in Sources /\ frame \in Frames /\ pc' \in {"end", "track"} /\ resume' = resume
          /\ resume_at_index' = resume_at_index /\ run_count' = run_count
          /\ frame' = frame /\ last' = last
      BY <1>f, <1>4 DEF Detect, TypeOK, loop
    <2> DEFINE given == HavePrevious /\ (Inline \/ UsePrevious)
               runs == given => IsList(last)
               list == IF Inline /\ HavePrevious THEN Tracked ELSE Detected
    <2>2. Command(runs, list) /\ list \in {Detected, Tracked}
      BY <1>4 DEF Detect
    <2>r. list = Tracked => last # None
      BY DriverAssumption DEF HavePrevious
    <2> HIDE DEF runs, list
    <2>3. ~resume => last = frame - 1 \/ list = Detected
      BY <1>4, <2>2, <2>r DEF Detect, FreshProgress
    <2>4. /\ FilesOK' /\ FreshTrackedIsLinked'
          /\ \A f \in Frames : f # frame => output'[f] = output[f]
          /\ ~resume => \A f \in Frames : f > frame => output'[f] = Absent
      BY <1>4, <2>1, <2>2, <2>3, CommandFresh DEF Detect
    <2>5. TypeOK'
      BY <1>m, <1>w, <2>1, <2>4 DEF TypeOK, FilesOK
    <2>6. FreshProgress'
      BY <1>4, <2>1, <2>4 DEF Detect, FreshProgress
    <2> QED
      BY <2>4, <2>5, <2>6
  <1>5. CASE Track
    <2>1. /\ frame \in Sources /\ frame \in Frames /\ pc' = "end" /\ resume' = resume
          /\ resume_at_index' = resume_at_index /\ run_count' = run_count
          /\ frame' = frame /\ last' = last /\ last # None
      BY <1>f, <1>5 DEF Track, TypeOK, loop
    <2>2. Command(IsList(last) /\ IsList(frame), Tracked)
      BY <1>5 DEF Track
    <2>3. ~resume => last = frame - 1
      BY <1>5, <2>1 DEF Track, FreshProgress
    <2>4. /\ FilesOK' /\ FreshTrackedIsLinked'
          /\ \A f \in Frames : f # frame => output'[f] = output[f]
          /\ ~resume => \A f \in Frames : f > frame => output'[f] = Absent
      BY <1>5, <2>1, <2>2, <2>3, CommandFresh DEF Track
    <2>5. TypeOK'
      BY <1>m, <1>w, <2>1, <2>4 DEF TypeOK, FilesOK
    <2>6. FreshProgress'
      BY <1>5, <2>1, <2>4 DEF Track, FreshProgress
    <2> QED
      BY <2>4, <2>5, <2>6
  <1>6. CASE TrackRaises \/ NoTrack \/ Interrupt
    <2>1. /\ pc' \in {"raised", "end", "interrupted"}
          /\ pc' = "end" => pc = "track"
          /\ pc # "idle"
          /\ resume' = resume /\ resume_at_index' = resume_at_index
          /\ run_count' = run_count /\ frame' = frame /\ last' = last
          /\ dirs' = dirs /\ output' = output /\ linked' = linked
          /\ UNCHANGED <<until, since>>
      BY <1>6 DEF TrackRaises, NoTrack, Interrupt, loop, files, counts, setting
    <2>2. TypeOK'
      BY <1>m, <2>1 DEF TypeOK, Sources, Written
    <2> QED
      BY <2>1, <2>2 DEF FreshProgress, FreshTrackedIsLinked
  <1>7. CASE EndFrame
    <2>1. /\ frame \in Sources /\ Proceed /\ resume' = resume /\ run_count' = run_count + 1
          /\ resume_at_index' = resume_at_index /\ last' = frame /\ ~Launch
          /\ output' = output /\ linked' = linked /\ dirs' = dirs
      BY <1>7 DEF EndFrame, TypeOK, files, Launch
    <2>2. TypeOK'
      BY <1>f, <1>m, <1>p, <1>w, <2>1 DEF TypeOK
    <2>3. ~resume => /\ \A f \in Frames : f > frame => output[f] = Absent
                     /\ resume_at_index = 0
      BY <1>7 DEF EndFrame, FreshProgress
    <2>4. FreshProgress'
      BY <1>f, <1>m, <1>p, <2>1, <2>3 DEF FreshProgress
    <2> QED
      BY <2>1, <2>2, <2>4 DEF FreshTrackedIsLinked
  <1>8. CASE UNCHANGED vars
    BY <1>8 DEF vars, loop, files, counts, setting, TypeOK, Sources, Written,
           FreshProgress, FreshTrackedIsLinked
  <1> QED
    BY <1>1, <1>2, <1>3, <1>4, <1>5, <1>6, <1>7, <1>8 DEF Next, Step

(* The invariant of every launch.                                          *)
THEOREM DriverInvariant == Spec => []IInv
  <1>1. Init => IInv
    BY InitInv
  <1>2. IInv /\ [Next]_vars => IInv'
    BY StepInv
  <1> QED
    BY <1>1, <1>2, PTL DEF Spec

(* Types, and only tracked frames are linked.                              *)
THEOREM DriverTypes == Spec => []TypeOK
  <1>1. IInv => TypeOK
    BY DEF IInv
  <1> QED
    BY <1>1, DriverInvariant, PTL

(* app.tracking.run, not resuming, leaves no frame tracked against         *)
(* anything but what the file of the frame before it holds.                *)
THEOREM FreshLinks == Spec => []FreshTrackedIsLinked
  <1>1. IInv => FreshTrackedIsLinked
    BY DEF IInv
  <1> QED
    BY <1>1, DriverInvariant, PTL

-----------------------------------------------------------------------------
(* A step of the experiment is one of the driver, or leaves it as it is.   *)
LEMMA ExperimentStep == [ENext]_evars => [Next]_vars
  BY DEF ENext, evars, ELaunch, Tracking, PostStep, InterruptPost, BeginPostprocessing,
         SkipStatistics, Statistics, StatisticsFail, Plot, Cleanup, Next

(* The driver with its postprocessing implements the driver: what holds of *)
(* the files of the loops holds behind the postprocessing.                 *)
THEOREM ExperimentImplementsDriver == ExperimentSpec => Init /\ [][Next]_vars
  <1>1. EInit => Init
    BY DEF EInit
  <1> QED
    BY <1>1, ExperimentStep, PTL DEF ExperimentSpec

(* Without failing programs no file is torn or partial.                    *)
WholeFiles ==
  ~CommandsFail => \A f \in Frames : output[f] \in {Absent, Detected, Tracked}

MadeOfLists ==
  \A k \in Kinds :
    /\ results[k] \in {NoFile, Torn, Covered}
    /\ ~CommandsFail => results[k] = IF Made(k) THEN Covered ELSE NoFile

(* There are no statistics before a launch that does not resume has made   *)
(* them, and the loops are over then.                                      *)
EInv ==
  /\ stage \in {"tracking", "statistics", "plot", "cleanup", "over", "interrupted"}
  /\ stage # "tracking" => pc = "idle"
  /\ ~resume =>
       /\ stage \in {"tracking", "statistics"} => results = NoResults
       /\ stage \in {"plot", "cleanup", "over"} /\ launched > 0 /\ dirs => MadeOfLists

(* Programs that do not fail write whole files.                            *)
LEMMA StepWholeFiles ==
  ASSUME TypeOK, WholeFiles, [Next]_vars
  PROVE  WholeFiles'
  <1> SUFFICES ASSUME ~CommandsFail', NEW f \in Frames
               PROVE  output'[f] \in {Absent, Detected, Tracked}
    BY DEF WholeFiles, Frames
  <1>1. ~CommandsFail /\ output[f] \in {Absent, Detected, Tracked}
    BY DEF CommandsFail, Next, Step, Launch, Run, Skip, Detect, Track, TrackRaises, NoTrack,
           EndFrame, Interrupt, vars, counts, setting, WholeFiles
  <1>2. ASSUME NEW runs, NEW list \in {Detected, Tracked}, Command(runs, list)
        PROVE  output'[f] \in {Absent, Detected, Tracked}
    BY <1>1, <1>2 DEF Command, TypeOK
  <1>3. output' = output \/ output' = NoFiles
        \/ \E runs \in BOOLEAN, list \in {Detected, Tracked} : Command(runs, list)
    <2>1. CASE Detect
      BY <2>1 DEF Detect, IsList
    <2>2. CASE Track
      BY <2>2 DEF Track, IsList
    <2>3. CASE UNCHANGED vars
      BY <2>3 DEF vars, files
    <2> QED
      BY <2>1, <2>2, <2>3 DEF Next, Step, Launch, Run, Skip, TrackRaises, NoTrack, EndFrame,
           Interrupt, files
  <1> QED
    BY <1>1, <1>2, <1>3 DEF NoFiles

(* Nothing changes for the statistics while the driver stands still.       *)
LEMMA SameLists ==
  ASSUME UNCHANGED <<vars, wanted>>
  PROVE  /\ pc' = pc /\ resume' = resume /\ dirs' = dirs /\ launched' = launched
         /\ Covered' = Covered /\ CommandsFail' = CommandsFail
         /\ \A k : Made(k)' = Made(k)
  BY DEF vars, files, counts, setting, Covered, IsList, CommandsFail, Made, Gnuplot

(* Launches without --resume make statistics where there are none.         *)
LEMMA StepEInv ==
  ASSUME TypeOK, WholeFiles, EInv, [ENext]_evars
  PROVE  EInv'
  <1>1. CASE ELaunch
    BY <1>1 DEF ELaunch, EInv
  <1>2. CASE Tracking
    <2>1. pc # "idle" /\ UNCHANGED <<stage, results>>
      BY <1>2 DEF Tracking, Step, Interrupt, Run, Skip, Detect, Track, TrackRaises, NoTrack,
             EndFrame, post
    <2>2. resume' = resume
      BY <1>2 DEF Tracking, Step, Interrupt, Run, Skip, Detect, Track, TrackRaises, NoTrack, EndFrame
    <2> QED
      BY <2>1, <2>2 DEF EInv
  <1>3. CASE BeginPostprocessing \/ SkipStatistics
    <2>1. UNCHANGED <<vars, wanted>> /\ UNCHANGED results
      BY <1>3 DEF BeginPostprocessing, SkipStatistics
    <2>2. \/ stage = "tracking" /\ pc = "idle" /\ stage' = IF dirs THEN "statistics" ELSE "over"
          \/ resume /\ stage = "statistics" /\ stage' = "plot"
      BY <1>3 DEF BeginPostprocessing, SkipStatistics
    <2> QED
      BY <2>1, <2>2, SameLists DEF EInv
  <1>4. CASE Statistics \/ StatisticsFail
    <2>1. UNCHANGED <<vars, wanted>> /\ stage = "statistics" /\ stage' \in {"plot", "cleanup"}
      BY <1>4 DEF Statistics, StatisticsFail
    <2>2. ASSUME ~resume PROVE MadeOfLists'
      <3>1. results = NoResults /\ \A k \in Kinds : results[k] = NoFile
        BY <2>1, <2>2 DEF EInv, NoResults
      <3>2. CASE Statistics
        <4>1. \A k \in Kinds : results'[k] = IF Made(k) THEN Covered ELSE NoFile
          BY <3>1, <3>2 DEF Statistics
        <4> QED
          BY <2>1, <4>1, SameLists DEF MadeOfLists
      <3>3. CASE StatisticsFail
        <4>1. CommandsFail
          <5>1. ~CommandsFail => Broken = {}
            BY DEF WholeFiles, Broken, Written, IsList
          <5> QED
            BY <3>3, <5>1 DEF StatisticsFail
        <4>2. \A k \in Kinds : results'[k] \in Outcome(k)
          BY <3>3, <4>1 DEF StatisticsFail
        <4>3. \A k \in Kinds : results'[k] \in {NoFile, Torn, Covered}
          BY <3>1, <4>2 DEF Outcome
        <4> QED
          BY <2>1, <4>1, <4>3, SameLists DEF MadeOfLists
      <3> QED
        BY <1>4, <3>2, <3>3
    <2> QED
      BY <2>1, <2>2, SameLists DEF EInv
  <1>5. CASE Plot \/ Cleanup
    <2>1. UNCHANGED <<vars, wanted>> /\ UNCHANGED results
      BY <1>5 DEF Plot, Cleanup
    <2>2. stage \in {"plot", "cleanup"} /\ stage' \in {"cleanup", "over"}
      BY <1>5 DEF Plot, Cleanup
    <2> QED
      BY <2>1, <2>2, SameLists DEF EInv, MadeOfLists
  <1>6. CASE InterruptPost
    <2>1. UNCHANGED <<vars, wanted>> /\ stage' = "interrupted" /\ stage # "tracking"
      BY <1>6 DEF InterruptPost
    <2> QED
      BY <2>1, SameLists DEF EInv
  <1>7. CASE UNCHANGED evars
    <2>1. UNCHANGED <<vars, wanted>> /\ UNCHANGED <<stage, results>>
      BY <1>7 DEF evars, post
    <2> QED
      BY <2>1, SameLists DEF EInv, MadeOfLists
  <1> QED
    BY <1>1, <1>2, <1>3, <1>4, <1>5, <1>6, <1>7 DEF ENext, PostStep

-----------------------------------------------------------------------------
(* What a program that does not fail has done: its work, if it could run.  *)
LEMMA CommandDone ==
  ASSUME TypeOK, frame \in Frames, ~CommandsFail,
         NEW runs, NEW list \in {Detected, Tracked}, Command(runs, list)
  PROVE  /\ dirs' = dirs
         /\ \/ (~runs \/ ~dirs) /\ UNCHANGED <<output, linked>>
            \/ /\ runs /\ dirs
               /\ output'[frame] = list
               /\ \A f \in Frames : f # frame => output'[f] = output[f]
               /\ linked' = (linked \ {frame, frame + 1})
                              \cup {f \in {frame} : list = Tracked /\ last = frame - 1}
  BY DEF Command, TypeOK

(* Files without a gap before frame f, of which there are more than f.     *)
LEMMA CountReaches ==
  ASSUME NEW f \in Frames, \A g \in Written : Start .. g \subseteq Written,
         f < Cardinality(Written)
  PROVE  f \in Written
  <1> SUFFICES ASSUME f \notin Written PROVE FALSE
    OBVIOUS
  <1>1. f \in Nat /\ Start \in Nat /\ Start <= f /\ Written \subseteq Frames /\ Frames \subseteq Int
    BY DriverAssumption DEF Frames, Written
  <1>2. Written \subseteq Start .. f - 1
    <2> SUFFICES ASSUME NEW g \in Written PROVE g \in Start .. f - 1
      OBVIOUS
    <2>1. g \in Int /\ Start <= g
      BY DriverAssumption DEF Frames, Written
    <2>2. ~(f <= g)
      BY <1>1, <2>1
    <2> QED
      BY <1>1, <2>1, <2>2
  <1>3. IsFiniteSet(Start .. f - 1) /\ Cardinality(Start .. f - 1) <= f
    <2>1. /\ IsFiniteSet(Start .. f - 1)
          /\ Cardinality(Start .. f - 1) = IF Start > f - 1 THEN 0 ELSE (f - 1) - Start + 1
      BY <1>1, FS_Interval
    <2> QED
      BY <1>1, <2>1
  <1>4. Cardinality(Written) <= Cardinality(Start .. f - 1)
    BY <1>2, <1>3, FS_Subset
  <1>5. Cardinality(Start .. f - 1) \in Nat
    BY <1>3, FS_CardinalityType
  <1> QED
    BY <1>1, <1>3, <1>4, <1>5, WrittenCount

(* Over time indices, and without failing programs: what the file of the   *)
(* frame before must be when a frame is worked on.                         *)
Steady ==
  TimeSteps /\ ~CommandsFail =>
    /\ NoGaps
    /\ ~dirs => Written = {}
    /\ pc \in {"frame", "track", "end"} => run_count = frame + 1 /\ last = frame - 1
    /\ pc = "frame" => ~BeforeResume(resume_at_index)
    /\ pc \in Running /\ dirs /\ ~Inline /\ ~UsePrevious =>
         /\ Start .. frame - 1 \subseteq Written
         /\ pc \in {"track", "end"} => frame \in Written

(* The frame the loop goes on to comes behind one that has a file.         *)
LEMMA OneMore ==
  ASSUME NEW f \in Frames, Start .. f - 1 \subseteq Written, f \in Written
  PROVE  Start .. (f + 1) - 1 \subseteq Written
  BY DriverAssumption DEF Frames

(* A step keeps that, as far as the loops are concerned.                   *)
LEMMA StepSteady ==
  ASSUME TypeOK, Steady, [Next]_vars
  PROVE  Steady'
  <1> SUFFICES ASSUME TimeSteps, ~CommandsFail PROVE Steady'
    <2>1. UNCHANGED mode
      BY DEF Next, Step, Launch, Run, Skip, Detect, Track, TrackRaises, NoTrack, EndFrame,
             Interrupt, vars, counts, setting
    <2> QED
      BY <2>1 DEF Steady, TimeSteps, CommandsFail
  <1> USE DEF Running
  <1>1. /\ \A f \in Frames : f \in Nat /\ Start <= f
        /\ NoGaps /\ (~dirs => Written = {})
        /\ Written \subseteq Frames
    BY DriverAssumption DEF Steady, Frames, Written
  <1>2. Start .. Start - 1 = {} /\ (pc # "idle" => frame \in Frames)
    BY OnFrame, DriverAssumption
  <1>3. ASSUME UNCHANGED <<mode, dirs, output>>
        PROVE  NoGaps' /\ (~dirs' => Written' = {}) /\ Written' = Written
    BY <1>1, <1>3 DEF NoGaps, Written, TimeSteps, CommandsFail
  <1>4. ASSUME UNCHANGED mode, output' = NoFiles
        PROVE  NoGaps' /\ Written' = {}
    BY <1>4 DEF NoGaps, Written, NoFiles
  <1>5. CASE Launch
    <2>1. UNCHANGED mode /\ frame' = Start /\ pc' \in {"idle", "run"}
          /\ (UNCHANGED <<dirs, output>> \/ output' = NoFiles)
      BY <1>5 DEF Launch, files
    <2>2. pc' = "run" => Start .. frame' - 1 = {}
      BY <1>2, <2>1
    <2> QED
      BY <1>3, <1>4, <2>1, <2>2 DEF Steady
  <1>6. CASE Run
    <2>1. /\ UNCHANGED mode /\ pc = "run" /\ frame \in Frames
          /\ \/ UNCHANGED <<dirs, output>> /\ (resume \/ ~(frame <= 0))
             \/ ~resume /\ frame <= 0 /\ dirs' = TRUE /\ output' = NoFiles
      BY <1>2, <1>6 DEF Run, counts, setting, files
    <2>2. NoGaps' /\ (~dirs' => Written' = {})
      BY <1>3, <1>4, <2>1
    <2>3. dirs' /\ ~Inline /\ ~UsePrevious => Start .. frame - 1 \subseteq Written'
      <3>1. CASE UNCHANGED <<dirs, output>>
        BY <1>3, <2>1, <3>1 DEF Steady
      <3>2. CASE frame <= 0
        BY <1>1, <2>1, <3>2, DriverAssumption
      <3> QED
        BY <2>1, <3>1, <3>2
    <2>4. CASE BeforeResume(resume_at_index')
      <3>1. resume /\ resume_at_index' = Cardinality(Written) /\ Proceed
        BY <1>1, <1>6, <2>1, <2>4, DriverAssumption DEF Run, BeforeResume
      <3>2. frame \in Written /\ UNCHANGED <<dirs, output>>
        BY <1>1, <2>1, <2>4, <3>1, CountReaches DEF NoGaps, BeforeResume
      <3>3. frame' = frame + 1 /\ pc' \in {"idle", "run"}
        BY <3>1 DEF Proceed
      <3>4. Written' = Written
        BY <1>3, <2>1, <3>2
      <3>5. dirs' /\ ~Inline /\ ~UsePrevious => Start .. frame' - 1 \subseteq Written'
        BY <2>1, <2>3, <3>2, <3>3, <3>4, OneMore
      <3> QED
        BY <2>1, <2>2, <3>3, <3>5 DEF Steady, Inline, UsePrevious
    <2>5. CASE ~BeforeResume(resume_at_index')
      <3>1. run_count' = frame + 1 /\ last' = frame - 1 /\ pc' = "frame" /\ frame' = frame
        BY <1>6, <2>5 DEF Run
      <3>2. ~BeforeResume(resume_at_index)'
        BY <2>1, <2>5, <3>1 DEF BeforeResume, TimeSteps
      <3> QED
        BY <2>1, <2>2, <2>3, <3>1, <3>2 DEF Steady, Inline, UsePrevious
    <2> QED
      BY <2>4, <2>5
  <1>7. CASE Skip
    <2>1. pc = "frame" /\ run_count <= resume_at_index /\ frame \in Frames /\ resume_at_index \in Nat
      BY <1>2, <1>7 DEF Skip, SkipCount, TypeOK
    <2>2. ~(frame < resume_at_index) /\ run_count = frame + 1
      BY <2>1 DEF Steady, BeforeResume
    <2> QED
      BY <1>1, <2>1, <2>2
  <1>8. CASE Detect \/ Track
    <2>1. /\ UNCHANGED <<mode, resume_at_index, run_count, last, frame>>
          /\ pc \in {"frame", "track"} /\ frame \in Frames /\ pc' \in {"track", "end"}
          /\ last = frame - 1 /\ run_count = frame + 1
      BY <1>2, <1>8 DEF Detect, Track, counts, setting, loop, Steady
    <2>2. PICK runs \in BOOLEAN, list \in {Detected, Tracked} :
            /\ Command(runs, list)
            /\ runs => last \in Written \/ (pc = "frame" /\ ~Inline /\ ~UsePrevious)
            /\ pc = "frame" /\ ~Inline /\ ~UsePrevious => runs
            /\ pc = "track" /\ runs => frame \in Written
      <3>1. CASE Detect
        <4>1. HavePrevious
          BY <1>1, <2>1, DriverAssumption DEF HavePrevious, None
        <4>2. Command(Inline \/ UsePrevious => IsList(last),
                      IF Inline /\ HavePrevious THEN Tracked ELSE Detected)
          BY <3>1, <4>1 DEF Detect
        <4>3. IsList(last) => last \in Written
          BY DriverAssumption DEF IsList, Written
        <4>4. pc = "frame"
          BY <3>1 DEF Detect
        <4>5. (Inline \/ UsePrevious => IsList(last)) \in BOOLEAN
          OBVIOUS
        <4> QED
          BY <4>2, <4>3, <4>4, <4>5 DEF Inline, UsePrevious
      <3>2. CASE Track
        <4>1. Command(IsList(last) /\ IsList(frame), Tracked) /\ pc = "track"
          BY <3>2 DEF Track
        <4>2. \A f : IsList(f) => f \in Written
          BY DriverAssumption DEF IsList, Written
        <4> QED
          BY <4>1, <4>2
      <3> QED
        BY <1>8, <3>1, <3>2
    <2>3. /\ dirs' = dirs
          /\ \/ (~runs \/ ~dirs) /\ UNCHANGED output
             \/ runs /\ dirs /\ output'[frame] = list /\ \A f \in Frames : f # frame => output'[f] = output[f]
      BY <2>1, <2>2, CommandDone
    <2>4. \/ (~runs \/ ~dirs) /\ Written' = Written
          \/ runs /\ dirs /\ Written' = Written \cup {frame}
      BY <2>1, <2>3, DriverAssumption DEF Written
    <2>5. Steady /\ (~dirs' => Written' = {})
      BY <1>1, <2>3, <2>4
    <2>6. Written' = Written \cup {frame} => Start .. frame - 1 \subseteq Written \/ frame \in Written
      <3>1. last \in Written => Start .. frame - 1 \subseteq Written
        BY <1>1, <2>1 DEF NoGaps
      <3> QED
        BY <2>2, <2>3, <2>4, <3>1 DEF Steady
    <2>7. \A g \in Written' : Start .. g \subseteq Written'
      <3> SUFFICES ASSUME NEW g \in Written' PROVE Start .. g \subseteq Written'
        OBVIOUS
      <3>1. CASE g \in Written
        BY <1>1, <2>4, <3>1 DEF NoGaps
      <3>2. CASE g = frame /\ g \notin Written
        <4>1. Written' = Written \cup {frame} /\ Start .. frame - 1 \subseteq Written
          BY <2>4, <2>6, <3>2
        <4>2. \A h \in Start .. frame : h = frame \/ h \in Start .. frame - 1
          BY <1>1, <2>1, DriverAssumption
        <4> QED
          BY <3>2, <4>1, <4>2
      <3> QED
        BY <2>4, <3>1, <3>2
    <2>8. ASSUME dirs, ~Inline, ~UsePrevious
          PROVE  Start .. frame - 1 \subseteq Written' /\ frame \in Written'
      <3>1. Start .. frame - 1 \subseteq Written /\ (pc = "track" => frame \in Written)
        BY <2>1, <2>8 DEF Steady
      <3> QED
        BY <2>1, <2>2, <2>4, <2>8, <3>1
    <2> QED
      BY <2>1, <2>3, <2>5, <2>7, <2>8 DEF Steady, NoGaps, Inline, UsePrevious
  <1>9. CASE TrackRaises \/ NoTrack \/ Interrupt
    <2>1. /\ UNCHANGED <<mode, dirs, output, resume_at_index, run_count, last, frame>>
          /\ pc' \in {"raised", "end", "interrupted"} /\ (pc' = "end" => pc = "track")
      BY <1>9 DEF TrackRaises, NoTrack, Interrupt, counts, setting, files, loop
    <2>2. NoGaps' /\ (~dirs' => Written' = {}) /\ Written' = Written
      BY <1>3, <2>1
    <2>3. pc' = "end" /\ dirs /\ ~Inline /\ ~UsePrevious =>
            Start .. frame - 1 \subseteq Written /\ frame \in Written
      BY <2>1 DEF Steady
    <2>4. pc' = "end" => run_count = frame + 1 /\ last = frame - 1
      BY <2>1 DEF Steady
    <2> QED
      BY <2>1, <2>2, <2>3, <2>4 DEF Steady, Inline, UsePrevious
  <1>10. CASE EndFrame
    <2>1. UNCHANGED <<mode, dirs, output>> /\ Proceed /\ pc = "end" /\ frame \in Frames
      BY <1>2, <1>10 DEF EndFrame, counts, setting, files
    <2>2. NoGaps' /\ (~dirs' => Written' = {}) /\ Written' = Written
      BY <1>3, <2>1
    <2>3. frame' = frame + 1 /\ pc' \in {"idle", "run"}
      BY <2>1 DEF Proceed
    <2>4. dirs /\ ~Inline /\ ~UsePrevious => Start .. frame' - 1 \subseteq Written
      BY <2>1, <2>3, OneMore DEF Steady
    <2> QED
      BY <2>1, <2>2, <2>3, <2>4 DEF Steady, Inline, UsePrevious
  <1>11. CASE UNCHANGED vars
    BY <1>3, <1>11 DEF vars, loop, files, counts, setting, Steady, BeforeResume, TimeSteps, Inline, UsePrevious
  <1> QED
    BY <1>5, <1>6, <1>7, <1>8, <1>9, <1>10, <1>11 DEF Next, Step

(* Over time indices, when programs do not fail, the frames that have a    *)
(* file are the first ones: the count of files is the index to resume at,  *)
(* for any number of interrupted and resumed launches.                     *)
THEOREM CountIsIndex == Spec => []NoGaps
  <1>1. Init => TypeOK /\ Steady
    <2> SUFFICES ASSUME Init PROVE TypeOK /\ Steady
      OBVIOUS
    <2>1. Written = {} /\ pc = "idle"
      BY DEF Init, Written, NoFiles
    <2> QED
      BY <2>1, InitInv DEF IInv, Steady, NoGaps, Running
  <1>2. IInv /\ Steady /\ [Next]_vars => Steady'
    BY StepSteady DEF IInv
  <1>3. Steady => NoGaps
    BY DEF Steady, NoGaps
  <1> QED
    BY <1>1, <1>2, <1>3, DriverInvariant, PTL DEF Spec

-----------------------------------------------------------------------------
(* The frames before n are as FreshIsComplete promises.                    *)
Done(n) ==
  \A f \in Frames : f < n => IF f = Start THEN IsList(f) ELSE f \in linked

FreshMode == ~resume /\ ~CommandsFail /\ ~(TimeSteps /\ (Inline \/ UsePrevious))

(* A launch that starts with the first frame and does not resume, when     *)
(* programs do not fail.                                                   *)
FreshSteady ==
  FreshMode =>
    /\ pc \in Running => Done(frame)
    /\ pc \in {"frame", "track", "end"} =>
         /\ dirs /\ resume_at_index = 0
         /\ run_count = IF TimeSteps THEN frame + 1 ELSE frame
         /\ IF frame > 0 THEN last = frame - 1 ELSE last = IF TimeSteps THEN -1 ELSE None
    /\ pc = "run" /\ frame > 0 => dirs /\ TimeSteps
    /\ pc = "track" => IsList(frame)
    /\ pc = "end" => Done(frame + 1)
    /\ pc = "idle" /\ launched > 0 => Done(until)

(* The end of the loop is that of the frames.                              *)
LEMMA DoneProceeds ==
  ASSUME Start = 0, frame \in Frames, NEW n, n = frame + 1, Done(n), Proceed, UNCHANGED <<output, linked, until>>
  PROVE  /\ pc' \in Running => Done(frame)'
         /\ pc' = "idle" => Done(until)'
         /\ pc' = IF frame' = until THEN "idle" ELSE IF TimeSteps THEN "run" ELSE "frame"
         /\ frame' = frame + 1
  BY DEF Proceed, Done, IsList, Running

(* Detection and tracking of a frame: it becomes a list, and one that is   *)
(* linked, unless it is the first.                                         *)
LEMMA CommandsDone ==
  ASSUME Start = 0, TypeOK, FreshSteady, FreshMode, Detect \/ Track
  PROVE  /\ Done(frame)' /\ dirs'
         /\ pc' = "track" => IsList(frame)'
         /\ pc' = "end" => Done(frame + 1)'
  <1>1. /\ frame \in Frames /\ frame \in Nat /\ \A f \in Frames : f \in Nat /\ (f < frame => f + 1 <= frame)
        /\ UNCHANGED <<frame, mode>> /\ pc \in {"frame", "track"} /\ pc' \in {"track", "end"}
    BY OnFrame, DriverAssumption DEF Detect, Track, loop, counts, setting, Frames
  <1>2. /\ dirs /\ Done(frame)
        /\ run_count = IF TimeSteps THEN frame + 1 ELSE frame
        /\ IF frame > 0 THEN last = frame - 1 ELSE last = IF TimeSteps THEN -1 ELSE None
    BY <1>1 DEF FreshSteady, Running
  <1>3. \A f \in linked : IsList(f)
    BY DEF TypeOK, IsList
  <1>4. frame > 0 => last = frame - 1 /\ last \in Frames /\ last # None /\ IsList(last)
    <2> SUFFICES ASSUME frame > 0 PROVE last = frame - 1 /\ last \in Frames /\ last # None /\ IsList(last)
      OBVIOUS
    <2>1. last = frame - 1 /\ last \in Frames /\ last < frame /\ last # None
      BY <1>1, <1>2, DriverAssumption DEF Frames, None
    <2>2. IF last = Start THEN IsList(last) ELSE last \in linked
      BY <1>2, <2>1 DEF Done
    <2> QED
      BY <1>3, <2>1, <2>2
  <1>5. ASSUME NEW list \in {Detected, Tracked},
               output'[frame] = list, dirs' = dirs,
               \A f \in Frames : f # frame => output'[f] = output[f],
               linked' = (linked \ {frame, frame + 1})
                          \cup {f \in {frame} : list = Tracked /\ last = frame - 1}
        PROVE  Done(frame)' /\ dirs' /\ IsList(frame)'
               /\ (frame > 0 /\ list = Tracked => frame \in linked')
    <2>1. \A f \in Frames : f < frame => f \notin {frame, frame + 1}
      BY <1>1
    <2>2. Done(frame)'
      BY <1>1, <1>2, <1>5, <2>1 DEF Done, IsList
    <2>3. IsList(frame)'
      BY <1>1, <1>5 DEF IsList
    <2> QED
      BY <1>2, <1>4, <1>5, <2>2, <2>3
  <1>6. Done(frame)' /\ IsList(frame)' /\ (frame = 0 \/ frame \in linked') => Done(frame + 1)'
    BY <1>1 DEF Done
  <1>7. CASE Detect
    <2>1. /\ HavePrevious /\ (Inline \/ UsePrevious) => IsList(last)
          /\ Inline /\ frame > 0 => HavePrevious
          /\ pc' = IF Inline THEN "end" ELSE "track"
      BY <1>1, <1>2, <1>4, <1>7 DEF Detect, HavePrevious, FreshMode
    <2>2. PICK list \in {Detected, Tracked} :
            /\ Command(HavePrevious /\ (Inline \/ UsePrevious) => IsList(last), list)
            /\ Inline /\ frame > 0 => list = Tracked
      BY <1>7, <2>1 DEF Detect
    <2>3. /\ output'[frame] = list /\ dirs' = dirs
          /\ \A f \in Frames : f # frame => output'[f] = output[f]
          /\ linked' = (linked \ {frame, frame + 1})
                         \cup {f \in {frame} : list = Tracked /\ last = frame - 1}
      BY <1>1, <1>2, <2>1, <2>2, CommandDone DEF FreshMode
    <2>4. Done(frame)' /\ dirs' /\ IsList(frame)' /\ (frame > 0 /\ list = Tracked => frame \in linked')
      BY <1>5, <2>3
    <2> QED
      BY <1>1, <1>6, <2>1, <2>2, <2>4
  <1>8. CASE Track
    <2>1. Command(IsList(last) /\ IsList(frame), Tracked) /\ pc' = "end" /\ IsList(frame)
      BY <1>8 DEF Track, FreshSteady
    <2>2. CASE frame > 0
      <3>1. /\ output'[frame] = Tracked /\ dirs' = dirs
            /\ \A f \in Frames : f # frame => output'[f] = output[f]
            /\ linked' = (linked \ {frame, frame + 1})
                           \cup {f \in {frame} : Tracked = Tracked /\ last = frame - 1}
        BY <1>1, <1>2, <1>4, <2>1, <2>2, CommandDone DEF FreshMode
      <3>2. Done(frame)' /\ dirs' /\ IsList(frame)' /\ frame \in linked'
        BY <1>5, <2>2, <3>1
      <3> QED
        BY <1>6, <2>1, <3>2
    <2>3. CASE frame = 0
      <3>1. ~IsList(last)
        BY <1>2, <2>3 DEF IsList, Frames, None
      <3>2. UNCHANGED <<output, linked, dirs>>
        BY <1>1, <2>1, <3>1, CommandDone DEF FreshMode
      <3>3. Done(frame)' /\ IsList(frame)' /\ dirs'
        BY <1>1, <1>2, <2>1, <3>2 DEF Done, IsList
      <3> QED
        BY <1>6, <2>1, <2>3, <3>3
    <2> QED
      BY <1>1, <2>2, <2>3
  <1> QED
    BY <1>7, <1>8

(* Every step of the driver keeps that.                                    *)
LEMMA StepFreshSteady ==
  ASSUME Start = 0, IInv, FreshSteady, [Next]_vars
  PROVE  FreshSteady'
  <1>t. TypeOK
    BY DEF IInv
  <1>1. /\ frame \in Start .. until /\ frame \in Nat
        /\ \A f \in Frames : f \in Nat
        /\ resume_at_index \in Nat
    BY <1>t, DriverAssumption DEF TypeOK, Frames
  <1>2. CASE Launch
    <2>1. /\ frame' = Start
          /\ pc' = "run"
      BY <1>2 DEF Launch
    <2>2. \A f \in Frames : ~(f < Start)
      BY <1>1
    <2>3. Done(frame)'
      BY <2>1, <2>2 DEF Done
    <2> QED
      BY <2>1, <2>3 DEF FreshSteady
  <1> SUFFICES ASSUME ~Launch, FreshMode' PROVE FreshSteady'
    BY <1>2 DEF FreshSteady
  <1>3. FreshMode /\ UNCHANGED <<mode, resume, launched, until>>
    BY DEF FreshMode, TimeSteps, CommandsFail, Inline, UsePrevious, Next, Step, Run, Skip,
           Detect, Track, TrackRaises, NoTrack, EndFrame, Interrupt, vars, counts, setting
  <1>4. CASE Run
    <2>1. /\ pc = "run" /\ frame \in Frames /\ Done(frame)
          /\ frame > 0 => dirs /\ TimeSteps
          /\ ~resume
      BY <1>1, <1>3, <1>4, <1>t, OnFrame DEF Run, FreshSteady, Running, FreshMode
    <2>2. resume_at_index' = 0 /\ ~BeforeResume(resume_at_index')
      BY <1>1, <1>4, <2>1 DEF Run, BeforeResume
    <2>3. /\ frame' = frame /\ pc' = "frame"
          /\ run_count' = IF TimeSteps THEN frame + 1 ELSE 0
          /\ last' = IF TimeSteps THEN frame - 1 ELSE None
      BY <1>4, <2>2 DEF Run
    <2>4. CASE frame > 0
      <3>1. UNCHANGED <<dirs, output, linked>>
        <4>1. ~(~TimeSteps \/ frame <= 0)
          BY <1>1, <2>1, <2>4
        <4>2. UNCHANGED files
          BY <1>4, <4>1, Zenon DEF Run
        <4> QED
          BY <4>2 DEF files
      <3>2. Done(frame)'
        BY <2>1, <2>3, <3>1 DEF Done, IsList
      <3> QED
        BY <1>3, <2>1, <2>2, <2>3, <2>4, <3>1, <3>2 DEF FreshSteady, TimeSteps
    <2>5. CASE frame = 0
      <3>1. dirs' = TRUE
        BY <1>4, <2>1, <2>5 DEF Run
      <3>2. Done(frame)'
        BY <1>1, <2>3, <2>5 DEF Done
      <3> QED
        BY <1>3, <2>2, <2>3, <2>5, <3>1, <3>2 DEF FreshSteady, TimeSteps
    <2> QED
      BY <1>1, <2>4, <2>5
  <1>5. CASE Skip
    BY <1>3, <1>5 DEF Skip, FreshSteady
  <1>6. CASE Detect \/ Track
    <2>1. /\ Done(frame)' /\ dirs'
          /\ pc' = "track" => IsList(frame)'
          /\ pc' = "end" => Done(frame + 1)'
      BY <1>3, <1>6, <1>t, CommandsDone
    <2>2. /\ UNCHANGED <<resume_at_index, run_count, last, frame>>
          /\ pc \in {"frame", "track"} /\ pc' \in {"track", "end"}
      BY <1>6 DEF Detect, Track, loop
    <2> QED
      BY <1>3, <2>1, <2>2 DEF FreshSteady, TimeSteps
  <1>7. CASE TrackRaises \/ Interrupt
    BY <1>7 DEF TrackRaises, Interrupt, FreshSteady, Running
  <1>8. CASE NoTrack
    <2>1. /\ UNCHANGED <<resume_at_index, run_count, last, frame, dirs, output, linked>>
          /\ pc = "track" /\ pc' = "end" /\ ~TrackWanted
      BY <1>8 DEF NoTrack, loop, files
    <2>2. Done(frame) /\ IsList(frame)
          /\ run_count = IF TimeSteps THEN frame + 1 ELSE frame
      BY <1>3, <2>1 DEF FreshSteady, Running
    <2>3. frame = 0
      BY <1>1, <2>1, <2>2 DEF TrackWanted
    <2>4. Done(frame)' /\ Done(frame + 1)'
      BY <1>1, <2>1, <2>2, <2>3 DEF Done, IsList
    <2> QED
      BY <1>3, <2>1, <2>4 DEF FreshSteady, TimeSteps
  <1>9. CASE EndFrame
    <2>1. /\ UNCHANGED <<resume_at_index, dirs, output, linked>> /\ Proceed /\ pc = "end"
          /\ frame \in Frames /\ last' = frame /\ run_count' = run_count + 1
      BY <1>9, <1>t, OnFrame DEF EndFrame, files
    <2>2. /\ Done(frame + 1) /\ dirs /\ resume_at_index = 0
          /\ run_count = IF TimeSteps THEN frame + 1 ELSE frame
      BY <1>3, <2>1 DEF FreshSteady
    <2>3. /\ pc' \in Running => Done(frame)'
          /\ pc' = "idle" => Done(until)'
          /\ pc' = IF frame' = until THEN "idle" ELSE IF TimeSteps THEN "run" ELSE "frame"
          /\ frame' = frame + 1
      BY <1>3, <2>1, <2>2, DoneProceeds
    <2>4. frame' > 0 /\ frame' - 1 = frame
      BY <1>1, <2>3
    <2>5. /\ pc' \in {"idle", "run", "frame"}
          /\ pc' = "run" => TimeSteps
          /\ pc' = "frame" => ~TimeSteps
      BY <2>3
    <2>6. TimeSteps' = TimeSteps
      BY <1>3 DEF TimeSteps
    <2> QED
      BY <2>1, <2>2, <2>3, <2>4, <2>5, <2>6 DEF FreshSteady
  <1>10. CASE UNCHANGED vars
    BY <1>3, <1>10 DEF vars, loop, files, counts, setting, FreshSteady, Done, IsList, TimeSteps
  <1> QED
    BY <1>4, <1>5, <1>6, <1>7, <1>8, <1>9, <1>10 DEF Next, Step

(* When programs do not fail, a launch that does not resume and starts     *)
(* with the first frame has, at its end, detected all frames and tracked   *)
(* each against the one before.                                            *)
THEOREM FreshLaunchCompletes == ASSUME Start = 0 PROVE Spec => []FreshIsComplete
  <1>1. Init => FreshSteady
    BY DriverAssumption DEF Init, FreshSteady, Running
  <1>2. IInv /\ FreshSteady /\ [Next]_vars => FreshSteady'
    BY StepFreshSteady
  <1>3. IInv /\ FreshSteady => FreshIsComplete
    <2> SUFFICES ASSUME TypeOK, FreshSteady, FreshMode, pc = "idle", launched > 0
                 PROVE  \A f \in Sources : IF f = Start THEN IsList(f) ELSE f \in linked
      BY DEF IInv, FreshIsComplete, FreshMode
    <2>1. Done(until) /\ Sources \subseteq Frames /\ \A f \in Sources : f < until
      BY OnFrame, DriverAssumption DEF FreshSteady, Sources
    <2> QED
      BY <2>1 DEF Done
  <1> QED
    BY <1>1, <1>2, <1>3, DriverInvariant, PTL DEF Spec

-----------------------------------------------------------------------------
(* W has the frames before n, all of them or all but one.                  *)
AllBut(W, n) == \E h \in 0 .. n : W = (0 .. n - 1) \ {h}

(* A frame an earlier launch may have written: the loop goes on.           *)
Skipping == resume_at_index > 0 /\ frame <= resume_at_index

(* Over files, without failing programs: a launch that resumes leaves at   *)
(* most one frame out, because it resumes where the number of files says.  *)
FilesProgress ==
  /\ \E n \in Nat : AllBut(Written, n)
  /\ pc \in {"frame", "track", "end"} =>
       /\ run_count = frame
       /\ last # None => IsList(last)
       /\ IF Skipping
          THEN /\ pc = "frame" /\ resume_at_index = Cardinality(Written)
               /\ AllBut(Written, resume_at_index + 1)
          ELSE IF pc = "frame" THEN AllBut(Written, frame)
          ELSE AllBut(Written, frame + 1) /\ frame \in Written

FilesSteady ==
  ~TimeSteps =>
    /\ pc = "run" => frame = 0
    /\ ~CommandsFail /\ dirs => FilesProgress

(* The number of files says where the first frame without one can be.      *)
LEMMA AllButCount ==
  ASSUME NEW W, NEW n \in Nat, AllBut(W, n)
  PROVE  /\ IsFiniteSet(W) /\ Cardinality(W) \in Nat
         /\ n - 1 <= Cardinality(W)
         /\ AllBut(W, Cardinality(W) + 1)
  <1>1. PICK h \in 0 .. n : W = (0 .. n - 1) \ {h}
    BY DEF AllBut
  <1>2. IsFiniteSet(0 .. n - 1) /\ Cardinality(0 .. n - 1) = n
    <2>1. IsFiniteSet(0 .. n - 1) /\ Cardinality(0 .. n - 1) = IF 0 > n - 1 THEN 0 ELSE (n - 1) - 0 + 1
      BY FS_Interval, 0 \in Int, n - 1 \in Int
    <2> QED
      BY <2>1
  <1>3. /\ IsFiniteSet(W)
        /\ Cardinality(W) = IF h \in 0 .. n - 1 THEN n - 1 ELSE n
    BY <1>1, <1>2, FS_RemoveElement
  <1>4. CASE h \in 0 .. n - 1
    BY <1>1, <1>3, <1>4 DEF AllBut
  <1>5. CASE h \notin 0 .. n - 1
    <2>1. h = n /\ W = 0 .. n - 1 /\ Cardinality(W) = n
      BY <1>1, <1>3, <1>5
    <2>2. W = (0 .. (n + 1) - 1) \ {n} /\ n \in 0 .. n + 1
      BY <2>1
    <2>3. AllBut(W, n + 1)
      BY <2>2 DEF AllBut
    <2> QED
      BY <1>3, <2>1, <2>3
  <1> QED
    BY <1>4, <1>5

(* One more frame.                                                         *)
LEMMA AllButMore ==
  ASSUME NEW W, NEW n \in Nat, AllBut(W, n)
  PROVE  AllBut(W \cup {n}, n + 1)
  <1>1. PICK h \in 0 .. n : W = (0 .. n - 1) \ {h}
    BY DEF AllBut
  <1>2. CASE h < n
    <2>1. W \cup {n} = (0 .. (n + 1) - 1) \ {h} /\ h \in 0 .. n + 1
      BY <1>1, <1>2
    <2> QED
      BY <2>1 DEF AllBut
  <1>3. CASE h = n
    <2>1. W \cup {n} = (0 .. (n + 1) - 1) \ {n + 1} /\ n + 1 \in 0 .. n + 1
      BY <1>1, <1>3
    <2> QED
      BY <2>1 DEF AllBut
  <1> QED
    BY <1>1, <1>2, <1>3

(* Over files the frames are numbered from 0.                              *)
LEMMA FilesFrom0 ==
  ASSUME TypeOK, ~TimeSteps
  PROVE  Start = 0 /\ Frames = 0 .. End - 1 /\ \A f \in Frames : f \in Nat
  BY DriverAssumption DEF TypeOK, TimeSteps, Frames

(* Every step of the loops over files keeps that.                          *)
LEMMA StepFilesSteady ==
  ASSUME TypeOK, WholeFiles, FilesSteady, [Next]_vars
  PROVE  FilesSteady'
  <1> SUFFICES ASSUME ~TimeSteps PROVE FilesSteady'
    <2>1. UNCHANGED mode
      BY DEF Next, Step, Launch, Run, Skip, Detect, Track, TrackRaises, NoTrack, EndFrame,
             Interrupt, vars, counts, setting
    <2> QED
      BY <2>1 DEF FilesSteady, TimeSteps
  <1>m. UNCHANGED mode
    BY DEF Next, Step, Launch, Run, Skip, Detect, Track, TrackRaises, NoTrack, EndFrame,
           Interrupt, vars, counts, setting
  <1>0. Start = 0 /\ \A f \in Frames : f \in Nat
    BY FilesFrom0
  <1>1. ASSUME pc' = "run" PROVE frame' = 0
    BY <1>0, <1>1 DEF FilesSteady, Next, Step, Launch, Run, Skip, Detect, Track, TrackRaises,
       NoTrack, EndFrame, Interrupt, Proceed, vars, loop, BeforeResume
  <1> SUFFICES ASSUME ~CommandsFail, dirs' PROVE FilesProgress'
    BY <1>1, <1>m DEF FilesSteady, TimeSteps, CommandsFail
  <1>2. dirs => FilesProgress
    BY DEF FilesSteady
  <1>3. ASSUME UNCHANGED output PROVE Written' = Written /\ \A f : IsList(f)' <=> IsList(f)
    BY <1>3 DEF Written, IsList
  <1>4. CASE Launch
    <2>1. UNCHANGED files /\ pc' \in {"idle", "run"}
      BY <1>4 DEF Launch
    <2>2. dirs /\ UNCHANGED output
      BY <2>1 DEF files
    <2> QED
      BY <1>2, <1>3, <2>1, <2>2 DEF FilesProgress
  <1>5. CASE Run
    <2>1. /\ pc = "run" /\ frame = 0 /\ frame' = 0 /\ run_count' = 0 /\ last' = None /\ pc' = "frame"
          /\ resume_at_index' = IF resume THEN Cardinality(Written) ELSE 0
      BY <1>5 DEF Run, BeforeResume, FilesSteady
    <2>2. CASE resume
      <3>1. dirs /\ UNCHANGED output /\ Written' = Written
        BY <1>3, <1>5, <2>2 DEF Run, files
      <3>2. PICK n \in Nat : AllBut(Written, n)
        BY <1>2, <3>1 DEF FilesProgress
      <3>3. /\ IsFiniteSet(Written) /\ Cardinality(Written) \in Nat
            /\ AllBut(Written, Cardinality(Written) + 1)
        BY <3>2, AllButCount
      <3>4. CASE Cardinality(Written) = 0
        <4>1. Written = {}
          BY <3>3, <3>4, FS_EmptySet
        <4>2. AllBut(Written, 0)
          BY <4>1 DEF AllBut
        <4> QED
          BY <2>1, <2>2, <3>1, <3>4, <4>2 DEF FilesProgress, Skipping
      <3>5. CASE Cardinality(Written) > 0
        BY <2>1, <2>2, <3>1, <3>2, <3>3, <3>5 DEF FilesProgress, Skipping
      <3> QED
        BY <3>3, <3>4, <3>5
    <2>3. CASE ~resume
      <3>1. Written' = {}
        BY <1>5, <2>3 DEF Run, Written, NoFiles
      <3>2. AllBut(Written', 0)
        BY <3>1 DEF AllBut
      <3> QED
        BY <2>1, <2>3, <3>2 DEF FilesProgress, Skipping
    <2> QED
      BY <2>2, <2>3
  <1>6. CASE Skip
    <2>1. /\ pc = "frame" /\ dirs /\ UNCHANGED <<output, last, resume_at_index>>
          /\ frame' = frame + 1 /\ run_count' = run_count + 1 /\ pc' \in {"idle", "frame"}
          /\ resume_at_index > 0 /\ run_count <= resume_at_index
      BY <1>6 DEF Skip, SkipCount, Proceed, files
    <2>2. Written' = Written /\ \A f : IsList(f)' <=> IsList(f)
      BY <1>3, <2>1
    <2>3. FilesProgress /\ Skipping /\ frame \in Nat /\ resume_at_index \in Nat
      BY <1>0, <1>2, <2>1 DEF FilesProgress, Skipping, TypeOK
    <2>4. CASE frame' <= resume_at_index
      BY <2>1, <2>2, <2>3, <2>4 DEF FilesProgress, Skipping
    <2>5. CASE ~(frame' <= resume_at_index)
      <3>1. frame' = resume_at_index + 1
        BY <2>1, <2>3, <2>5 DEF FilesProgress
      <3> QED
        BY <2>1, <2>2, <2>3, <2>5, <3>1 DEF FilesProgress, Skipping
    <2> QED
      BY <2>4, <2>5
  <1>7. CASE Detect \/ Track
    <2>1. /\ UNCHANGED <<resume_at_index, run_count, last, frame, dirs>>
          /\ pc \in {"frame", "track"} /\ pc' \in {"track", "end"}
          /\ frame \in Frames
      BY <1>7, OnFrame DEF Detect, Track, loop, Command
    <2>2. FilesProgress /\ ~Skipping
      <3>1. FilesProgress
        BY <1>2, <2>1
      <3> QED
        BY <1>7, <3>1 DEF FilesProgress, Skipping, Detect, Track, SkipCount
    <2>3. PICK runs \in BOOLEAN, list \in {Detected, Tracked} :
            Command(runs, list) /\ (pc = "frame" => runs)
      <3>1. CASE Detect
        <4>1. ASSUME NEW given \in BOOLEAN PROVE (given => IsList(last)) \in BOOLEAN
          OBVIOUS
        <4>2. HavePrevious => IsList(last)
          BY <2>1, <2>2 DEF HavePrevious, FilesProgress
        <4>3. (HavePrevious /\ (Inline \/ UsePrevious) => IsList(last)) = TRUE
          BY <4>2
        <4>4. Command(TRUE, IF Inline /\ HavePrevious THEN Tracked ELSE Detected)
          BY <3>1, <4>3 DEF Detect
        <4> QED
          BY <4>4
      <3>2. CASE Track
        <4>1. Command(IsList(last) /\ IsList(frame), Tracked) /\ pc = "track"
          BY <3>2 DEF Track
        <4> QED
          BY <4>1
      <3> QED
        BY <1>7, <3>1, <3>2
    <2>4. \/ (~runs \/ ~dirs) /\ UNCHANGED output
          \/ output'[frame] = list /\ \A f \in Frames : f # frame => output'[f] = output[f]
      BY <2>1, <2>3, CommandDone
    <2>5. Written' = Written \cup {frame}
      <3>1. CASE UNCHANGED output
        <4>1. pc = "track" \/ output'[frame] = list
          BY <2>1, <2>3, <2>4, <3>1
        <4> QED
          BY <2>1, <2>2, <3>1, <4>1, DriverAssumption DEF FilesProgress, Written
      <3>2. CASE output'[frame] = list /\ \A f \in Frames : f # frame => output'[f] = output[f]
        BY <2>1, <3>2, DriverAssumption DEF Written
      <3> QED
        BY <2>4, <3>1, <3>2
    <2>6. last # None => IsList(last)'
      BY <2>1, <2>2, <2>4 DEF FilesProgress, IsList
    <2>7. AllBut(Written', frame + 1)
      <3>1. CASE pc = "frame"
        BY <1>0, <2>1, <2>2, <2>5, <3>1, AllButMore DEF FilesProgress
      <3>2. CASE pc = "track"
        <4>1. Written' = Written
          BY <2>2, <2>5, <3>2 DEF FilesProgress
        <4> QED
          BY <2>2, <3>2, <4>1 DEF FilesProgress
      <3> QED
        BY <2>1, <3>1, <3>2
    <2>8. frame + 1 \in Nat /\ ~Skipping'
      BY <1>0, <2>1, <2>2 DEF Skipping
    <2> QED
      BY <2>1, <2>2, <2>5, <2>6, <2>7, <2>8 DEF FilesProgress
  <1>8. CASE TrackRaises \/ NoTrack \/ Interrupt
    <2>1. /\ UNCHANGED <<dirs, output, resume_at_index, run_count, last, frame>>
          /\ pc' \in {"raised", "end", "interrupted"} /\ (pc' = "end" => pc = "track")
      BY <1>8 DEF TrackRaises, NoTrack, Interrupt, files, loop
    <2>2. Written' = Written /\ (\A f : IsList(f)' <=> IsList(f)) /\ FilesProgress
      BY <1>2, <1>3, <2>1
    <2> QED
      BY <2>1, <2>2 DEF FilesProgress, Skipping
  <1>9. CASE EndFrame
    <2>1. /\ UNCHANGED <<dirs, output, resume_at_index>> /\ pc = "end" /\ frame \in Frames
          /\ frame' = frame + 1 /\ run_count' = run_count + 1 /\ last' = frame
          /\ pc' \in {"idle", "frame"} /\ resume_at_index \in Nat
      BY <1>9, OnFrame DEF EndFrame, Proceed, files, TypeOK
    <2>2. Written' = Written /\ (\A f : IsList(f)' <=> IsList(f)) /\ FilesProgress
      BY <1>2, <1>3, <2>1
    <2>3. IsList(frame)
      BY <2>1, <2>2 DEF FilesProgress, WholeFiles, IsList, Written
    <2>4. ~Skipping /\ ~Skipping'
      BY <1>0, <2>1, <2>2 DEF FilesProgress, Skipping
    <2> QED
      BY <2>1, <2>2, <2>3, <2>4 DEF FilesProgress
  <1>10. CASE UNCHANGED vars
    <2>1. UNCHANGED <<pc, dirs, output, resume_at_index, run_count, last, frame>>
      BY <1>10 DEF vars, loop, files
    <2>2. Written' = Written /\ (\A f : IsList(f)' <=> IsList(f)) /\ FilesProgress
      BY <1>2, <1>3, <2>1
    <2> QED
      BY <2>1, <2>2 DEF FilesProgress, Skipping
  <1> QED
    BY <1>4, <1>5, <1>6, <1>7, <1>8, <1>9, <1>10 DEF Next, Step

-----------------------------------------------------------------------------
(* Over time indices a previous file, where one is wanted, is wanted at the*)
(* first index too: nothing is ever written.  And directories are only     *)
(* created at the first index.                                             *)
TimesSteady ==
  /\ TimeSteps /\ ~CommandsFail /\ (Inline \/ UsePrevious) => Written = {}
  /\ dirs => Start = 0

(* Every step of the driver keeps that.                                    *)
LEMMA StepTimesSteady ==
  ASSUME TypeOK, Steady, TimesSteady, [Next]_vars
  PROVE  TimesSteady'
  <1>m. UNCHANGED mode
    BY DEF Next, Step, Launch, Run, Skip, Detect, Track, TrackRaises, NoTrack, EndFrame,
           Interrupt, vars, counts, setting
  <1>1. dirs' => Start = 0
    <2>1. dirs' => dirs \/ Run
      BY DEF Next, Step, Launch, Run, Skip, Detect, Track, TrackRaises, NoTrack, EndFrame,
             Interrupt, vars, files, Command
    <2>2. CASE Run
      <3>1. frame \in Frames
        BY <2>2, OnFrame DEF Run
      <3>2. dirs' => dirs \/ ~TimeSteps \/ frame <= 0
        BY <2>2 DEF Run, files
      <3>3. Start \in Nat /\ frame \in Int /\ Start <= frame
        BY <3>1, DriverAssumption DEF Frames
      <3>4. ~TimeSteps => Start = 0
        BY FilesFrom0
      <3> QED
        BY <3>1, <3>2, <3>3, <3>4 DEF TimesSteady
    <2> QED
      BY <2>1, <2>2 DEF TimesSteady
  <1>2. ASSUME TimeSteps, ~CommandsFail, Inline \/ UsePrevious PROVE Written' = {}
    <2>1. Written = {}
      BY <1>2 DEF TimesSteady
    <2>2. output' = output \/ output' = NoFiles \/ Detect \/ Track
      BY DEF Next, Step, Launch, Run, Skip, Detect, Track, TrackRaises, NoTrack, EndFrame,
             Interrupt, vars, files
    <2>3. CASE Detect \/ Track
      <3>1. ~IsList(last)
        BY <2>1, DriverAssumption DEF IsList, Written
      <3>2. CASE Detect
        <4>1. HavePrevious
          BY <1>2, <3>2, DriverAssumption DEF HavePrevious, Steady, Detect, None, TypeOK, Frames
        <4>2. (HavePrevious /\ (Inline \/ UsePrevious) => IsList(last)) = FALSE
          BY <1>2, <3>1, <4>1
        <4>3. Command(FALSE, IF Inline /\ HavePrevious THEN Tracked ELSE Detected)
          BY <3>2, <4>2 DEF Detect
        <4> QED
          BY <2>1, <4>3 DEF Command, Written
      <3>3. CASE Track
        <4>1. (IsList(last) /\ IsList(frame)) = FALSE
          BY <3>1
        <4>2. Command(FALSE, Tracked)
          BY <3>3, <4>1 DEF Track
        <4> QED
          BY <2>1, <4>2 DEF Command, Written
      <3> QED
        BY <2>3, <3>2, <3>3
    <2> QED
      BY <2>1, <2>2, <2>3 DEF Written, NoFiles
  <1> QED
    BY <1>1, <1>2, <1>m DEF TimesSteady, TimeSteps, CommandsFail, Inline, UsePrevious

(* What holds of the driver when nothing fails.                            *)
Reliable == TypeOK /\ WholeFiles /\ Steady /\ FilesSteady /\ TimesSteady

(* A launch that resumes leaves the frames before end alone.               *)
Settled(end) ==
  IF TimeSteps THEN Inline \/ UsePrevious \/ Start .. end - 1 \subseteq Written
  ELSE Written # {} /\ end - 1 <= Cardinality(Written)

(* It works on a frame behind them, or skips frames.                       *)
Behind(end) ==
  pc \in {"frame", "track", "end"} =>
    IF TimeSteps THEN Inline \/ UsePrevious \/ end <= frame
    ELSE resume_at_index > 0 /\ end - 1 <= resume_at_index

Kept(r, end) == r = CoveredBefore(end) /\ dirs /\ Settled(end) /\ Behind(end)

(* The loops have come to their end, and statistics are due.               *)
LoopsAreOver == stage \in {"tracking", "statistics"} /\ pc = "idle" /\ dirs

KeptInv ==
  /\ stage = "statistics" => dirs
  /\ ~CommandsFail =>
       /\ LoopsAreOver => Settled(until)
       /\ \A k \in Kinds : \/ results[k] \in {NoFile, Torn}
                           \/ \E end \in since .. until : Kept(results[k], end)

(* The loops come to their end when no frame is left that a launch would   *)
(* write again.                                                            *)
LEMMA EndsSettled ==
  ASSUME Reliable, ~CommandsFail, Step, pc' = "idle", dirs'
  PROVE  Settled(until)'
  <1> USE DEF Reliable
  <1>1. /\ Run \/ Skip \/ EndFrame
        /\ Proceed /\ UNCHANGED <<mode, until>>
    <2>1. Run \/ Skip \/ EndFrame
      BY DEF Step, Detect, Track, TrackRaises, NoTrack
    <2> QED
      BY <2>1 DEF Run, Skip, EndFrame, counts, setting
  <1>2. pc \in {"run", "frame", "end"} /\ frame \in Frames /\ frame + 1 = until /\ until \in Nat
    BY <1>1, OnFrame DEF Run, Skip, EndFrame, Proceed
  <1>3. UNCHANGED <<dirs, output>>
    <2>1. CASE Run
      <3>1. BeforeResume(resume_at_index')
        BY <2>1 DEF Run
      <3>2. resume
        BY <1>2, <2>1, <3>1, DriverAssumption DEF Run, BeforeResume, Frames
      <3> QED
        BY <2>1, <3>2 DEF Run, files
    <2> QED
      BY <1>1, <2>1 DEF Skip, EndFrame, files
  <1>4. Written' = Written /\ dirs
    BY <1>3 DEF Written
  <1>5. CASE TimeSteps
    <2> SUFFICES ASSUME ~Inline, ~UsePrevious PROVE Start .. until - 1 \subseteq Written
      BY <1>1, <1>4, <1>5 DEF Settled, TimeSteps, Inline, UsePrevious
    <2>1. Start .. frame - 1 \subseteq Written
      BY <1>2, <1>4, <1>5 DEF Steady, Running
    <2>2. frame \in Written
      <3>1. CASE Run
        <4>1. BeforeResume(resume_at_index')
          BY <3>1 DEF Run
        <4>2. resume_at_index' = Cardinality(Written)
          BY <1>2, <3>1, <4>1, DriverAssumption DEF Run, BeforeResume, Frames
        <4> QED
          BY <1>2, <1>5, <4>1, <4>2, CountReaches DEF Steady, NoGaps, BeforeResume
      <3>2. CASE Skip
        <4>1. pc = "frame" /\ run_count <= resume_at_index /\ resume_at_index \in Nat
          BY <3>2 DEF Skip, SkipCount, TypeOK
        <4>2. ~(frame < resume_at_index) /\ run_count = frame + 1
          BY <1>5, <4>1 DEF Steady, BeforeResume
        <4> QED
          BY <1>2, <4>1, <4>2, DriverAssumption DEF Frames
      <3>3. CASE EndFrame
        BY <1>4, <1>5, <3>3 DEF Steady, EndFrame, Running
      <3> QED
        BY <1>1, <3>1, <3>2, <3>3
    <2> QED
      BY <1>2, <2>1, <2>2, DriverAssumption DEF Frames
  <1>6. CASE ~TimeSteps
    <2>1. FilesProgress /\ frame \in Nat
      BY <1>2, <1>4, <1>6, FilesFrom0 DEF FilesSteady
    <2>2. Skip \/ EndFrame
      BY <1>1, <1>6 DEF Run, BeforeResume
    <2>3. CASE Skip
      <3>1. Skipping /\ resume_at_index = Cardinality(Written) /\ resume_at_index > 0
        BY <2>1, <2>3 DEF Skip, SkipCount, Skipping, FilesProgress
      <3>2. Written # {} /\ until - 1 <= Cardinality(Written)
        BY <1>2, <2>1, <3>1, FS_EmptySet DEF Skipping
      <3> QED
        BY <1>1, <1>4, <1>6, <3>2 DEF Settled, TimeSteps
    <2>4. CASE EndFrame
      <3>1. AllBut(Written, frame + 1) /\ frame \in Written
        BY <2>1, <2>4 DEF EndFrame, FilesProgress
      <3>2. (frame + 1) - 1 <= Cardinality(Written)
        BY <2>1, <3>1, AllButCount, frame + 1 \in Nat
      <3>3. Written # {} /\ until - 1 <= Cardinality(Written)
        BY <1>2, <3>1, <3>2
      <3> QED
        BY <1>1, <1>4, <1>6, <3>3 DEF Settled, TimeSteps
    <2> QED
      BY <2>2, <2>3, <2>4
  <1> QED
    BY <1>5, <1>6

(* What a launch that resumes writes is behind end.                        *)
LEMMA WritesBehind ==
  ASSUME Reliable, ~CommandsFail, Detect \/ Track, dirs, NEW end \in Int, Behind(end),
         ~(TimeSteps /\ (Inline \/ UsePrevious))
  PROVE  /\ dirs' /\ end <= frame
         /\ Written \subseteq Written'
         /\ \A f \in Frames : f # frame => output'[f] = output[f]
  <1> USE DEF Reliable
  <1>1. frame \in Frames /\ frame \in Nat /\ pc \in {"frame", "track"}
    BY OnFrame, DriverAssumption DEF Detect, Track, Frames
  <1>2. end <= frame
    <2>1. CASE TimeSteps
      BY <1>1, <2>1 DEF Behind
    <2>2. CASE ~TimeSteps
      <3>1. FilesProgress /\ resume_at_index > 0 /\ end - 1 <= resume_at_index /\ resume_at_index \in Nat
        BY <1>1, <2>2 DEF Behind, FilesSteady, TypeOK
      <3>2. ~Skipping
        BY <1>1, <3>1 DEF FilesProgress, Skipping, Detect, Track, SkipCount
      <3> QED
        BY <1>1, <3>1, <3>2 DEF Skipping
    <2> QED
      BY <2>1, <2>2
  <1>3. PICK runs \in BOOLEAN, list \in {Detected, Tracked} : Command(runs, list)
    <2>1. CASE Detect
      BY <2>1 DEF Detect, IsList
    <2>2. CASE Track
      BY <2>2 DEF Track, IsList
    <2> QED
      BY <2>1, <2>2
  <1>4. /\ dirs' = dirs
        /\ \/ UNCHANGED output
           \/ output'[frame] = list /\ \A f \in Frames : f # frame => output'[f] = output[f]
    BY <1>1, <1>3, CommandDone
  <1>5. Written \subseteq Written'
    BY <1>1, <1>4, DriverAssumption DEF Written
  <1> QED
    BY <1>2, <1>4, <1>5

(* The loops of a launch that resumes leave the lists as they are that     *)
(* there are statistics of.                                                *)
LEMMA LoopsKeep ==
  ASSUME Reliable, Reliable', ~CommandsFail, resume, Step \/ Interrupt,
         NEW r, NEW end \in since .. until, Kept(r, end)
  PROVE  Kept(r, end)'
  <1> USE DEF Reliable
  <1>m. UNCHANGED mode
    BY DEF Step, Run, Skip, Detect, Track, TrackRaises, NoTrack, EndFrame, Interrupt, counts, setting
  <1>1. end \in Nat /\ Start \in Nat /\ dirs /\ Settled(end) /\ Behind(end) /\ r = CoveredBefore(end)
    BY OnFrame, DriverAssumption DEF Kept
  <1>2. CASE TimeSteps /\ (Inline \/ UsePrevious)
    <2>1. Written = {} /\ Written' = {}
      BY <1>m, <1>2 DEF TimesSteady, TimeSteps, CommandsFail, Inline, UsePrevious
    <2>2. \A f \in Frames : ~IsList(f) /\ ~IsList(f)'
      BY <2>1, DriverAssumption DEF IsList, Written
    <2>3. CoveredBefore(end)' = CoveredBefore(end)
      BY <2>2 DEF Covered, CoveredBefore
    <2>4. dirs' = dirs
      BY <1>1 DEF Step, Run, Skip, Detect, Track, TrackRaises, NoTrack, EndFrame, Interrupt,
         files, Command
    <2> QED
      BY <1>m, <1>1, <1>2, <2>3, <2>4 DEF Kept, Settled, Behind, TimeSteps, Inline, UsePrevious
  <1>3. CASE ~(TimeSteps /\ (Inline \/ UsePrevious))
    <2>1. /\ dirs' /\ Written \subseteq Written'
          /\ \A f \in Frames : f < end => output'[f] = output[f]
      <3>1. CASE Detect \/ Track
        <4>1. /\ dirs' /\ end <= frame
              /\ Written \subseteq Written'
              /\ \A f \in Frames : f # frame => output'[f] = output[f]
          BY <1>1, <1>3, <3>1, WritesBehind
        <4>2. \A f \in Frames : f < end => f # frame
          BY <1>1, <3>1, <4>1, OnFrame, DriverAssumption DEF Detect, Track, Frames
        <4> QED
          BY <4>1, <4>2
      <3>2. CASE ~(Detect \/ Track)
        <4>1. UNCHANGED <<dirs, output>>
          BY <3>2 DEF Step, Run, Skip, TrackRaises, NoTrack, EndFrame, Interrupt, files
        <4> QED
          BY <1>1, <4>1 DEF Written
      <3> QED
        BY <3>1, <3>2
    <2>2. CoveredBefore(end)' = CoveredBefore(end)
      BY <2>1 DEF CoveredBefore, Covered, IsList
    <2>3. Cardinality(Written) <= Cardinality(Written') /\ Cardinality(Written) \in Nat
          /\ Cardinality(Written') \in Nat
      <3>1. IsFiniteSet(Frames)
        BY DriverAssumption, Start \in Int /\ End - 1 \in Int, FS_Interval DEF Frames
      <3>2. IsFiniteSet(Written')
        BY <3>1, FS_Subset DEF Written
      <3> QED
        BY <2>1, <3>2, FS_Subset, FS_CardinalityType
    <2>4. Settled(end)'
      <3>1. CASE TimeSteps
        BY <1>m, <1>1, <1>3, <2>1, <3>1 DEF Settled, TimeSteps, Inline, UsePrevious
      <3>2. CASE ~TimeSteps
        <4>1. Written' # {} /\ end - 1 <= Cardinality(Written')
          BY <1>1, <2>1, <2>3, <3>2 DEF Settled
        <4> QED
          BY <1>m, <3>2, <4>1 DEF Settled, TimeSteps
      <3> QED
        BY <3>1, <3>2
    <2>5. Behind(end)'
      <3>1. CASE Run
        <4>1. /\ resume_at_index' = Cardinality(Written)
              /\ pc' = "frame" => frame' = frame /\ ~BeforeResume(resume_at_index')
              /\ pc' \in {"idle", "run", "frame"}
          <5>1. CASE BeforeResume(resume_at_index')
            <6>1. Proceed /\ TimeSteps /\ resume_at_index' = Cardinality(Written)
              BY <3>1, <5>1 DEF Run, BeforeResume
            <6> QED
              BY <6>1 DEF Proceed
          <5>2. CASE ~BeforeResume(resume_at_index')
            BY <3>1, <5>2 DEF Run
          <5> QED
            BY <5>1, <5>2
        <4>2. CASE TimeSteps
          <5>1. end <= Cardinality(Written)
            <6>1. 0 .. end - 1 \subseteq Written
              BY <1>1, <1>3, <4>2 DEF Settled, TimesSteady
            <6>2. IsFiniteSet(Written)
              BY DriverAssumption, Start \in Int /\ End - 1 \in Int, FS_Interval, FS_Subset DEF Frames, Written
            <6>3. Cardinality(0 .. end - 1) = IF 0 > end - 1 THEN 0 ELSE (end - 1) - 0 + 1
              BY <1>1, FS_Interval, 0 \in Int, end - 1 \in Int
            <6>4. Cardinality(0 .. end - 1) <= Cardinality(Written)
              BY <6>1, <6>2, FS_Subset
            <6> QED
              BY <1>1, <2>3, <6>3, <6>4
          <5>2. frame \in Nat
            BY <3>1, OnFrame, DriverAssumption DEF Run, Frames
          <5>3. pc' \in {"frame", "track", "end"} => end <= frame'
            BY <1>1, <2>3, <4>1, <4>2, <5>1, <5>2 DEF BeforeResume
          <5> QED
            BY <1>m, <4>2, <5>3 DEF Behind, TimeSteps
        <4>3. CASE ~TimeSteps
          <5>1. Written # {} /\ end - 1 <= Cardinality(Written)
            BY <1>1, <4>3 DEF Settled
          <5>2. Cardinality(Written) # 0
            BY <5>1, <2>3, FS_EmptySet, FS_Interval, FS_Subset, DriverAssumption,
               Start \in Int /\ End - 1 \in Int DEF Written, Frames
          <5> QED
            BY <1>m, <2>3, <4>1, <4>3, <5>1, <5>2 DEF Behind, TimeSteps
        <4> QED
          BY <4>2, <4>3
      <3>2. CASE ~Run
        <4>1. /\ UNCHANGED resume_at_index
              /\ pc' \in {"frame", "track", "end"} => pc \in {"frame", "track", "end"}
              /\ UNCHANGED frame \/ (TimeSteps => pc' \notin {"frame", "track", "end"})
          BY <3>2 DEF Step, Skip, Detect, Track, TrackRaises, NoTrack, EndFrame, Interrupt, loop, Proceed
        <4> QED
          BY <1>m, <1>1, <4>1 DEF Behind, TimeSteps, Inline, UsePrevious
      <3> QED
        BY <3>1, <3>2
    <2> QED
      BY <1>1, <2>1, <2>2, <2>4, <2>5 DEF Kept
  <1> QED
    BY <1>2, <1>3

(* Nothing of that changes when neither files nor loops do.                *)
LEMMA SameKept ==
  ASSUME UNCHANGED <<mode, output, dirs>>, UNCHANGED <<pc, frame, resume_at_index>> \/ pc' \in {"idle", "run"}
  PROVE  /\ Covered' = Covered /\ CommandsFail' = CommandsFail
         /\ \A end : Settled(end)' <=> Settled(end)
         /\ \A r, end : Kept(r, end) => Kept(r, end)'
  BY DEF Covered, CoveredBefore, IsList, Written, CommandsFail, Settled, Behind, Kept,
         TimeSteps, Inline, UsePrevious

(* Every step of the experiment keeps the statistics true.                 *)
LEMMA StepKept ==
  ASSUME Reliable, Reliable', KeptInv, EInv, [ENext]_evars
  PROVE  KeptInv'
  <1>i. since \in Nat /\ until \in Nat /\ since <= until
    BY OnFrame DEF Reliable
  <1>1. CASE ELaunch
    <2>1. /\ stage' = "tracking" /\ UNCHANGED <<mode, wanted>> /\ pc' = "run"
          /\ until' \in until .. End
          /\ \/ UNCHANGED <<dirs, output, results, since>>
             \/ results' = NoResults
      BY <1>1 DEF ELaunch, Launch, files
    <2>2. ~LoopsAreOver' /\ ~(stage' = "statistics")
      BY <2>1 DEF LoopsAreOver
    <2>3. CASE UNCHANGED <<dirs, output, results, since>>
      <3>1. since .. until \subseteq since' .. until'
        BY <1>i, <2>1, <2>3, DriverAssumption
      <3>2. /\ CommandsFail' = CommandsFail
            /\ \A r, end : Kept(r, end) => Kept(r, end)'
        BY <2>1, <2>3, SameKept
      <3> QED
        BY <2>2, <2>3, <3>1, <3>2 DEF KeptInv
    <2>4. CASE results' = NoResults
      <3>1. \A k \in Kinds : results'[k] = NoFile
        BY <2>4 DEF NoResults
      <3> QED
        BY <2>2, <3>1 DEF KeptInv
    <2> QED
      BY <2>1, <2>3, <2>4
  <1>2. CASE Tracking
    <2>1. /\ Step \/ Interrupt
          /\ UNCHANGED <<wanted, post>>
          /\ UNCHANGED <<stage, results, mode, since, until>> /\ pc # "idle"
      BY <1>2 DEF Tracking, post, Step, Run, Skip, Detect, Track, TrackRaises, NoTrack, EndFrame,
         Interrupt, counts, setting
    <2>2. stage = "tracking"
      BY <2>1 DEF EInv
    <2> SUFFICES ASSUME ~CommandsFail PROVE KeptInv'
      BY <2>1, <2>2 DEF KeptInv, CommandsFail
    <2>3. ASSUME NEW k \in Kinds
          PROVE  \/ results'[k] \in {NoFile, Torn}
                 \/ \E end \in since' .. until' : Kept(results[k], end)'
      <3>1. CASE ~resume
        BY <2>1, <2>2, <3>1 DEF EInv, NoResults
      <3>2. CASE resume
        <4>1. CASE results[k] \in {NoFile, Torn}
          BY <2>1, <4>1
        <4>2. CASE results[k] \notin {NoFile, Torn}
          <5>1. PICK end \in since .. until : Kept(results[k], end)
            BY <4>2 DEF KeptInv
          <5>2. Kept(results[k], end)'
            BY <2>1, <3>2, <5>1, LoopsKeep
          <5> QED
            BY <2>1, <5>2
        <4> QED
          BY <4>1, <4>2
      <3> QED
        BY <3>1, <3>2
    <2>4. LoopsAreOver' => Settled(until)'
      <3> SUFFICES ASSUME pc' = "idle", dirs' PROVE Settled(until)'
        BY DEF LoopsAreOver
      <3>1. Step
        BY <1>2 DEF Tracking, Interrupt
      <3> QED
        BY <3>1, EndsSettled
    <2>5. \A k \in Kinds : results'[k] = results[k]
      BY <2>1
    <2> QED
      BY <2>1, <2>2, <2>3, <2>4, <2>5 DEF KeptInv
  <1>3. CASE PostStep \/ InterruptPost
    <2>1. /\ UNCHANGED <<vars, wanted>> /\ UNCHANGED <<mode, output, dirs, pc, since, until>>
          /\ pc = "idle"
      <3>1. UNCHANGED <<vars, wanted>>
        BY <1>3 DEF PostStep, InterruptPost, BeginPostprocessing, SkipStatistics, Statistics,
           StatisticsFail, Plot, Cleanup
      <3>2. pc = "idle"
        BY <1>3 DEF PostStep, InterruptPost, BeginPostprocessing, SkipStatistics, Statistics,
           StatisticsFail, Plot, Cleanup, EInv
      <3> QED
        BY <3>1, <3>2 DEF vars, files, counts, setting
    <2>2. stage' = "statistics" => stage = "tracking" /\ dirs
      BY <1>3 DEF PostStep, InterruptPost, BeginPostprocessing, SkipStatistics, Statistics,
         StatisticsFail, Plot, Cleanup
    <2>3. stage' # "tracking"
      BY <1>3 DEF PostStep, InterruptPost, BeginPostprocessing, SkipStatistics, Statistics,
         StatisticsFail, Plot, Cleanup
    <2>s. /\ Covered' = Covered /\ CommandsFail' = CommandsFail
          /\ \A end : Settled(end)' <=> Settled(end)
          /\ \A r, end : Kept(r, end) => Kept(r, end)'
      BY <2>1, SameKept
    <2> SUFFICES ASSUME ~CommandsFail PROVE KeptInv'
      BY <2>1, <2>2, <2>s DEF KeptInv
    <2>4. LoopsAreOver' => LoopsAreOver
      BY <2>1, <2>2, <2>3 DEF LoopsAreOver
    <2>5. \/ UNCHANGED results
          \/ stage = "statistics" /\ \A k \in Kinds : results'[k] \in {results[k], Torn, Covered}
      <3>1. CASE Statistics
        <4>1. \A k \in Kinds : results'[k] \in {results[k], Torn, Covered}
          BY <3>1 DEF Statistics
        <4> QED
          BY <3>1, <4>1 DEF Statistics
      <3>2. CASE StatisticsFail
        BY <3>2 DEF StatisticsFail
      <3>3. CASE InterruptPost
        <4>1. CASE stage = "statistics" /\ ~(resume /\ HaveFiles)
          <5>1. \A k \in Kinds : results'[k] \in Outcome(k)
            BY <3>3, <4>1 DEF InterruptPost
          <5>2. \A k \in Kinds : Outcome(k) \subseteq {results[k], Torn, Covered}
            BY DEF Outcome
          <5> QED
            BY <4>1, <5>1, <5>2
        <4>2. CASE ~(stage = "statistics" /\ ~(resume /\ HaveFiles))
          BY <3>3, <4>2 DEF InterruptPost
        <4> QED
          BY <4>1, <4>2
      <3> QED
        BY <1>3, <3>1, <3>2, <3>3 DEF PostStep, BeginPostprocessing, SkipStatistics, Plot, Cleanup
    <2>6. ASSUME NEW k \in Kinds
          PROVE  \/ results'[k] \in {NoFile, Torn}
                 \/ \E end \in since' .. until' : Kept(results[k], end)'
      <3>1. CASE results'[k] = results[k]
        <4>1. CASE results[k] \in {NoFile, Torn}
          BY <3>1, <4>1
        <4>2. CASE results[k] \notin {NoFile, Torn}
          <5>1. PICK end \in since .. until : Kept(results[k], end)
            BY <4>2 DEF KeptInv
          <5>2. Kept(results[k], end)'
            BY <2>1, <3>1, <5>1 DEF Kept, CoveredBefore, Covered, IsList, Settled, Behind,
               TimeSteps, Inline, UsePrevious, Written
          <5> QED
            BY <2>1, <5>2
        <4> QED
          BY <4>1, <4>2
      <3>2. CASE stage = "statistics" /\ results'[k] = Covered
        <4>1. dirs /\ Settled(until)
          BY <2>1, <3>2 DEF KeptInv, LoopsAreOver
        <4>2. CoveredBefore(until) = Covered
          <5>1. \A f \in Frames : ~(f < until) => Covered[f] = Absent
            BY <1>i, DriverAssumption DEF Reliable, TypeOK, Covered, IsList, Written, Sources, Frames
          <5>2. Covered = [f \in Frames |-> Covered[f]]
            BY DEF Covered
          <5> QED
            BY <5>1, <5>2 DEF CoveredBefore
        <4>4. Kept(results[k], until)'
          <5>1. results'[k] = CoveredBefore(until)'
            BY <2>1, <2>s, <3>2, <4>2 DEF CoveredBefore
          <5>2. Settled(until)'
            BY <2>1, <4>1 DEF Settled, TimeSteps, Inline, UsePrevious, Written
          <5> QED
            BY <2>1, <4>1, <5>1, <5>2 DEF Kept, Behind
        <4> QED
          BY <1>i, <2>1, <4>4
      <3> QED
        BY <2>5, <3>1, <3>2
    <2>7. LoopsAreOver' => Settled(until)'
      BY <2>1, <2>4, <2>s DEF KeptInv, Settled, TimeSteps, Inline, UsePrevious, Written
    <2> QED
      BY <2>1, <2>2, <2>6, <2>7 DEF KeptInv
  <1>4. CASE UNCHANGED evars
    <2>1. UNCHANGED <<mode, output, wanted, stage, results, dirs, pc, frame, resume_at_index, since, until>>
      BY <1>4 DEF evars, vars, post, files, counts, setting, loop
    <2>2. /\ CommandsFail' = CommandsFail
          /\ \A end : Settled(end)' <=> Settled(end)
          /\ \A r, end : Kept(r, end) => Kept(r, end)'
      BY <2>1, SameKept
    <2>3. Settled(until)' <=> Settled(until)
      BY <2>1 DEF Settled, TimeSteps, Inline, UsePrevious, Written
    <2> QED
      BY <2>1, <2>2, <2>3 DEF KeptInv, LoopsAreOver
  <1> QED
    BY <1>1, <1>2, <1>3, <1>4 DEF ENext

(* For any number of launches, interrupted or not, and of frames that      *)
(* arrive between them: what statistics a launch leaves, made or kept, are *)
(* of the lists it leaves, although those kept may lack what arrived later.*)
THEOREM StatisticsOfLists == ExperimentSpec => []StatisticsAreOfLists
  <1> DEFINE All == IInv /\ Reliable /\ EInv /\ KeptInv
  <1>1. EInit => All
    <2> SUFFICES ASSUME EInit PROVE All
      OBVIOUS
    <2>1. Init /\ stage = "over" /\ pc = "idle" /\ output = NoFiles /\ dirs = FALSE /\ results = NoResults
          /\ launched = 0
      BY DEF EInit, Init
    <2>2. Written = {} /\ \A k \in Kinds : results[k] = NoFile
      BY <2>1 DEF Written, NoFiles, NoResults
    <2>3. WholeFiles /\ Steady /\ FilesSteady /\ TimesSteady
      BY <2>1, <2>2 DEF WholeFiles, NoFiles, Steady, NoGaps, Running, FilesSteady, TimesSteady
    <2>4. EInv /\ KeptInv
      BY <2>1, <2>2 DEF EInv, KeptInv, LoopsAreOver, Kept
    <2> QED
      BY <2>1, <2>3, <2>4, InitInv DEF IInv, Reliable
  <1>2. All /\ [ENext]_evars => All'
    <2> SUFFICES ASSUME All, [ENext]_evars PROVE All'
      OBVIOUS
    <2>1. [Next]_vars
      BY ExperimentStep
    <2>2. IInv'
      BY <2>1, StepInv
    <2>3. Reliable'
      BY <2>1, <2>2, StepWholeFiles, StepSteady, StepFilesSteady, StepTimesSteady DEF Reliable, IInv
    <2>4. EInv'
      BY StepEInv DEF Reliable
    <2>5. KeptInv'
      BY <2>3, StepKept
    <2> QED
      BY <2>2, <2>3, <2>4, <2>5
  <1>3. All => StatisticsAreOfLists
    BY DEF EInv, KeptInv, StatisticsAreOfLists, FreshStatisticsAreCurrent,
           ResumedStatisticsAreOfLists, Complete, MadeOfLists, Kept
  <1> HIDE DEF All
  <1> QED
    BY <1>1, <1>2, <1>3, PTL DEF ExperimentSpec

=============================================================================
