------------------------------- MODULE Driver -------------------------------
(***************************************************************************)
(* The Python driver: meanie3D_run.main and app.tracking.run, which start  *)
(* meanie3D-detect and meanie3D-track for one frame after the other and    *)
(* resume from the files an earlier launch has left.  A frame is a source  *)
(* file or, with --start and --end, a time index of the one source file.   *)
(* Between launches more files may arrive behind those that are there, or  *)
(* --end be put back; every launch has a frame at least.                   *)
(***************************************************************************)
EXTENDS Integers, FiniteSets

CONSTANTS
  Absent, Torn, Partial,   \* contents of a file, as in ResultFile
  Detected, Tracked,       \* lists as the two programs write them
  Start, End,              \* frames are Start .. End - 1 at most; Start = 0 for files
  Modes,                   \* of ModeType, those the driver may be used in
  Interrupts,              \* how often the driver is interrupted, a bound
  Launches                 \* how often it is launched, a bound

None == -2

ModeType ==
  [steps : BOOLEAN,      \* frames are time indices
   inline : BOOLEAN,     \* --inline-tracking
   previous : BOOLEAN,   \* detection.usePrevious
   fail : BOOLEAN]       \* started programs may fail or be killed

ASSUME DriverAssumption ==
  /\ Tracked \notin {Absent, Torn, Partial, Detected}
  /\ Detected \notin {Absent, Torn, Partial}
  /\ Absent \notin {Torn, Partial} /\ Torn # Partial
  /\ Start \in Nat /\ End \in Nat /\ Start < End
  /\ Modes \subseteq ModeType /\ \A o \in Modes : o.steps \/ Start = 0
  /\ Interrupts \in Nat /\ Launches \in Nat

VARIABLES
  mode,             \* the options all launches are given
  until,            \* the sources of a launch are Start .. until - 1
  since,            \* what until was for the last launch without --resume
  pc,               \* the next step of the driver, "idle" between launches
  resume,           \* --resume
  resume_at_index,
  run_count,
  frame,            \* the frame the loops have come to
  last,             \* the frame of last_cluster_file, or None
  dirs,             \* the output directories exist
  output,           \* the contents of the cluster files
  linked,           \* the frames tracked against what is in the file before
  launched, interrupted   \* counts of launches and interrupts

loop == <<run_count, frame, last>>
files == <<dirs, output, linked>>
setting == <<mode, until, since>>
counts == <<setting, launched, interrupted>>
vars == <<pc, resume, resume_at_index, loop, files, counts>>

(* What the programs may leave in a file, see ClusterFile.                 *)
File == INSTANCE ResultFile WITH content <- output, latest <- launched

TimeSteps == mode.steps
Inline == mode.inline
UsePrevious == mode.previous
CommandsFail == mode.fail

Frames == Start .. End - 1
Sources == Start .. until - 1
IsList(f) == f \in Frames /\ output[f] \in {Detected, Tracked}
Written == {f \in Frames : output[f] # Absent}
NoFiles == [f \in Frames |-> Absent]

Init ==
  /\ mode \in Modes /\ until = Start + 1 /\ since = until
  /\ pc = "idle" /\ resume = FALSE /\ resume_at_index = 0
  /\ run_count = 0 /\ frame = Start /\ last = None
  /\ dirs = FALSE /\ output = NoFiles /\ linked = {}
  /\ launched = 0 /\ interrupted = 0

(* main(): without --resume, the results of earlier launches go.           *)
Launch ==
  /\ pc \in {"idle", "raised", "interrupted"} /\ launched < Launches
  /\ resume' \in BOOLEAN /\ until' \in until .. End
  /\ IF resume' THEN UNCHANGED <<files, since>>
     ELSE dirs' = FALSE /\ output' = NoFiles /\ linked' = {} /\ since' = until'
  /\ launched' = launched + 1
  /\ frame' = Start
  /\ pc' = "run"
  /\ UNCHANGED <<mode, resume_at_index, run_count, last, interrupted>>

(* The frames an earlier launch has written, when frames are time indices. *)
BeforeResumeOrAt(count) == TimeSteps /\ frame <= count
BeforeResume(count) == TimeSteps /\ frame < count

(* The end of the body of the loops, over files or over time indices.      *)
ProceedPastEnd ==
  /\ frame' = frame + 1
  /\ pc' = IF frame' > until THEN "idle" ELSE IF TimeSteps THEN "run" ELSE "frame"

Proceed ==
  /\ frame' = frame + 1
  /\ pc' = IF frame' = until THEN "idle" ELSE IF TimeSteps THEN "run" ELSE "frame"

(* run() from its start to its loop over files.                            *)
Run ==
  /\ pc = "run"
  /\ IF ~resume /\ (~TimeSteps \/ frame <= 0)
     THEN dirs' = TRUE /\ output' = NoFiles /\ linked' = {}
     ELSE UNCHANGED files
  /\ resume_at_index' = IF resume THEN Cardinality(Written) ELSE 0
  /\ IF BeforeResume(resume_at_index')
     THEN Proceed /\ UNCHANGED <<run_count, last>>
     ELSE /\ run_count' = IF TimeSteps THEN frame + 1 ELSE 0
          /\ last' = IF TimeSteps THEN frame - 1 ELSE None
          /\ pc' = "frame"
          /\ UNCHANGED frame
  /\ UNCHANGED <<resume, counts>>

SkipCount == run_count <= resume_at_index

(* continue: neither tracking nor the bookkeeping at the end of the loop.  *)
SkipAgain ==
  /\ pc = "frame" /\ resume_at_index > 0 /\ SkipCount
  /\ UNCHANGED vars

Skip ==
  /\ pc = "frame" /\ resume_at_index > 0 /\ SkipCount
  /\ Proceed
  /\ run_count' = run_count + 1
  /\ UNCHANGED <<resume, resume_at_index, last, files, counts>>

(* What a started program leaves in the file of the frame: nothing changes *)
(* unless it runs, and if it does, write() does its work or fails.         *)
Command(runs, list) ==
  /\ UNCHANGED dirs
  /\ \/ (~runs \/ ~dirs \/ CommandsFail) /\ UNCHANGED <<output, linked>>
     \/ runs /\ dirs /\ \E c \in IF CommandsFail
                                 THEN File!Outcomes(output[frame], list) ELSE {list} :
          /\ output' = [output EXCEPT ![frame] = c]
          /\ linked' =
               IF c = list
               THEN (linked \ {frame, frame + 1})
                      \cup {f \in {frame} : list = Tracked /\ last = frame - 1}
               ELSE IF c = output[frame] THEN linked
               ELSE linked \ {frame, frame + 1}

HavePrevious == (run_count > 0 \/ (TimeSteps /\ frame > 0)) /\ last # None

(* meanie3D-detect; it exits unless a previous file it is given exists and *)
(* can be read where it is read.                                           *)
Detect ==
  /\ pc = "frame" /\ ~(resume_at_index > 0 /\ SkipCount)
  /\ LET given == HavePrevious /\ (Inline \/ UsePrevious)
     IN  Command(given => IsList(last),
                 IF Inline /\ HavePrevious THEN Tracked ELSE Detected)
  /\ pc' = IF Inline THEN "end" ELSE "track"
  /\ UNCHANGED <<resume, resume_at_index, loop, counts>>

TrackWantedLate == run_count > 1 /\ frame > 1
TrackWanted ==
  \/ (~TimeSteps \/ frame <= 0) /\ run_count > 0
  \/ TimeSteps /\ frame > 0

(* meanie3D-track reads both files; os.path.abspath(None) raises.          *)
Track ==
  /\ pc = "track" /\ TrackWanted /\ last # None
  /\ Command(IsList(last) /\ IsList(frame), Tracked)
  /\ pc' = "end"
  /\ UNCHANGED <<resume, resume_at_index, loop, counts>>

TrackRaises ==
  /\ pc = "track" /\ TrackWanted /\ last = None
  /\ pc' = "raised"
  /\ UNCHANGED <<resume, resume_at_index, loop, files, counts>>

NoTrack ==
  /\ pc = "track" /\ ~TrackWanted
  /\ pc' = "end"
  /\ UNCHANGED <<resume, resume_at_index, loop, files, counts>>

EndFrameKeeping ==
  /\ pc = "end"
  /\ Proceed
  /\ last' = IF IsList(frame) THEN frame ELSE last
  /\ run_count' = run_count + 1
  /\ UNCHANGED <<resume, resume_at_index, files, counts>>

EndFrame ==
  /\ pc = "end"
  /\ Proceed
  /\ last' = frame
  /\ run_count' = run_count + 1
  /\ UNCHANGED <<resume, resume_at_index, files, counts>>

Interrupt ==
  /\ pc \notin {"idle", "raised", "interrupted"} /\ interrupted < Interrupts
  /\ interrupted' = interrupted + 1
  /\ pc' = "interrupted"
  /\ UNCHANGED <<setting, resume, resume_at_index, loop, files, launched>>

Step == Run \/ Skip \/ Detect \/ Track \/ TrackRaises \/ NoTrack \/ EndFrame

Next == Launch \/ Step \/ Interrupt

Spec == Init /\ [][Next]_vars /\ WF_vars(Step)

-----------------------------------------------------------------------------
(* Types.                                                                  *)
TypeOK ==
  /\ mode \in Modes /\ until \in Start + 1 .. End /\ since \in Start + 1 .. until
  /\ pc \in {"idle", "run", "frame", "track", "end", "raised", "interrupted"}
  /\ resume \in BOOLEAN /\ dirs \in BOOLEAN
  /\ resume_at_index \in Nat /\ run_count \in Nat
  /\ frame \in Start .. until /\ (pc # "idle" => frame \in Sources)
  /\ last \in Frames \cup {None, Start - 1}
  /\ output \in [Frames -> {Absent, Torn, Partial, Detected, Tracked}]
  /\ Written \subseteq Sources
  /\ linked \subseteq Frames /\ \A f \in linked : output[f] = Tracked

(* A launch that does not resume never leaves a frame tracked against      *)
(* another frame than the one before it, or against a list that has been   *)
(* replaced since, whatever fails and wherever it is interrupted.          *)
FreshTrackedIsLinked ==
  ~resume => \A f \in Frames : output[f] = Tracked => f \in linked

(* Without failing programs, such a launch leaves every frame detected and *)
(* every frame after the first tracked when it comes to its end.  Previous *)
(* results, for tracking or filtering, are no option over time indices:    *)
(* meanie3D-detect is given a previous file at the first index as well,    *)
(* and exits.                                                              *)
FreshIsComplete ==
  (/\ pc = "idle" /\ launched > 0 /\ ~resume
   /\ ~CommandsFail /\ ~(TimeSteps /\ (Inline \/ UsePrevious))) =>
    \A f \in Sources : IF f = Start THEN IsList(f) ELSE f \in linked

(* The number of files is the index to resume at: unless programs fail, the*)
(* time indices that have a file are the first ones, across interrupts and *)
(* resumed launches.                                                       *)
NoGaps ==
  TimeSteps /\ ~CommandsFail => \A f \in Written : Start .. f \subseteq Written

(* "If True then pick off where you left off": a resumed launch that comes *)
(* to its end leaves no frame out.                                         *)
ResumedIsComplete == pc = "idle" /\ resume /\ dirs => Written = Sources
=============================================================================
