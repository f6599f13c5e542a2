----------------------------- MODULE Experiment -----------------------------
(***************************************************************************)
(* meanie3D_run.main as a whole: the driver's loops, and behind them the   *)
(* postprocessing of what they have left, postprocessing.run.  The output  *)
(* directory is the working directory, where the postprocessing looks.     *)
(***************************************************************************)
EXTENDS Driver

CONSTANTS
  NoFile,      \* a result of meanie3D-trackstats that is not there
  Wanted       \* sections postprocessing.tracks the driver may be used with

OptionType ==
  [dictionary : BOOLEAN, gnuplot : BOOLEAN, length : BOOLEAN, vtk : BOOLEAN,
   plot : BOOLEAN]      \* plotStats

ASSUME ExperimentAssumption ==
  /\ Wanted \subseteq OptionType
  /\ NoFile # Torn

VARIABLES
  wanted,       \* the section of the configuration
  stage,        \* "tracking" while the driver's loops run
  results,      \* of trackstats: NoFile, Torn, or the lists they were made of
  plot_stats    \* plot_stats.gp exists

post == <<stage, results, plot_stats>>
evars == <<vars, wanted, post>>

Kinds == {"dictionary", "lengths"}
NoResults == [k \in Kinds |-> NoFile]

(* check_configuration: plots need the files for gnuplot.                  *)
Gnuplot == wanted.gnuplot \/ wanted.plot

(* lengths.txt is written for gnuplot only.                                *)
Made(k) == IF k = "dictionary" THEN wanted.dictionary ELSE wanted.length /\ Gnuplot

EInit ==
  /\ Init
  /\ wanted \in Wanted
  /\ stage = "over" /\ results = NoResults /\ plot_stats = FALSE

ELaunchKeeping ==
  /\ Launch
  /\ pc = "idle" => stage \in {"over", "interrupted"}
  /\ stage' = "tracking"
  /\ UNCHANGED <<wanted, results, plot_stats>>

(* A launch that does not resume removes the directory with the results.   *)
ELaunch ==
  /\ Launch
  /\ pc = "idle" => stage \in {"over", "interrupted"}
  /\ stage' = "tracking"
  /\ IF resume' THEN UNCHANGED <<results, plot_stats>>
     ELSE results' = NoResults /\ plot_stats' = FALSE
  /\ UNCHANGED wanted

Tracking == (Step \/ Interrupt) /\ UNCHANGED <<wanted, post>>

(* The loops have come to their end.                                       *)
BeginPostprocessing ==
  /\ stage = "tracking" /\ pc = "idle"
  /\ stage' = IF dirs THEN "statistics" ELSE "over"
  /\ UNCHANGED <<vars, wanted, results, plot_stats>>

(* All the files trackstats is to write are there; one cannot tell whether *)
(* those with tracks for VTK are.                                          *)
HaveFiles ==
  /\ wanted.dictionary => results["dictionary"] # NoFile
  /\ Gnuplot => plot_stats
  /\ wanted.length => results["lengths"] # NoFile
  /\ ~wanted.vtk

SkipStatistics ==
  /\ stage = "statistics" /\ resume /\ HaveFiles
  /\ stage' = "plot"
  /\ UNCHANGED <<vars, wanted, results, plot_stats>>

Covered == [f \in Frames |-> IF IsList(f) THEN output[f] ELSE Absent]
Broken == {f \in Written : ~IsList(f)}

(* meanie3D-trackstats as in TrackStats: files that cannot be read are left*)
(* out, unless one of them is the first of the directory.                  *)
Statistics ==
  /\ stage = "statistics" /\ ~(resume /\ HaveFiles)
  /\ results' = [k \in Kinds |-> IF Made(k) THEN Covered ELSE results[k]]
  /\ stage' = "plot"
  /\ UNCHANGED <<vars, wanted, plot_stats>>

Outcome(k) == IF Made(k) THEN {results[k], Torn, Covered} ELSE {results[k]}

StatisticsFail ==
  /\ stage = "statistics" /\ ~(resume /\ HaveFiles)
  /\ IF CommandsFail
     THEN results' \in {r \in [Kinds -> {NoFile, Torn, Covered} \cup {results[k] : k \in Kinds}] :
                          \A k \in Kinds : r[k] \in Outcome(k)}
     ELSE Broken # {} /\ UNCHANGED results
  /\ stage' = "cleanup"
  /\ UNCHANGED <<vars, wanted, plot_stats>>

Plot ==
  /\ stage = "plot"
  /\ plot_stats' = (plot_stats \/ wanted.plot)
  /\ stage' = "cleanup"
  /\ UNCHANGED <<vars, wanted, results>>

Cleanup ==
  /\ stage = "cleanup"
  /\ plot_stats' = (plot_stats /\ ~Gnuplot)
  /\ stage' = "over"
  /\ UNCHANGED <<vars, wanted, results>>

(* The user stops the driver, and with it what it has started.             *)
InterruptPost ==
  /\ stage \in {"statistics", "plot", "cleanup"}
  /\ IF stage = "statistics" /\ ~(resume /\ HaveFiles)
     THEN results' \in {r \in [Kinds -> {NoFile, Torn, Covered} \cup {results[k] : k \in Kinds}] :
                          \A k \in Kinds : r[k] \in Outcome(k)}
     ELSE UNCHANGED results
  /\ stage' = "interrupted"
  /\ UNCHANGED <<vars, wanted, plot_stats>>

PostStep ==
  \/ BeginPostprocessing \/ SkipStatistics \/ Statistics \/ StatisticsFail
  \/ Plot \/ Cleanup

ENext == ELaunch \/ Tracking \/ PostStep \/ InterruptPost

ExperimentSpec ==
  EInit /\ [][ENext]_evars /\ WF_evars(Step /\ UNCHANGED <<wanted, post>>) /\ WF_evars(PostStep)
-----------------------------------------------------------------------------
Complete == stage = "over" /\ pc = "idle" /\ launched > 0 /\ dirs

(* A launch that does not resume has made its statistics of the lists it   *)
(* leaves; where programs fail they may be torn or missing.                *)
FreshStatisticsAreCurrent ==
  Complete /\ ~resume =>
    \A k \in Kinds :
      /\ results[k] \in {NoFile, Torn, Covered}
      /\ ~CommandsFail => results[k] = IF Made(k) THEN Covered ELSE NoFile

(* One that resumes keeps those of an earlier launch, although sources have*)
(* arrived since.  How old they may be: unless programs fail, the lists    *)
(* they were made of have not changed since, and what they lack is only    *)
(* the frames behind the last one of some launch, the last one that did not*)
(* resume or a later one.  A file that was torn stays.                     *)
CoveredBefore(end) == [f \in Frames |-> IF f < end THEN Covered[f] ELSE Absent]

ResumedStatisticsAreOfLists ==
  Complete /\ resume /\ ~CommandsFail =>
    \A k \in Kinds : \/ results[k] \in {NoFile, Torn}
                     \/ \E end \in since .. until : results[k] = CoveredBefore(end)

(* No statistics outlive the lists they were made of.                      *)
StatisticsAreOfLists == FreshStatisticsAreCurrent /\ ResumedStatisticsAreOfLists

(* Every launch comes to an end with its postprocessing, if no started     *)
(* program hangs.                                                          *)
LaunchEnds ==
  stage = "tracking" ~> stage \in {"over", "interrupted"} \/ pc \in {"raised", "interrupted"}
=============================================================================
