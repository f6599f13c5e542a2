# Verification of meanie3D

meanie3D finds clusters in gridded measurements by mean-shift, writes them to
one NetCDF file per time step ("frame"), tracks them from frame to frame and
derives statistics from the tracks. This directory holds TLA+ models of the
parts of the program in which decisions depend on each other across steps,
runs or processes, model-checking runs of them (TLC) and proofs (TLAPS).
Paths below are relative to `src/include/meanie3D/`, to `src/src/executables/`
for `meanie3D-*.cpp` and to `src/python/meanie3D/` for `*.py`.

## 1. The system

```
 meanie3D_run.py  main()                          one process, Python
   └─ app/tracking.py  run()                      per scale, per time index
        ├─ meanie3D-detect   (started by a shell) one process per frame
        │    data store → feature space → filters → mean shift
        │      → ClusterList::aggregate_cluster_graph
        │      → filter_with_previous_clusters   (--postprocess-with-previous-output)
        │      → Tracking::track                 (--inline-tracking)
        │      → ClusterList::write  ─────────────┐
        └─ meanie3D-track                          │  <source>-clusters.nc
             ClusterList::read (previous, current) ◄┤
             Tracking::track, ClusterList::save ───┘
   └─ app/postprocessing.py → meanie3D-trackstats, plotters
```

The processes share nothing but files: what one frame knows of the one before
it (ids, uuids, the counters they are taken from, whether tracking was
performed) is what `ClusterList::write` stored and `ClusterList::read` returns.
Within one process everything is sequential but the loops marked `omp parallel`
(feature space construction, smoothing, weight computation).

| component | state | operations | correct when | modules |
|---|---|---|---|---|
| tracking (`tracking/tracking_impl.h`) | ids and uuids of the current clusters, `tracked_ids`, `new_ids`, `dropped_ids`, `merges`, `splits`, counters | `track`: preliminaries, correlation, matchmaking, fresh ids, drop-outs, merges, splits | ids are distinct at every step, fresh ids are new, no track is lost, each run ends | `Tracking`, `IdAssignment` |
| frame chain (detection, tracking and files of all frames) | the list in memory, the cluster files | detect, collate with the previous output, read, track, skip, save, track by hand | along tracked frames an id names one track and uuids differ | `Chain`, `ClusterLists` |
| cluster file (`clustering/cluster_list_impl.h`, `write`) | the path, path-new, the open file | create, fill, skip a cluster, remove, rename, close, each of which may fail or be the last | the last list saved survives until a writer fails or skips a cluster, a reader finds what `ResultFile` allows | `ClusterFile`, `ResultFile` |
| driver (`meanie3D_run.py`, `app/tracking.py`) | directories, result files, `resume_at_index`, `run_count`, `last_cluster_file` | launch, resume, loop over frames, start programs, interrupt | each frame is tracked against the one before it; resuming loses nothing; launches end | `Driver` |
| postprocessing (`app/postprocessing.py`) | statistics files in the working directory | make, skip, plot, clean up | statistics are of lists that are still there, those of a fresh launch of all of them | `Experiment` |
| clustering (`clustering/cluster_list_impl.h`, `aggregate_*`) | clusters, their points, `Point::cluster` | join points, merge clusters, coalesce, remove filled-in points | clusters are the parts the shifts connect; points and clusters agree; the loops end | `Aggregation`, `Partition` |
| filtering with previous clusters (`clustering/cluster_utils_impl.h`) | the list, erased and merged clusters, the id counter | overlap, merge, replace, write | parts of a previous cluster that touch come together, no point is lost, ids differ | `FilterPrevious` |
| detection pipeline (`clustering/detection_impl.h`) | context with what has been built | build, filter, replace, measure, flag | every usable grid point becomes a point; clusters hold the values of the data; margins are flagged | `Detection` |
| feature space (`featurespace/featurespace_impl.h`, `build`) | points, their number, ranges of values; shared by threads | chunks of grid points, discard, replace, push | no grid point is lost or doubled, ranges contain all values | `FeatureSpace` |
| filters (`filters/`) | points, array index, ranges | smoothing by dimension, replacement, convection, weights | each stage reads the stage before it, points filled in are not taken for measured ones | `ScaleSpaceFilter`, `Detection` |
| arrays and index mapping (`array/`) | a point per grid point | get, set, replace, neighbours, linear index | a grid point and its linear index name each other | `LinearIndexMapping`, `Detection` |
| NetCDF access (`featurespace/netcdf_data_store.h`, `get`) | buffers | read, check validity | invalid and out-of-range values are told apart from values | `FeatureSpace` (as its input) |
| track statistics (`meanie3D-trackstats.cpp`, `tracking/track*.h`) | tracks, graph, points parked on disk | add a file, add nodes and links, exclude degenerates, count | links lead from the step before and are those tracking found; counts are those of the tracks | `TrackStats` |
| point index, weight functions, histograms, coordinates, converters, visualisation | none that outlives a call | numerical formulas, format conversions, pictures | out of scope, see section 7 | |

What is hard here and hard to test: the many ways in which `Tracking` may
re-tag a cluster after books were kept about it; ties, resolved by whatever
order `std::sort`, addresses or threads give; counters that travel through
files, with sentinels, a variable read before it is assigned and frames that
are skipped; a file replaced in place by processes that may die; a driver that
ignores return codes and derives where to resume from the number of files;
clusters deleted while points still refer to them; a loop that starts over;
threads that compare with a shared least value in one step and set it in
another; lists of points in which measured values and values filled in look the
same; statistics that are rebuilt from whatever files a directory lists, in its
order, and skipped when they exist.
PROJECT.json lists each at its line ("hazards").

## 2. Modules

Each state machine has one action per operation or loop iteration of the code.
Data is abstracted to what decisions depend on: sizes, overlaps, distances and
likelihoods are small numbers, points are elements of a set, a file is a list
or one of the ways not to be one.

* **Tracking** is one call of `Tracking<T>::track` (`tracking_impl.h` 98-182 and
  what it calls). `run` is the input, `pc`, `n`, `m` the place in `track`; the
  other variables have the names of the code. `Match` is an iteration of the
  matchmaking loop (555 ff.), in any order among equal likelihoods; `FreshId`
  and `DropOuts` follow (624 ff.); `HandleMerge` and `HandleSplit` are
  iterations of `handleMerges` and `handleSplits`. `FindBest` keeps the
  sticky `maxIsTied` of the code. `SkipUninitialised` is the emptiness test on
  `run.N` before `run.N` is assigned (114): it may come out either way.
* **IdAssignment** is what such a run promises about ids. `Tracking` is shown
  to implement it (`AssignsIds`).
* **ClusterLists** has cluster lists as detection, tracking and
  `ClusterList::read` leave them (`Detected`, `Collated`, `Tracked`,
  `ReadBack`), **Chain** the frames one after the other: detected, collated with
  the previous output if that was asked for, tracked in the same process or by
  meanie3D-track, skipped, saved. `Read` is also meanie3D-track run by hand on a
  frame that is done (the driver never does that). A collated list has clusters
  without a uuid and with ids above `highest_id`, as
  `--postprocess-with-previous-output` leaves them; where two have one id the
  write exits and so does the chain (`exited`). `track` in a list is not part of
  the program: it records which object a cluster is. The choices of one tracking
  run, `Tracking`'s subject, are any matching of clusters here, those of the
  collating, `FilterPrevious`' subject, any clusters replaced by any others.
* **ClusterFile** is `ClusterList::write` with the failures of each step and a
  kill between any two. A cluster whose variable cannot be added is left out
  with a message, and the write goes on and ends with success (`FillSkipping`);
  a file that cannot be closed is one more message (`CloseFails`). `saved` and
  `broken` are history variables. A killed process leaves its open file torn or
  as it was, one that ends by `exit()` may leave a NetCDF file without all
  clusters: that the buffers of the NetCDF library are written at close is the
  abstraction made here. **ResultFile** says what others may find; `ClusterFile`
  implements it and `Driver` is built on it.
* **Driver** is `main` of `meanie3D_run.py` and `run` of `app/tracking.py`.
  `mode` holds the options; `output` the result files by frame; `linked`, not
  in the program, the frames tracked against what the file before them still
  holds. `Command` is a started program: nothing without the directory of its
  log file, one of `ResultFile`'s outcomes otherwise. A launch works on the
  frames `Start` to `until - 1`, at least one; the next may find more source
  files or a larger end. `since`, not in the program, is what `until` was for
  the last launch that did not resume.
* **Aggregation** is `aggregate_zeroshifts`, `aggregate_cluster_graph`, the
  coalescence with the strongest neighbour and the removal of filled-in points.
  A cluster is named by the point it was created for; that the allocator may
  give a new cluster the address of a deleted one is not modelled, but
  `PointsAndClusters` shows that nothing refers to a deleted one. **Partition**
  is its promise.
* **FilterPrevious** is `filter_with_previous_clusters` with the printing of
  clusters before it and the write behind it. That clusters which replace
  others get no uuid, and that `highest_id` stays, has no effect inside of it
  and is `Chain`'s.
* **FeatureSpace** is `FeatureSpace::build` (`featurespace_impl.h` 147-300),
  one action per step another thread can see: fetching a chunk, reading the
  values of a grid point, the critical section that adds the point, the
  comparison of a value with the shared range, and the assignment behind it. A
  cell of the input has a value, or is missing or out of range, as
  `NetCDFDataStore::get` reports it.
* **ScaleSpaceFilter** is `apply_parallellized`: a stage per dimension, each
  reading the index the one before it has filled, grid lines taken by threads,
  ranges with the same unguarded comparisons. **LinearIndexMapping** maps grid
  points to linear indexes and back.
* **Detection** composes the two as `Detection::run` does, one thing after
  another, each if it was asked for: feature space, the replacement filters in
  the order they were given (`replacement_filter_impl.h`), the convection
  filter, smoothing, the weight filter; then one cluster, its values
  (`replace_points_from_datastore`, `Restored`) and its margin flag. It stops
  where `Aggregation` begins: a cluster is any set of measured points. A point
  may have fewer values than there are variables. What is read behind the end of
  its vector is `Garbage`, any of a few numbers, and taken to stay the same while
  it is smoothed; what is written there goes unnoticed or ends the process
  (`failed`). An average of no values is `NaN`.
* **TrackStats** is `meanie3D-trackstats`: one action per directory entry
  (`AddEntry` with its torn, partial and foreign cases), then the dictionary
  with degenerate tracks excluded, then the loops that count lengths and
  cumulated sizes with each cluster's points read back from disk.
* **Experiment** extends `Driver` by what comes behind its loops:
  `postprocessing.run`, its checks for existing files, plots and clean-up. All
  its steps outside of that are the driver's.
* **MC…** give inputs for TLC, **…Proofs** hold the theorems.

`Tracking` and `Chain` meet in the counters and ids of lists: `Tracking`'s
assumptions on its input (distinct ids, counter at least as high as each id)
are what `Chain` shows of the files, and what `Chain` takes for granted of a
tracking run (a fresh id per unmatched cluster, an id of the previous list at
most once) is what `Tracking` shows. `ClusterFile` stands between `Chain`'s
`Save` and the driver's files. `FilterPrevious` is run between `Aggregation`
and `Save`. `Detection` makes the points `Aggregation` joins; `TrackStats` is one
of the programs `Experiment` starts, and its inputs are lists as `Tracking`
leaves them in files `ResultFile` allows.

## 3. Runs

No run takes more than three minutes with two workers. Apart from these, four
runs end in a violation (section 5).

| run | properties | instance |
|---|---|---|
| `tracking` | `TypeOK` `DistinctIds` `StableMatching` `NoTrackLost` `OneMergePerCluster` `AssignsIds` `RunEnds` | 10,930 inputs, 407,738 states |
| `chain` | `TypeOK` `IdNamesOneTrack` `UuidsDiffer` | 3 frames of up to 2 clusters, made of up to 3, 204,800 states |
| `cluster_file` | `TypeOK` `SavedOrNewer` `ReplacedByNewer` `WritesResultFile` | 8 writes, 9,408 states |
| `driver` (`Experiment`) | `TypeOK` `FreshTrackedIsLinked` `FreshIsComplete` `NoGaps` `StatisticsAreOfLists` `LaunchEnds` | up to 3 frames, 3 launches, 2 interrupts, every mode and option, 1,210,524 states |
| `aggregation` | `TypeOK` `PointsAndClusters` `ClustersAreComponents` `OriginalsOnce` `GroupsGrowTogether` `Ends` | 4 points, 17,472 inputs, 366,740 states |
| `filter` | `TypeOK` `NothingLost` `SplitsTogether` `OwnersListed` `CanBeWritten` | 3 detected and 2 previous clusters on 5 points, 693,155 states |
| `detection` | `TypeOK` `EveryCellOnce` `SmoothedInStages` `AloneIsScaled` `ClustersAreMeasured` | 609 fields of 3 x 2 grid points and two variables, one and two threads, 358,571 states |
| `track_stats` | `TypeOK` `LinksJoinSteps` `LinkedAsTracked` `StatisticsCoverTracks` | directories of up to 3 entries of up to 2 clusters, 93,969 states |

What they show, where the names do not say it. `IdNamesOneTrack` and
`UuidsDiffer` (chain) speak of frames that were tracked one against the other;
clusters without a uuid are left only by lists that were collated and not
tracked. `ReplacedByNewer` and `SavedOrNewer` (cluster_file) end their promise at
a write that fails, is killed, leaves out a cluster or cannot close its file,
because the code does lose the complete list then (section 5); until such a
write, and whatever `remove` and `rename` do, it is there. `StatisticsAreOfLists`
(driver): a fresh launch has statistics of the lists it leaves; one that resumes
may keep older ones, but if no program fails they are of all frames of some launch
since the last fresh one, by lists that have not changed since. `SplitsTogether`
(filter): the parts of a previous cluster that touch another part come into one
cluster; it neither asks for nor forbids that the others do.

`EveryCellOnce` (detection): a grid point with valid values of all variables
becomes exactly one point, one to be ignored (a value missing or beyond a
threshold, and not replaced) becomes none, and no other becomes two, whichever
thread takes it. Whether a point with a value out of the valid range is to be
one is left open: the code keeps it without that value, its documentation says
otherwise (section 5). `SmoothedInStages`: where there is a point after a stage
of the smoothing it is the sum over the window of what the stage before has
left, never of results of its own stage, and no point is missing that has
something in its windows; that points are made where there were none is left
open for the same reason. `AloneIsScaled`: with one thread the ranges contain
the values that are numbers; those of the feature space only if no vector is too
short. `ClustersAreMeasured`: points filled in by the smoothing are kept out of
clusters, and what a cluster says of its points are the data, whatever the
filters made of them, missing ones and ones out of range included: within the
thresholds otherwise, unless the variable has a replacement. `LinksJoinSteps`:
in whatever order a directory is read, a link leads from one entry to the next;
`LinkedAsTracked`: in whatever order, the links are all that the lists say of
the clusters of the entry before, and nothing else (read in the order of time:
the continuations, splits and merges the tracking found);
`StatisticsCoverTracks`: a track counts once, in the first bin its length fits
or in the one for longer tracks, and the points it is said to have covered are
its own, though they come back from files named by uuid. `OriginalsOnce`
(aggregation): an original point is once in the list of the cluster it points to
and in no other, and no filled-in point is left.

Why the bounds are enough:

* *tracking*: merges and splits need two clusters on one side, a rival for one
  of them a second on the other, a tie two candidates; the families in
  `MCTracking` take every pattern of overlaps for 2x2, 2x3 and 3x2 clusters,
  every pattern of possible matches and of likelihoods with ties for 2x2 and 3x2
  (both previous clusters can be matched with each current one, or with none: so
  two contests decide each other, ties between all pairs included), and empty
  lists, wrong times, missing variables and counters apart from them. Overlaps
  of 0, 1 and 6 and the thresholds of a third and three quarters give cover
  ratios on both sides of each threshold. `MaxId` is never reached: the
  assumption that a run does not use up the ids is part of `RunsAssumption`.
* *chain*: a frame that was skipped or not tracked and one on both sides of it
  make three; with two clusters ids can be continued, exchanged, dropped and
  given anew. Three detected clusters are the fewest of which two become a new
  one beside one that stays. Tracking by hand is unbounded. Any frame may be
  skipped (`StackMayBeZero`), so gaps in time, which are skipped the same way, need
  none of their own.
* *cluster_file*: no failure's remains matter for more than two later writes;
  the state repeats, up to the numbers of lists, long before the eighth.
* *driver*: three frames have a first, one whose predecessor is the first, and
  one behind a frame that failed, or came only after a launch was over; a third
  launch resumes what a second resumed, two interrupts can hit a launch and its
  resumption. The run of the finding has a fourth frame.
* *aggregation*: four points in a row are the smallest space in which two
  clusters of two points merge. Inputs are every shift of all points, shifts to
  neighbours with some points filled in, and every response of up to 3 with
  points that have no cluster.
* *filter*: a detected cluster that two previous ones share, its neighbours on
  both sides, and a cluster nobody covers; thirds need three points.
* *detection*: with two variables a point can have one value of two; a 3 x 2
  grid is the smallest with a line of three in one dimension and of two in the
  other, so that windows overlap and both dimensions are smoothed; the code's
  chunk of 10 grid points is 2, so that three chunks are shared by two threads.
  Kernels are `<<2, 1>>`: a point and its neighbour. Values are multiples of a
  quarter (`Unit`), to which averages are rounded: enough to tell the comparison
  of `std::greater<int>`, which cuts off fractions, from one of numbers.
  Replacement filters come alone, one behind the other and twice, in each mode,
  with percentages that give no, some, all and more than all values found, and
  with values out of range among them. Which cells a range search reaches is an
  input, of the runs the neighbours on the grid or nothing; which points a
  weight filter keeps, and which measured points make a cluster, is any choice.
  Grids of one dimension are left out by assumption, and so are lowest and
  highest values without a percentage, and filters without a mode.
* *track_stats*: a link needs two steps, a missing step a third; two clusters are
  the smallest list with a split, a merge or an exchange. Entries that are no
  list, torn and partial files stand at every place; two kinds of histogram bins
  have something below, in and above them. Uuids repeat in some of the inputs.

Deadlock checking is off where the program stops: a launch is over, a list is
written, the bound on writes is reached.

## 4. Fairness

Safety needs none. `RunEnds` (Tracking) assumes weak fairness of `Next`: one
thread, nothing it calls blocks. `Ends` (Aggregation) the same, for the same
reason. `LaunchEnds` (Driver) assumes weak fairness of `Step`, the driver's own
steps, and of `PostStep`, those of the postprocessing, not of launches or
interrupts: both are sequential, and the programs they wait for end, as their
parts do in the other modules.

## 5. Where the code and its words part

Four runs refute what a comment or the documentation says; PROJECT.json
("findings") quotes the lines.

| run | what TLC finds |
|---|---|
| `finding_resume` | resuming over files skips one frame too many, which is never detected |
| `finding_margin` | a cluster beside points marked as off limits is not flagged: they are looked up among the points of the feature space, where they are not |
| `finding_boundary` | parts of a previous cluster that do not touch are merged: `have_boundary` is the constant true (`cluster_utils_impl.h` 150), against the comment above it |
| `finding_ranges` | two threads compare a value with the ranges outside of the critical section that sets them, so the ranges do not contain every value |

Others were met while modelling and are in the models as the code has them,
without a run of their own. Where a document says one thing and the code does
another, the properties are stated so that they ask for neither:

* `tracking_impl.h` 708: `maxIsTied`, once set, is never reset: of the criteria 1,
  1, 2 none wins, though the last is the best (`tracking.h` 268-269).
* `tracking_impl.h` 114, 145: a frame without clusters is saved with its counters
  at zero, and uuids start again behind it (`utils/id.h` 39).
* `cluster_list_impl.h` 189-200: a file torn in a first write is never deleted and
  stops every later write. 1163-1169: the coalescence "starts over" at the second
  cluster; the first may stay beside a stronger one. 707, at the verbosity
  `commandline.h` 81 calls details: showing clusters sorts the list, ids are then
  given twice, and the write exits.
* `tracking_impl.h` 796: a cluster that continues a track through a merge or a
  split leaves the id in `dropped_ids`, so that it is in two of the three sets
  `cluster_list.h` 97-98 describes as tracked and dropped. 935: `handleSplits`
  puts the id a cluster loses into `tracked_ids`, not the one it gets. 804, 946:
  merges and splits recorded before a later re-tagging name ids no cluster has
  (`cluster_list.h` 100-101).
* `cluster_list_impl.h` 333-340: a cluster whose variable cannot be added is left
  out, though `cluster_ids` names it; the incomplete list then replaces the
  complete one and the program ends with success, against "finally deleting the
  original when done" (212-213). `read` of such a file fails.
* `cluster_list_impl.h` 416: a process that dies between the removal of the old
  file and the close of the new one leaves neither readable, against "finally
  deleting the original when done" (212-213); the branch that moves the file
  aside (424-425) is never taken, because `remove` throws.
* `app/tracking.py` 305: after a resume over files the first frame that needs
  tracking calls `os.path.abspath(None)`, which raises. 186, 232: tracking is
  not "re-run" for frames that have a file (228-229). 296 against 295: the
  tracking command is run at time index 0, where there is no previous scan.
  180: with `--start` above 0 no directory is created, and nothing runs.
  257-263: over time indices, inline tracking and `usePrevious` hand the file
  of index -1 to meanie3D-detect, which exits (`detection_commandline.h`
  484-495); no frame is ever detected.
* `cluster_utils_impl.h` 123: a cluster covered by several previous ones is
  merged into each, so there may be more clusters than before
  (`cluster_utils.h` 51-52), and the threshold of the command line is ignored
  (`detection_commandline.h` 143-144). 138-140: clusters that replace others keep
  `NO_UUID`, and share it in the file if no tracking follows; their ids are above
  the `highest_id` of the list. 206-211: values that stood in for missing ones are
  undone in what is said of clusters, and in a point with fewer values than
  variables the loop writes behind the end of its vector.
* `cluster.h` 156-157: `add_points` "does not insert duplicates"; the code does,
  and removes them at the end of the aggregation.
* `featurespace_impl.h` 246: the replacement of a missing value is assigned to a
  local variable after the value has been left out of the vector, so the point
  has too few values and the ranges are compared with what lies behind them.
* `featurespace_impl.h`, `build`: a point with one variable out of the valid range
  is kept, only that value is left out; `detection_commandline.h` 75-78 and
  `featurespace.h` 125-127 say such points are ignored. `off_limits` has the
  missing values only, not, as `featurespace.h` 133-134 says, those out of range.
* `scalespace_filter.h` 40-42: "does NOT create new points"; it makes one wherever
  the window has a value.
* `scalespace_filter_impl.h` 436, 448: the window ends one before the last grid
  point, whose value is never part of a sum, so that a point there can vanish.
  566-627: the array indexes between the stages do not own the points they are
  given, which are never freed.
* `replacement_filter_impl.h` 103-105: the median replacement without a percentage
  (`detection_commandline.h` 261) multiplies by -1, so that the place of the
  median is in front of the list. 97: for the highest values the list is sorted
  with `std::greater<int>`, which cuts fractions off before it compares. 111: a
  percentage that makes no whole value, as RX-lowest-25 with one value found,
  divides by zero. `convection_filter_impl.h` 191: never told to
  erase, it sets every point to zero, not only "all non-convective points".
  The threshold filter is used nowhere.
* `linear_index_mapping.h` 113: `grid_to_index` counts its loop up from the last
  dimension and leaves the array; it is called nowhere.
* `meanie3D-trackstats.cpp` 182: the histogram of cumulated sizes is sized by
  `ctx.params`, which is assigned only later (197), so that it has no bins.
  472-474: merges are linked only if the directory lists frames in the order of
  steps. 837-846: the first occurrence of a point is counted twice in the sums
  over a track. 1044: whether degenerate tracks are excluded is printed the
  wrong way round. The commas of the dictionary are counted over all tracks
  while the loop leaves degenerate ones out. The basename filter of the options
  is not applied.
* `app/postprocessing.py` 163: a resumed launch leaves statistics alone if their
  files exist, torn or made before the latest frames arrived; it looks for them
  in the working directory, whatever the output directory is. With plots, the
  clean-up removes `plot_stats.gp`, one of the files looked for, so that nothing
  is ever skipped.

## 6. Proofs

The theorems hold for every value of the constants that satisfies the named
assumptions of the modules; no proof assumes a bound of a run.

* **TrackingProofs.** `IInv` is inductive: types and ranges; *Headroom*, the
  fresh ids still needed fit below `MaxId`; *Bounded*, all ids lie below the
  counter; *CarriedIsTracked*, a previous id on a current cluster is in
  `tracked_ids`, because of which a match never gives an id twice; and
  *TaggedSoFar*, where the loop over fresh ids is. Distinct ids are not
  inductive without them: a fresh id is new only because of the counter, and a
  re-tagged one only because the winner's id is nobody's. `TracksInv` follows
  the tracked ids: up to the drop-outs a cluster carries each, from there on
  every previous id that is not tracked is dropped, and only such an id is ever
  taken away. Theorems: types, distinct ids, the bound of the counter,
  `new_ids`, no track lost; with `UuidInv` (uuids differ, `matched_uuids` are of
  clusters with an id of the previous list) that a run implements
  `IdAssignment`. `MatchInv`, for `StableMatching`: ids given so far were given
  to pairs at least as likely as every pair left, and a possible pair no longer
  among those left was beaten by one of them. `MergesInv`, for
  `OneMergePerCluster`: a cluster handled later is not in `merges` yet, and what
  is recorded for one is its match or uncontested.
* **ChainProofs.** `IInv` says of each file what it promises alone (*Own*: ids
  that name one cluster each, and uuids that do unless they are none, which a
  tracked list never has) and of the frames it is linked to (*Link*): the counters
  in a tracked list bound the ids and uuids of every earlier one, collated ones
  whose ids are above their own counter included, because
  `highest_id` of a list that was not tracked is not read back, and the highest id
  in use stands in for it. `Rank` facts, from the library's
  theorems on finite sets, make fresh ids distinct and at most the new counter.
  From this: an id names one track, uuids differ, types.
* **ClusterFileProofs.** `IInv` says what each step has already put where; with
  it any step changes the file under the path as `ResultFile` allows
  (refinement), and the old list goes only when the writing of the new one has
  come to its end, with all clusters or without those skipped
  (`ReplacedByNewer`). `SInv` adds that a complete list that was saved is kept
  (*Kept*) until a writer breaks, skips a cluster or cannot close its file, which
  gives `SavedOrNewer`.
* **DriverProofs.** A launch that does not resume finds no file at and beyond the
  frame it works on, and its `last` is the frame before or none: so whatever
  programs leave, a tracked frame is linked. Two invariants add what holds while
  no program fails: `Steady`, over time indices, that the files are those of the
  first frames, so that their number is where to resume (`NoGaps`), and
  `FreshSteady`, for a launch from frame 0, that the frames before the one worked
  on are there and linked (`FreshIsComplete`). `Experiment` implements `Driver`
  (every step is one of its steps or leaves its variables alone), by which the
  driver's theorems hold of it. `StatisticsAreOfLists`
  (theorem `StatisticsOfLists`), for any number of interrupted and resumed launches
  and of frames that arrive between them, rests on three more: over files at most
  one frame is ever left out, since a launch resumes where the number of files
  says (*FilesSteady*); once the loops have ended, no launch that resumes will
  write a frame before `until` again (*Settled*, *Behind*); so statistics it keeps
  are of all the frames some launch had, by lists that no longer change
  (*KeptInv*).
* **AggregationProofs.** Points and clusters agree (*Agreed*) under joining and
  absorbing; clusters connect only what links connect and every link followed
  so far is inside one cluster (*Separate*, *OnlyLinked*, *Followed*): at the
  end of the graph the clusters are its components. With *Apart*, no point is
  in two clusters, every step maps to a step of `Partition` or to none
  (`GroupsGrowTogether`). `OriginalsOnce` adds that a cluster behind the erasing
  loop has its points once and only original ones (*ErasedOnce*).
* **FilterPreviousProofs.** `IInv` says which clusters the loop has erased and
  merged (*Progress*) and of what points (*Contents*), that each point belongs to
  a cluster that stays and has it (*Owned*), that the list has each detected
  cluster once and, at the end, every one that stays (*Lists*), and that merged
  clusters' ids differ and lie above those of the detected ones unless details
  are shown (*Ids*). All five properties of the run follow.
* **DetectionProofs.** For any number of threads, cells, variables and dimensions,
  any kernels and fields. A cell is not handed out yet, or ahead of exactly one
  thread (`Rest`), or done; one that is done and usable is in the list, once
  (*NotTwice*, *NotLost*): `EveryCellOnce`. The lock makes the size a thread has
  read in `push_back` still that of the list (*Exclusive*). With *Locals* this
  gives the types. The other three properties are of the whole run:
  - `ClustersAreMeasured`, by *Measured*: wherever a point is, in the list or in
    an array index, it counts as original only in a cell that was not discarded,
    and no filter gives it values of other variables than it has (`PutIsPoint`,
    `ReadIsList`);
  - `SmoothedInStages`, by *OnLines*, which threads are in the team and on which
    line, and *Staged*, of what a stage has written: lines not handed out yet, and
    the rest of each thread's line, are empty in the filtered index, and the
    others hold the convolution of the stage before (`InStage`). It rests on a
    mapping of lines and places to grid points that is one to one, which is
    proved of `LinearToGrid` for any number of dimensions;
  - `AloneIsScaled`, by *Fits* and *ScaledAlone*: with one thread every value is
    inside of the ranges but for those of the point it is at, from the variable it
    is at on (`PointsFit`, `SumsFit`). With a second thread this is false
    (`finding_ranges`): what a thread has compared with is then not what it
    overwrites. *Numeric* adds that values are numbers or NaN, through averages of
    none and reads behind vectors, and that smoothed points have one of each
    variable.
* **TrackStatsProofs.** `IInv` says that each link has two nodes of the graph, of
  one step and the next, with the ids it connects; the first node of an id and
  step is the one with the least number. This gives `LinksJoinSteps` for
  directories of any length, in any order. `GraphInv` follows the reading: the
  nodes are those of the clusters added (*NodesAdded*), the links those their lists
  name (*LinksAdded*), which at the end of the directory is `LinkedAsTracked`.
  `StatisticsCoverTracks` follows the loops behind it: each track has the clusters
  of its id (*TracksAdded*), the points parked under a uuid are those this launch
  has written (*PointsParked*), and each count is of the tracks the loop has been
  over, a bin's of those that fit in it and in none before (*TracksCounted*,
  *DictionaryWritten*, *TrackCovered*).

PROJECT.json ("theorems") lists the results with the properties they state.

Model-checked only, because it is out of the prover's reach: liveness
(`RunEnds`, `LaunchEnds`, `Ends`), which needs `ENABLED`. Every other property of
the passing runs is a theorem.

The induction theorems of the library cannot be used here. Where a property is about
data of any length (sums of sizes and products, elements picked from a list, the
mapping of linear indexes to grid points, the stages of the smoothing), the
induction is done by hand, from the fact that a set of numbers that is not empty has
a least one (`HasLeast`): the least place at which an equation fails has one
before it at which it holds (`UpTo`). What a recursive function picks or sums
up is proved once (`PickedSteps`, `SumUnfolds`, `SumIsNumber`) and used by name. For
this, lists are filtered by `Picked`, not by `SelectSeq`, and sums are the
`SumFunction` of the community modules.

What the theorems assume of constants, beyond their types: a run does not use up
the ids (`RunsAssumption`); a team of threads is finite; numbers told apart from
the marks of missing and out-of-range values (`BuildAssumption`); at least two
dimensions, none of them empty, a kernel for each with at least one weight, all
whole numbers; NaN is none, and a unit is not zero; replacement filters with any
mode, percentage and reach, but a percentage for the lowest and highest values
(`DetectionAssumption`, `IsFiltered`); sets of cells that are finite
(`StatsAssumption`).

## 7. Not modelled

* Numerical work (mean-shift vectors, kernels, weights, histograms,
  correlations, coordinates): formulas on floating-point values; their results
  are inputs of the models.
* Format converters, mapping tools and visualisation: one pass over a file each,
  no state of their own. The conrad statistics read another tracker's text
  files and then repeat the loops of meanie3D-trackstats.
* Search structures: geometry, most of it in third-party libraries.
* Vendored code (gtest, kdtree, Numerical Recipes): most of the tree's lines.
* Of modelled components: command lines and configuration files, scales and
  bandwidths in the driver, attributes and variables of the NetCDF format,
  displacement vectors, comparisons of scales and everything with VisIt in the
  postprocessing, the size threshold and clean-up of the detection, which points
  an array index owns, statistics of cluster sizes, speeds and directions (the
  loop of `TrackStats` with other sums). `nextId`'s rotation at the maximum is in
  `Tracking`, excluded by assumption in its runs, and not in the other modules.
* Threads are interleaved between the steps of `FeatureSpace` and
  `ScaleSpaceFilter`; a race on a floating-point value is taken to read either the
  old or the new one. The parallel loops that compute weights write one place
  each.

## 8. Plan

In this order, the most consequential behaviour first; done: `Tracking` and
`IdAssignment`, `ClusterLists` and `Chain`, `ClusterFile` and `ResultFile`,
`Driver`, `Aggregation` and `Partition`, `FilterPrevious`, `FeatureSpace`,
`ScaleSpaceFilter`, `LinearIndexMapping` and `Detection`, `TrackStats`,
`Experiment`.

Left, should the project go on:

1. `ArrayIndex` with ownership of points: `set` deletes what it replaces, whether
   the index owns it or not.
2. The threshold on cluster sizes, and what the clean-up of a detection frees.
3. Scales and bandwidths in the driver; the comparison of scales behind them.
4. Proofs across modules: that what `Chain` takes for granted of a tracking run
   follows from what `Tracking` shows of one.
