# Verification of galotfa

galotfa (`src/src`) is a library that analyses a galaxy simulation while it
runs.  The simulation (a fork of Gadget-4, `src/gadget4`) calls
`galotfa_run_with` once per synchronized time step on every MPI rank; the
library selects particles, finds the centre of the system, computes structure
quantities with collective calls, and rank 0 pushes one row per analysis step
into HDF5 files.

This directory holds TLA+ modules translated from that code, the
configurations that check them with TLC, and proofs that TLAPS checks.  Line
numbers below are those of `src/src/...` unless a document is named; `run.cc` and
`restart.cc` are `src/gadget4/src/main/run.cc` and `src/gadget4/src/io/restart.cc`.

## 1. Inventory

| component | source | state | operations | modelled in |
|---|---|---|---|---|
| monitor | `engine/monitor.{h,cpp}` | `step`, the index arrays of every module, the writers | constructor, `run_with`, `extractor`, `inject_data`, `save`, `release_once`, destructor | `Monitor`; the files of the model module in `ModelOutput` |
| calculator | `engine/calculator.{h,cpp}` | `system_center`, the result buffers | `call_pre_module`, `call_md_module`, `feedback`, the region tests, `setup_res` | the order of the collective calls and the centre in `Monitor`, the result buffers in `Calculator`, what the calls compute in `Analysis` |
| writer | `output/writer.{h,cpp}` | `nodes`, `stack_counter`, the handles of one file | `create_group`, `create_dataset`, `push`, destructor, `open_file` | `H5Writer`, promise in `AppendLog` |
| hdf5::node | same | handles, `parent`, `children` | constructor, `close`, `remove_from_parent`, destructor | `NodeTree` |
| analysis functions | `analysis/*.cpp` | none (a few `static` locals) | bins, images, moments, bars, tensors, centre of mass, densest pixel | `Analysis` |
| para | `parameter/para.{h,cpp}` | the options | constructor, `target_sets_parser`, `check` | `Parameters` |
| ini_parser | `parameter/ini_parser.*` | the table of keys, the section it is in | `read`, `line_parser`, `insert_to_table`, getters | `IniParser` |
| string tools, prompts | `tools/*` | none | `split`, macros | no |
| entry points | `galotfa.{h,cpp}` | one static monitor | forwarders | no (nothing of their own) |
| driver | `run.cc` | the tracers' positions and their backup, the centre, the gathered arrays, the tracer file | what the fork adds to the main loop, the gathering, interruption, restart | `Tracers` |
| restart files | `restart.cc`, `run.cc` | one file and one backup per task, the counters of task 0 | backup, scheduler, writing, reading | `RestartFiles`, promise in `Checkpoint` |
| unit tests | `unit_test/*` | | | no |

**How they interact.**  `run_with` on a rank calls `extractor` (which asks the
calculator whether a particle is in the region, that is, reads
`system_center`), then in the first step an `MPI_Allreduce` of particle
numbers, then `call_pre_module` (a loop of `MPI_Allreduce` that moves
`system_center`), then `call_md_module` (a list of `MPI_Allreduce`, one of them
conditional), then `save`, where the root reads the result buffers, calls
`writer::push` once per dataset and meets the others in an `MPI_Bcast`, then
`release_once`, then `++step`.  Nothing but the collective calls orders the
ranks.  The calculator, the monitor and the writer are built from `para`, which
is built from `ini_parser`.  The main loop of Gadget-4 calls all this, gathers
the tracers by messages, and writes its restart files when it ends or is told
to.

**What is hard in this code.**

1. Each rank decides *alone* how many iterations the recentring takes, whether
   the bar radius is measured and whether a step is an analysis step; the ranks
   pair their collective calls only so long as these decisions agree.
2. `system_center` is read before it is first written, and particles are
   selected around the centre of the previous analysis.
3. The root does not wait in the broadcast, so ranks drift apart.
4. Buffers are allocated and released by two functions that each recompute
   which ones from `step`.
5. HDF5 calls may fail one by one, and most return values are ignored: rows of
   different datasets must stay aligned with `/Times` all the same.
6. The process may die at any point; what is on the disk then depends on which
   pushes happened to fill a chunk.
7. The list of datasets to create and the list of pushes are two hand-written
   functions under the same options.
8. The nodes are deleted in hash order, with raw pointers both ways.
9. `para::check` changes parameters between its tests, and what it leaves
   decides which buffers exist; allocation, filling, pushing and release list
   those buffers by hand in four functions.
10. Every quantity is a quotient or a modulus of sums over particles that lie on
    all ranks: each sum needs a reduction of its own, and a test on one rank
    cannot tell whether it has one.
11. The bins are index arithmetic with casts, upper bounds and NaN of empty rings.
12. The driver gathers the tracers by point-to-point messages, moves them by a
    loop of collective calls, and is stopped and restarted in between; what the
    shift relies on lives in local variables.
13. A set of restart files is as many files as there are tasks, each renamed and
    written by its own task; the program may die between any two of them, and
    what it finds at its next start must still be one state.
14. Task 0 schedules the writers while it writes its own file.
15. The results of `rename` and `fclose` are ignored, and nobody looks whether a
    directory holds the files of another run: what is saved rests on calls that
    may fail without a word.

**What makes each part correct.**  Monitor: ranks pair their collective calls,
subtract one centre, hold no buffer between calls, find the row of every step they
returned from, and every call returns.  Writer: the k-th push owns row k and tells
whether its data got there; rows once flushed stand.  Nodes: no pointer to a freed
object, the leaves closed first, nothing left open.  Output: one row per step in
every dataset, of the quantity it is named after.  Parameters: they are what the
file says, and what `check` accepts can run but for what it never looks at.
Calculator: accesses stay inside the buffers, rows are fresh, buffers are freed
once.  Analysis: the results are those of all particles together, however they are
spread.  Driver: every output of a running program has every tracer, the ranks
leave the recentring together, tracers stay where they were attached.  Restart
files: a complete set survives, one set is taken up, writing ends.

## 2. The modules

| module | what it is |
|---|---|
| `Monitor` | all ranks of `run_with`, with the collective calls of the calculator |
| `MCMonitor` | instance: integer centres plus a NaN, option sets |
| `MonitorProofs` | inductive invariants of `Monitor` and seven theorems |
| `AppendLog` | abstract: named append-only logs with a durable prefix |
| `H5Writer` | one file through the writer, over an HDF5 library that may fail; implements `AppendLog` |
| `MCH5Writer` | instance: sets of paths |
| `H5WriterProofs` | inductive invariants of `H5Writer`, the refinement of `AppendLog` and three more theorems |
| `NodeTree` | the node objects, one step per turn of the loop of `close()` |
| `ModelOutput` | `create_model_file_datasets` and `save`, composed with `H5Writer` by `W == INSTANCE` |
| `MCModelOutput` | instance: sets of options and faults, and the paths they need |
| `ModelOutputProofs` | inductive invariants of `ModelOutput` and seven theorems, with those of the writer by `INSTANCE`; an inductive invariant of `NodeTree` and three theorems |
| `IniParser` | operators: the lines of an ini file, the table they give, the look-up |
| `Parameters` | `para` on top of `IniParser`: defaults and file, target sets, `check` with the changes it makes |
| `Calculator` | extends `Parameters` by the result buffers: `setup_res`, the writes of `call_md_module`, the reads of `save`, the destructor |
| `MCCalculator` | families of ini files |
| `CalculatorProofs` | inductive invariants of `Parameters` and `Calculator` and five theorems |
| `Analysis` | the analysis functions on particles that are spread over ranks |
| `MCAnalysis` | instance: a few places, an integer `arg` |
| `AnalysisProofs` | an inductive invariant of `Analysis` and the three theorems that follow from it |
| `Tracers` | the driver: tracers, recentring, interruption and restart |
| `MCTracers` | a small galaxy |
| `TracersProofs` | inductive invariants of `Tracers` and three theorems |
| `Checkpoint` | abstract: a long run that is saved at once and resumed from what was saved |
| `RestartFiles` | the restart files of all tasks, with crashes and the user's recovery; implements `Checkpoint` |
| `MCRestartFiles` | instance: four tasks on two nodes |
| `RestartFilesProofs` | inductive invariants of `RestartFiles`, the refinement of `Checkpoint` and five more theorems |
| `Recursion` | lemmas: induction over the numbers and over finite sets without a predicate as a parameter, and what `FlattenSeq`, `MapThenSumSet` and `SumFunction` compute |

### Monitor

`step`, `center`, `held` are the members of the same meaning on every rank
(`held` are the modules whose index arrays are allocated); `pc` and `idx` say
which collective call a rank is in.  Actions:

| action | code |
|---|---|
| `RunWith(r)` | entry of `run_with` up to the first collective call: `extractor`, the test for the first step (monitor.cpp 530-553) |
| `ReduceParticle` | the `MPI_Allreduce` of the particle numbers and the creation of the datasets on the root |
| `ReducePre(k)` | iteration `k` of `call_pre_module`: `MPI_Allreduce`, then every rank compares its new centre with its own old one (calculator.cpp 263-337) |
| `ReduceModel(i, k)` | site `k` of `call_md_module` for set `i`; `NextSite` skips `bar_radius` when the bar is weak |
| `Save` | the root pushes a row into each model file and enters the `MPI_Bcast` (monitor.cpp 179-305) |
| `Return(r)` | leave the broadcast, `release_once`, `++step` |
| `Stop(r)` | the destructor after the last step |

An `MPI_Allreduce` fires when *all* ranks are at the same one: a wrong pairing
shows as two ranks at different ones, and then as a deadlock.  The local
computation after an `MPI_Allreduce` touches only its own rank and is taken in
the same step.  A rank may leave the `MPI_Bcast` as soon as the root has entered
that one.  `Spec` starts from any bytes in `system_center` on every rank, which
is what the code does; `SpecSame` from the same bytes everywhere, which is what
freshly zeroed pages give in practice.  Every claim below
says which of the two it needs.

Recentring by centre of mass sums over anchors selected once before the loop, so
its result does not depend on the centre and is one value; the first iteration
moves the centre, later ones repeat the value.  The density method adds a common
pixel offset to each rank's *own* window, hence `Moved(center[r], d)`.

The density search is modelled by its offset alone here; `Analysis` shows that
the offset is the same on all ranks, because the images are reduced before they
are searched.

### H5Writer

`nodes` maps a path to its type and whether its handle is valid, `counter` is
`stack_counter` (which starts at 1), `rows` is the dataset as the library holds
it and `synced` how much of it is on the disk.  `create_group` starts at the
deepest existing node on the way (`Base`), even if that is a dataset, and
inserts a node for every missing component whatever `H5Gcreate2` returned.
`create_dataset` may throw (a dataset as parent, the compression) when the groups
above are created already (`WithParents`).
`push` extends to `stack_counter` rows, writes the last, flushes at every
multiple of the chunk size, counts whether the write succeeded or not, and
returns the status of the write alone.  `faults` is chosen at the start out of
`Faults`: with `"library"` each library call may fail, with `"death"` the
process may die, and the disk keeps any extension of what was flushed.

`KeepsTheLogs` is the refinement: with `log[p]` the cells 1 to `counter[p]-1`
(a missing cell at the end counts as lost until a later push extends over it),
`H5Writer` implements `AppendLog!Spec`.

### NodeTree

`children` keeps a `nullptr` in the slot of a removed child, as the code does,
so the loop index of a running `close()` stays meaningful.  `stack` holds the
running calls.  `delete` frees the object only when the outermost call ends.

### ModelOutput

`todo` is the rest of the calls of the running function: `Created` while the
constructor runs, then `Pushed` in every `save`.  Both are sequences in the
order of the code and under its conditions.  A row carries the step and the
dataset it was *meant* for, so that a push under a wrong name is visible
(`Holds` names those that the code has).  A `create_dataset` that throws ends the
constructor and with it the program (`Thrown`).  `para` holds the switches, the
orders of An, the colours, and the faults that the writer below meets.

### IniParser, Parameters and Calculator

`IniParser` folds the lines of a file into the one flat table of the parser: a
header sets the section for the lines below it, an entry is stored under
section, underscore and key, a later entry replaces an earlier one.

`ini` is the file, `para` the members of `para`.  `Read` is the
constructor up to `check` (a line that no kind fits throws, every key is taken
from the table or its default, then the target sets), `Check` is `check()`:
`Accepts` is the conjunction of its tests,
each test on the parameters as they are at *that* line (`WithMethod`, `WithBar`,
`WithRadius` are the changes in their order), and `Adjusted` is what it leaves.
Lengths keep their order only, axis ratios are counted in halves.
`CanRun` is what the engine needs of its parameters: what `check` tests
(`HasTheTested`), and pixels, cells and orders, of which it tests a part at most
(`HasPixels`, `HasCells`, `HasOrders`).

`Setup` sizes the vectors of `analysis_result` and allocates the images as
`setup_res` does, `Begin`, `Analyse` and `Save` are one analysis step set by
set, `Destroy` is the destructor; `Begin` has the recentring on the densest pixel,
which needs pixels.  A buffer is a function from its cells to the
step they were last written in; `stray` and `stale` collect accesses outside of
a vector or buffer and pushes of old cells.

### Analysis

`part` are the particles of a target set, `home` the rank that holds each, and
`sums` the arrays that a rank has after each call.  A call of a function is one
step of all ranks (`Monitor` shows that they make the calls together): `Local` is
the loop of each rank over its own particles, `Allreduce` the reduction, and
`Summed` both.  A function without a reduction in the code uses `Local` alone.

| action | code |
|---|---|
| `CenterOfMass`, `MostDensePixel` | pre.cpp, according to `recenter_method` |
| `BarMajorAxis`, `SBar`, `SBuckle`, `Ans` | model.cpp: the Fourier modes, their reductions and the quotients |
| `BarRadius` | `bar_radius()`, entered when the bar is strong: rings, phases, the three loops |
| `Images` | the first image of each colour in the x-y plane, `bin2d` |
| `DispersionTensor`, `InertiaTensor` | model.cpp 135-332 |

Coordinates are whole grid steps and particles stand in eight directions, so
that `exp(2 i phi)` is exact; a quotient is the pair of its parts, and NaN a pair
over 0.  `Pixel`, `RadialBin` and `TensorBin` are the three forms of the index in
the code: the latter two cast before they divide.  Particles may lie outside of
the bins (`Window`), which skip them.  The properties define the
results independently, over all particles, with bins as half-open intervals.

### Tracers

All ranks of the driver.  A collective call is one action of all ranks, a
message of `collect_potential_tracers` one action of its two ranks (`Transfer`).

| action | code |
|---|---|
| `Advance` | from the head of the loop to the gathering: forces, domain decomposition (particles change ranks), collection of the own tracers (run.cc 132-301) |
| `Transfer(i)` | one of the four `MPI_Send`/`MPI_Recv` of rank `i` (1228-1277) |
| `Write` | `write_potential_tracers` on rank 0; the first call in a life of the program truncates the file (1170-1226) |
| `ReduceFirst`, `SumInit` | the backup at step 0: smallest id, then the sum of all copies (314-339) |
| `Recenter` | one turn of the loop: reduction, division, test, and for the ranks that leave it the shift and the step counter (342-433, and 441-594 after the loop) |
| `Check`, `Stop`, `End` | restart files and the end (595-600, 645-725) |
| `Crash`, `Restart` | the process dies anywhere and is started again from the last restart file, or from the initial conditions; a death tears the tracer file, if it is open (`AfterDeath`) |

A program that is down has the variables its next start will find (`Down`): the
particles and the step of the restart file, and `run()`'s local variables fresh,
with `initPos` unwritten.  The tracer file is opened at the first output of a life
and neither flushed nor closed by the code: what it holds after a death is unknown
(`Torn`), after an exit the handler of HDF5 has closed it.  Forces on tracers are
zero up to the monopole (gwalk.cc 152-157); higher multipoles would move them
within a step, and the shift puts them back.

### RestartFiles

All tasks of Gadget-4 while they write or read restart files.  `cur[t]` and
`bak[t]` are the files `restart.t` and `bak-restart.t`: the time and the run of
the state they hold, and whether they are whole.  `mem` is the state every task
works on, `latest` (a history variable) the last set that was complete under the
normal names.  A call that all tasks must enter is one step of all; a message
that is sent synchronously is one step of its two tasks.

| action | code |
|---|---|
| `Advance`, `GoOn`, `BeginWrite`, `EndWrite` | the main loop: a step, and whether files are written after it (run.cc 645-725) |
| `Rename(t)`, `Gather` | the backup, and the reduction that ends it (restart.cc 130-161) |
| `Issue`, `OwnDone`, `Poll(t)`, `Complete` | the scheduler on task 0: the first `MaxFilesWithConcurrentIO` tasks, its own file, the polling (restart.cc 202-365) |
| `OpenWrite(t)`, `FinishWrite(t)`, `OpenRead(t)`, `FinishRead(t)` | one file; a missing or short one terminates the program (restart.cc 371-552) |
| `EndRead` | the comparison of the times (restart.cc 224-251) |
| `RenameFails(t)`, `FinishWriteShort(t)` | `rename()` or `fclose()` fails, which nobody notices (restart.cc 146, 551) |
| `Crash` | the program dies, at any point |
| `Resume`, `StartNew`, `Recover`, `Clean` | the user: start from the files, start anew in whatever directory, rename the backups as documented (with or without removing the other files), remove everything |

`ImplementsCheckpoint` is the refinement: `stored` is the newest state of which
every task has a whole file under either name, and each step of the files is a
step of `Checkpoint` or none: it becomes stored when the *last* file is finished,
nothing but the user makes it disappear, and a program resumes from it.

A *lapse* is what goes wrong without anybody noticing: `RenameFails`,
`FinishWriteShort`, a run that is begun over the files of another, a finished run
that is resumed and writes a set of the same time again.  `lapses` counts them.
After a lapse there may be no complete set, or one that is mixed of two runs
or of two sets of one time, since the reader compares times only; so the
properties of the files are stated for `Sound` runs, those of the scheduling for
all, and `Checkpoint` allows anything from a lapse on.

## 3. The runs

Passing:

| run | question | bounds |
|---|---|---|
| `monitor` | do three ranks that start alike pair their collective calls, share the centre, keep the order of rows and returns, release everything, return from every call; and are the particles of a row selected around the centre of the row *before* | 5 steps, periods 2, 3, 3 and 4, 2 sets, every reduction site, density method, 3 iterations, 3 positions and NaN |
| `writer_faults` | does the writer keep the promise of `AppendLog` when the library fails anywhere and the process dies anywhere; is the tree of nodes closed | chain of three paths, 2 values, 3 pushes per dataset, chunk 2 |
| `node_tree` | is every order of deletion safe, complete and finite | 4 nodes, every tree |
| `output_options` | do the two lists agree for every combination of switches, which rows hold another quantity than their name says; do rows stay aligned when the library fails or the process dies inside `save` | 3 saves, chunk 2 and 1; all switches with two scalar images, two orders of An with the images of a vector; with faults, two datasets or one order |
| `calculator` | are the parameters those of the file; can every ini file that `check` accepts run, but for what it never looks at; if it can, are all accesses inside, rows fresh and buffers released once | files of bars and radii, of images and target sets, of bins and orders that are not tested (-1, 0, 1, 2 bins, orders -1 to 7, axes of half a length), of modules, and every file of up to four lines out of nine; 2 analysis steps; images with `axis_ratio` 1 and distinct colours |
| `analysis` | are the results on every rank those of all the particles together, is the densest pixel densest, are the bar radii the documented ones | 3 particles at 7 places in every combination, 2 ranks, 2 bins per axis, 2 rings |
| `driver` | are outputs complete while the program runs and when it stops, do ranks leave the recentring together, does every step end and do tracers stay attached, while particles change ranks, the galaxy moves and the program is killed and restarted anywhere | 3 ranks, 2 tracers, 2 anchors, 2 synchronization points, 2 lives, 3 iterations |
| `restart_files` | does the last complete set stand, is one set taken up, are no more files open than allowed, does writing end, and are the files together a `Checkpoint` | 4 tasks on 2 nodes, 2 files at a time, 3 time steps, 2 lives, one lapse (`restart_recovery`: 4 steps, 3 lives, none) |

Runs that show a disagreement (each checks one property, which fails):

| run | what it shows |
|---|---|
| `calculator_flat` | with `axis_ratio` other than 1 the images of the planes with z are allocated with `axis_ratio * bins` bins (`README.md:426`) but filled in rows of `bins`, and pushed as `bins * bins` values: the loops and the pushes leave the buffers. |
| `analysis_inertia` | `inertia_tensor()` has no `MPI_Allreduce` (model.cpp 315-332), nor has its caller: the root stores the tensor of its own particles, while `computation.md:84` says that "summation is over the whole region". |
| `driver_restart` | tracers are said to be rigidly attached to the anchors (`README.md:98`), but the places they are attached at are backed up at step 0 only and in no restart file: after a restart every step shifts them from memory that was never written, and the centre is searched around the origin again. |
| `restart_recovery` | the documentation of Gadget-4 (`02_running.md:345`, `05_parameterfile.md:196`) has the old set survive as backups and recovered by renaming them.  Every task renames its own file: a death in the middle of the renames leaves the last set spread over both names beside backups of the set before, and neither renaming them all nor discarding the others first gives a set that can be loaded.  No state is lost (`LatestStands`), but the right files must be picked by hand. |

**Why these bounds.**  Three ranks give the root plus two others, so that two
non-roots can disagree while the root is elsewhere.  Five steps over the periods 2
and 3 contain a step with both modules, with either and with none; only the last
lets the root run ahead.  In the gathering the third rank is the one that has to
wait for the second.  Three iterations have a first, a middle and a last.  Two
sets exercise the passage from one to the next.  The positions and a NaN give
close, distant and incomparable centres; a NaN is what garbage memory or the
coordinates of a broken anchor may be (a sum over no anchor is not divided,
pre.cpp 30).  Three pushes over a chunk of two have a flush between two unflushed
pushes.  A chain of three paths is the shortest in which a group lies below a
dataset and something else below it.  Four nodes give chains, forks and mixed
trees.  Three saves cover a flush and a partly filled chunk.  Four lines hold two
headers with entries below each, which is what opens a section again.  Two
analysis steps show what a step leaves of the one before, two bins a second row of
pixels.  The seven places of `Ringed` are the centre of a bin, edges, the upper
bound, both rings, off the plane, and outside of the bins along z and in the
plane; one particle is heavy, so that a bar can be strong or weak.  Two
synchronization points of the driver are the one with the backup, an output and
the large region, and one with none of these, which is the one after the loop as
well; two lives have one restart at any place.  The anchors never leave the region
between two steps (`Drift` plus their distance is below `RecenterSize`), which is
what the option is for.  Of four tasks with two files at a time one is started by
each of the loop, the own file and the polling, and one more needs a second
completion; on two nodes the order of the scheduler differs from that of the
tasks.  In three time steps a set is renamed over the backup of one before; two
lives have a death in it and a program that reads what is left, or reads what the
user recovered (every mutant of the seven properties is found there), and a lapse
may happen in either, with everything that can follow it.  No symmetry is
declared.

**Stopping.**  The specifications end in a stuttering step when the program is
over, so TLC's deadlock check means that nobody hangs.  It is off for
`Tracers` and `RestartFiles`, which stop when their lives are used up; there
`StepsEnd` and `WriteEnds` say that nobody hangs.

**Fairness.**  `FairSpecSame` of `Monitor` uses weak fairness for
every rank's own steps (a process that can run does run) and for a reduction
that all ranks have entered (MPI's progress guarantee), nothing stronger; no
choice of the environment (how the centre moves, whether the bar is strong) is
forced.  `NodeTree!FairSpec` has weak fairness of the teardown: a destructor
that was called runs.  `Tracers!FairSpec` and `RestartFiles!FairSpec` have weak
fairness of the program's steps as a whole (while somebody can run, somebody
does), none of a crash, a restart or anything the user does.
`Calculator`, `Analysis`, `H5Writer` and `ModelOutput` promise nothing of the kind:
the process may always stop.

## 4. What is proved

### Monitor

Every theorem is about all values of the constants that the named assumptions
of its module admit; what the instances of section 3 bound is unbounded here.

`MonitorProofs` proves, for any set of ranks, number of steps, periods,
target sets, reduction sites, iteration limit, centres and convergence test,
under the assumptions named in `Monitor`:

| theorem | statement | start |
|---|---|---|
| `TypeCorrect` | `Spec => []TypeOK` | any garbage |
| `BuffersReleased` | `Spec => []NoBufferOutlivesTheCall` | any garbage |
| `RowsPrecedeReturns` | `Spec => []RowsBeforeReturn` | any garbage |
| `SelectionLags` | `Spec => []SelectedAroundThePreviousCenter` | any garbage |
| `CollectivesAgree` | `SpecSame => []CollectivesMatch` | equal bytes |
| `FrameShared` | `SpecSame => []OneFrame` | equal bytes |
| `NoOvertaking` | `SpecSame => NobodyOvertakesAnAnalysis` | equal bytes |

The assumptions are: the root is a rank, periods are positive, there is a
target set and an iteration, the site list is one that `para::check` admits (a
`radius` only after an `sbar`), and moving a centre gives a centre.  Nothing is
assumed of `Close`, not even that a centre is close to itself.

*Inductive invariants.*  None of the properties is inductive alone.

- `TypeInv` adds `StepsCounted` (a rank inside `run_with` is at a step below
  `Calls`), or `++step` could leave the range.
- `BuffersInv` says that inside the call the held arrays are exactly those
  `extractor` allocates for this `step`; released at the same `step`, nothing
  is left.
- `RowsInv` says what the files hold relative to the *root*: the rows of the
  steps it has saved (`RowsUpTo`), in order, and that nobody else is counted
  beyond the root (`Broadcasted`).  That is what the broadcast gives, and
  `RowsBeforeReturn` speaks of all ranks.
- `TogetherInv` orders the places in `run_with` of any two ranks: either both
  are in the same collective call with the same centre and the same verdict
  on the bar, or one of them is in a step that the other has left or not yet
  entered (`Past`), and at the start of a step they agree on the centre
  (`AtFirst`).  `CollectivesMatch` says nothing of centres, but the decision to
  iterate again is made from them, so it cannot be proved without.
- `SelectionInv` follows the centre of the last row of every file through the
  root's control (`CenterKept`): while no step was analysed since that row
  (`Quiet`), the root holds that centre between two calls, and inside a call that
  will write a row it has selected around it.  The centre moves only in a
  recentring round, and a rank is in one only in a step that is analysed.

### H5Writer

`H5WriterProofs` proves, for any set of paths that has the way to each of its
members (`PathAssumption`), any values, any positive chunk sizes, any number of
pushes and any choice of faults:

| theorem | statement |
|---|---|
| `WriterKeepsTheLogs` | `Spec => KeepsTheLogs`: the writer implements `AppendLog!Spec` |
| `DiskStands` | `Spec => FlushedRowsStand` |
| `ParentsStay` | `Spec => []ParentsPresent` |
| `ValidHandlesStay` | `Spec => []ValidHandlesHang` |

*The rows.*  `RowsInv` has the three numbers of a dataset in order (`Counted`:
on the disk <= in the extent < `stack_counter`), and a path that is no dataset
in its initial state (`Fresh`).  The order is what makes a failed extension
harmless: the next push extends over the gap, never into rows that exist, so a
flushed row is never written again.

*The refinement.*  Creating a dataset is `Create`, a push that found its dataset
`Push` (kept or lost), the destructor `Close`, a death `Die`; a group, and every
call that is refused, is `Other`, also when a prefix of the way to a dataset was
created first.  A push is the hard one: the log is the padded rows, and after an
extension that fails the new cell is a padding cell (`PushLog`).

*The tree.*  `ParentsPresent` and `ValidHandlesHang` are not inductive:
`create_group` starts at the deepest node on the way (`Base`), and that what it
inserts hangs below it needs that *everything* on the way to a node is a node
(`Closed`), from which the parent of the first missing group is the base
(`ParentIsBase`).

### NodeTree

`ModelOutputProofs` proves, for any number of nodes, in trees of any shape and
depth, and any order in which the map hands them out:

| theorem | statement |
|---|---|
| `NothingDangles` | `TreeSpec => []NoDanglingPointer` |
| `LeavesCloseFirst` | `TreeSpec => []ClosedFromTheLeaves` |
| `HandlesClose` | `TreeSpec => []NothingLeaks` |

The invariant `TreeInv` has five parts.  `Types`; `Allocated`: what is open is in
the map and still points to the object it was created below; `Linked`: pointers to
parents and to children agree; `Frames`: a running `close()` has emptied the slots
before its index, except that of the child it is closing, which is the next call
on the stack; `Ranked`: there is a rank of the nodes, lower for the parent, and
the calls on the stack go down in it.  `Frames` is what makes the end of the loop
mean that no child is left; `Ranked` is needed for one thing only, that a node is
not on the stack twice, so that the object that is freed is not that of a caller.

### Tracers

`TracersProofs` proves `RanksRecentreTogether` (`Spec => []RecentreTogether`) for
any number of ranks, any tracers, anchors and drift, any threshold and limit of
rounds, and any number of interruptions.  Its invariant `Together` adds what
brings the ranks to the loop: they come one by one out of the gathering, all to
the entry of the first round (rank 0 last, so nobody can be past it while it
gathers or writes), and from the first round on all are in one place; and the
centre is one for all ranks *at every moment*, since the test for convergence uses
the old centre and the region around it.  That the mean is the same on every rank
is what the reduction gives (`Mean` does not depend on the rank).

`EveryOutputComplete` (`Spec => []OutputsComplete`) is proved for the same
constants, the tracers and anchors being finitely many.  Its invariant `OutputInv`
adds to `Together` what rank 0 holds at every message: while it waits for message
`part` of rank `i` (`Gathering`), its arrays list the tracers of the ranks before
`i` in the first `offset` cells, each with its own data (`Listed`), and behind
them as much of rank `i` as was sent before (`Arrived`); `Stepping` says that this
is data of one step.  A message is put behind `offset` (`FilledBefore`,
`FilledBehind`), the last one of a rank moves `offset` by the number that was sent
first, and the ranks before the number of ranks are all of them, so that what is
written is complete (`Gathered`).  `Filed` is about the file: while it is open,
and after a stop, it is a list of such outputs; a death in between tears it, and
the next life that has an output begins it anew.  That a tracer is on one rank
(`home` is a function) makes the numbers of the ranks add up (`OneRankMore`).

`TracersStayAttached` (`RegionHolds => (Spec => []AttachedSinceBackup)`) is about
what the driver moves.  `RegionHolds` is what `RecenterSize` is chosen for: the
region around a centre holds all anchors, also those of the step after, and the
region of step 0, a hundred times as large, holds them around the origin.  Without
it the mean is that of some anchors only and nothing ties the tracers to it.  The
invariant `AttachInv` adds to `OutputInv` that the copies of the initial places
are those of the tracers (`Known`), which rests on the sum over ranks that
distributes them having one summand that is not 0; that the centre is a number
and near to all anchors in every round; that the mean of all anchors is where the
galaxy is (`MeanOfAll`), so that the first shift puts a tracer back and the later
ones change nothing; and that no restart file is of a step before the backup as
long as somebody could be restarted from it.

### RestartFiles

`RestartFilesProofs` proves, for any number of tasks, any placement on nodes with
task 0 on the first (`NodeAssumption`), any limit of concurrent files and any
number of lives and lapses:

| theorem | statement |
|---|---|
| `TypeCorrect` | `Spec => []TypeOK`, whatever goes wrong unnoticed |
| `LatestSetStands` | `Spec => []LatestStands`: without a lapse, the last complete set survives a death at any point |
| `OldSetStands` | `Spec => []OldSetWhileWriting`: without a lapse, the backups are the whole old set while a new file is open and not whole |
| `OneSetLoaded` | `Spec => []LoadsOneSet`: without a lapse, a running program has taken up one set |
| `FilesImplementCheckpoint` | `Spec => ImplementsCheckpoint`: the files implement `Checkpoint!Spec` |
| `FilesAtATime` | `Spec => []AtMostConcurrent`, whatever goes wrong unnoticed |

Nothing is assumed of the order in which the tasks work.

*Inductive invariants.*  What holds regardless of lapses is `Basic` (types, and
the tasks being in the same part of the program, `Together`).  The invariants of
the files below hold as long as there was no lapse: `Promise` is `Sound => IInv /\
TInv`, and a step with `Sound` behind it is none of the failing ones and no lapse
(`NoLapse`), so that each case of the induction is about a sound step.

`LatestStands` is not inductive: whether a rename keeps the last set depends on
what the file under the normal name is.  `IInv` says what the files are at every
place of the program: during the backup each task still has its file of the last
set under the normal name or already as its backup, with nothing under the normal
name (`BackupMoves`); after it the new set grows file by file beside a whole
backup, or is complete (`NewSetGrows`); a working program has the last set under
the normal names (`RunsFromLatest`), because it was read from there (`ReadWhole`)
or just written.  `Together` is what the reduction behind the backup is for:
without it a fast task opens its new file while a slow one still holds the only
copy of the old (the mutant `GatherEarly`).

`LoadsOneSet` needs a second invariant, `TInv`, about the times: the code compares
*times* only, so two files of one time must be of one run.  They are, because
files never hold a time ahead of the program that wrote them (`Ahead`), backups
are older than the files beside them (`FilesAgree`), and a run begins in a cleaned
directory, since one that is begun among the files of another is a lapse.

The refinement rests on both and on two facts more (`SInv`): a set that all
tasks hold means that some set was completed (`HeldIsLatest`), and a program that
is down works on nothing.  From them the newest set that is held is the last
complete one (`StoredIsLatest`), which turns every step into one line of
`Checkpoint`: the finishing of the last file is `Save`, a step of the simulation
`Advance`, the end of a reading `Resume`, a death or an exit `Die`, and the user
who renames or removes files does `Forget` exactly when the last set goes with it.
All other steps (renames, the scheduler, the files but the last) stutter; a lapse,
and every step behind one, is `Lapse`.

`AtMostConcurrent` needs the accounts of task 0 (`Accounts`): the tasks that were
started and whose end it does not know are as many as `started - completed`, which
is at most the limit, and one less while it is about to write its own file.

### Parameters and Calculator

`CalculatorProofs` proves, for any set of ini files of any length, any target
sets, any colours and orders, any number of bins and of steps:

| theorem | statement | files |
|---|---|---|
| `AcceptedRuns` | `Spec => []AcceptedRunsUnlessUntested` | any |
| `SettingsStand` | `Spec => []SettingsAsWritten` | `UnambiguousInis` |
| `InsideTheBuffers` | `Spec => []AccessesInside` | `SoundInis` |
| `PushesAreFresh` | `Spec => []RowsAreFresh` | `SoundInis` |
| `BuffersAreFreed` | `Spec => []FreedOnce` | `SoundInis` |

The last three are about parameters that the engine can run with (`CanRun`), which
each of them says; `AcceptedRuns` says of which accepted files that is not known:
those that lack pixels or cells or an order of An where `check` does not look
(`UntestedBins`, `UntestedOrders`).  `SoundInis` names what the code relies on
besides: with images the axes are equally long, and no colour is listed twice.
Neither can be dropped: the run `calculator_flat` refutes `AccessesInside` without
the first, and a colour listed twice is freed twice.  `UnambiguousInis` says that
no entry of a file is stored under the key of another section, which the one flat
table allows.

*Parameters.*  `AcceptedRunsUnlessUntested` needs the invariant `Settings`, whose
part `Ready` is what `check` leaves, with each of its three changes.
`SettingsAsWritten` is about the parser, a fold over the lines.  The fold is
unrolled into a function of the number of lines (`Reads`), and an induction over
that number has the section and the table after each line be those of the
definition: the section is that of the last header before, and an entry is the
last one with its key.

*Calculator.*  `Engine` is the invariant: parameters that can run are at work as
they should (`Works`).  There, what is allocated has the sizes that
`setup_res` derives from the parameters (`Allocated`), the parameters do not change
any more, and in `save`, as in `call_md_module` for the sets that are done, every
cell of a set is of this step (`Fresh`).  It holds the four hand-written lists
against each other: a buffer that one of them forgot is a case that does not
close.

### ModelOutput

`ModelOutputProofs` proves, for any number of saves, any chunk sizes and any faults
of the library or the process:

| theorem | statement | options |
|---|---|---|
| `RowPerSave` | `Spec => []OneRowPerSave` | `AllPlain` |
| `StepsNumberRows` | `Spec => []RowsNumberSteps` | `AllPlain` |
| `PushesFind` | `Spec => []EveryPushFindsItsDataset` | `AllPlain` |
| `ClosedIsComplete` | `Spec => []ClosedFileIsComplete` | `AllPlain` |
| `QuantitiesHold` | `Spec => []RowsHoldTheirQuantity`: which rows hold another quantity than their name says | any |
| `FileIsAWriters` | `Spec => WP!Spec`: the monitor uses the file as `H5Writer` says | any |
| `FileStands` | `Spec => WP!FlushedRowsStand`, from that and `DiskStands` | any |

`AllPlain` has no image of a vector and nothing listed twice: of the images of a
vector those of x-z go under the name of others, and what is listed twice is
created once and pushed twice.  TLC checks the first four with the images of a
vector as well, of which `RowsPerSave` says how many rows they get.

*The lists.*  `Created` and `Pushed` are concatenations over the options.  Each is
shown to be a list of the same ten kinds of datasets (`Kinds`), without
repetitions and in the same order of kinds, by lemmas on `FlattenSeq` that go by
induction over the number of parts.

*The invariant* `FileInv`.  `Left` are the datasets the running function has not
come to.  What was created is what is offered but for `Left` (`Built`); in a
`save` the number of a dataset lags by one exactly while it is in `Left`
(`Numbered`); a row is of the step with its number and of the quantity of its
dataset (`Meant`); and, as long as nothing fails, no row is missing (`Complete`).
The writer's own `RowsInv` is a part, with its proof taken from `H5WriterProofs` by
`INSTANCE`.

`AnyInv` is weaker and needs nothing of the options: what is left to do are paths
and meant pushes of the lists (`Marked`), and a row is one of those (`Kept`).

### Analysis

`AnalysisProofs` proves, for any number of ranks, any number of particles at any
places of the grid, inside of the bins or outside, any spread over the ranks, any
bins, rings, orders and thresholds:

| theorem | statement |
|---|---|
| `ArraysHold` | `Spec => []Arrays` |
| `ResultsAreOfAll` | `Spec => []ResultsOfAllParticles` |
| `DensestIsOfAll` | `Spec => []PixelIsDensest` |
| `RadiiAreOfAll` | `WholeDegrees => (Spec => []RadiiAsDefined)` |

`Terms` are the summands of every array, particle by particle.  The invariant
`Arrays` has every array of every rank be the sum of its terms: over all particles
if the code reduces it (`Totals`), over those of the rank if it does not
(`Shares`).  That shares add up to totals, whatever rank holds what, is a lemma on
sums (`SumSpread`); so one case per function shows that each of its sums has its
reduction.  The arrays of one call are there together, and the axis before
the rings that are compared with it.

What follows from it is arithmetic.  The centre and the strengths are quotients of
two sums, of which the mass is positive (`MassIsPositive`).  An index is in the
code a cast of a quotient, in the properties a half-open interval; they are the
same for pixels always (`PixelIsBetween`), for cells and rings if their width is a
whole number of length units (`CellIsBetween` under `WholeCells`, `RingIsAnnulus`
under `WholeRings`, hypotheses that the properties have too).  The dispersion is a
double sum over pairs of particles in its definition (`PairsSpread`), two moments
in the code.  The search for the densest pixel visits a finite set in order and
keeps the first largest (`SearchFinds`); `std::max_element` over the rings compares
fractions, and needs that `Less` on fractions of positive denominators is
transitive (`MaxElementFinds`).  `Arg` is a parameter of the module, the phase of
a complex number; `RadiiAreOfAll` needs of it only that it gives a number for
every pair (`WholeDegrees`; the operator of the run does).

### Recursion

The library's induction theorems take a predicate as a parameter, which the
provers cannot instantiate.  `Recursion` has them with a *set* in place of the
predicate: a set of numbers with 0 and with every successor is all of them
(`Peano`), and a set of subsets of a finite set that is closed under adding one
element has them all (`OneByOne`).  They follow from the well-foundedness of `<`
on the numbers.  With them the recursive functions behind the operators of the
community modules can be unfolded, since these are functions and not `RECURSIVE`
operators: `FlattenSeq`, `MapThenSumSet`, `SumFunction`, and the `FoldLeft` of the
ini file.  The sums get the laws the components need: one summand more, linearity,
sums over parts and over rows, the exchange of two sums.

### What only TLC checks

- Liveness (`EveryCallReturns`, `CleaningEnds`, `StepsEnd`, `WriteEnds`): it needs
  fairness and `ENABLED`, which the prover does not handle.
- The four disagreements of section 3, which are counterexamples.

Every other property of a run has a theorem.  What holds of `Monitor` from any
garbage (types, rows, buffers, the selection) is proved, and has no run of its own.

## 5. Assumptions of the models

- MPI is reliable and all ranks are in the same communicator; a rank that dies
  takes the program with it.
- HDF5 refuses to create below an invalid handle or a dataset and refuses to
  write outside the extent; an extension that succeeds fills new rows with the
  fill value; a flush that reports nothing may have written any part.
- The simulation calls `run_with` equally often on all ranks: once per turn of
  the main loop and once more after it (run.cc 429, 593).  The program is
  switched on; with `glb_switch_on = off` `run_with` returns at once.
- `call_pre_module` runs whenever any module is due, as in the code: the option
  `recenter` decides only whether `/Center` is written (monitor.cpp 193, 332,
  720).
- The method most_bound is never selected: `para::check` turns `potential` into
  `com`.
- Particles are finitely many, and tracer ids lie close enough together to index
  an array of all particles (`TracerAssumption`), as ids of one particle type do;
  anchors have one mass.
- For `Tracers`, which is about the tracers and the variables of `run()`, a set of
  restart files is written and read as a whole; how that comes about is
  `RestartFiles`.  `exit()` closes the tracer file, a death does not.
- A restart file that was closed survives the death of the program, and of the
  node: the code does not call `fsync`, and no file system is modelled.
- No node comes before that of task 0: nodes are numbered by their first task
  (setcomm.h 98-170).
- Sums are exact (`Analysis`): rounding is not modelled.
- The named assumptions on the constants say that a module is given what the code
  would give it: `FilesAssumption` (a file is a sequence of lines),
  `NamesAssumption` (the member of `para` is another one for every section and
  key), `ValuesAssumption` (the getters return values of the type they are asked
  for), `ParasAssumption` (the options are those `check` accepts),
  `PathsAssumption` and `WriterAssumption` (paths of all datasets exist with the
  groups above them, chunks are positive, the fill value is no row),
  `PlacesAssumption` (places are numbers, those of the anchors relative to the
  centre of the anchors; garbage and NaN are none), `RankAssumption`,
  `ParticleAssumption`, `SampleAssumption` and `OptionsAssumption` (finitely many
  particles with masses, on the grid; positive numbers of bins).
- Sizes of datasets, names of attributes and the text of warnings are left out.

Disagreements with the documents, and doubtful places, that have no run of
their own:

- `system_center` is never initialised (calculator.cpp 9-36).  If its bytes
  differed between ranks, one could leave the recentring loop while another
  enters its next `MPI_Allreduce`, and with the density method the difference
  would never go away.  `CollectivesMatch` and `OneFrame` are stated from equal
  bytes, as freshly zeroed pages give.
- monitor.cpp 205 pushes the real part of An as the imaginary one
  (`README.md:470` has both stored), and for the two velocity images the x-z image
  goes under the name of the y-z dataset (257, 275), so that the x-z dataset stays
  empty and the y-z one has two rows per step.  `Pushed` follows the code;
  `RowsHoldTheirQuantity` says that no other row is misplaced.
- The images are not reduced either (calculator.cpp 441-540): the root stores
  those of its own particles.  `ResultsOfAllParticles` says that the shares of all
  ranks together are right.
- The rings of `bar_radius` and the cells of `dispersion_tensor` are
  computed with a cast before the division (model.cpp 92, 187): they are the bins
  of `development.md:582-583` only when their width is a whole number of length
  units.
- The difference between the phase of a ring and the axis of the bar is not
  reduced to a half turn (model.cpp 114), and a first ring without particles makes
  `max_element` stay at a NaN (120).
- `push` onto a path without a dataset returns 1, while `development.md:535-536`
  has it created; `create_group` below a dataset returns 0 (success by
  `development.md:526`) and leaves a node that cannot be used.
- Particles are selected before the centre of the step is known, while
  `README.md:331` aligns the origin first (`SelectedAroundThePreviousCenter`
  states what the code does).
- `call_pre_module` runs in every analysis step, also with `recenter = off`
  (monitor.cpp 720), while `README.md:337-353` has its keys "only effective when
  `recenter` = `on`", and `check` tests them only then: by the density method,
  which is the default, every round without anchors moves the centre to the
  corner pixel of its window (pre.cpp 70-95).
- `README.md:440` has a bar when `S_bar > bar_threshold`; the bar radius is
  measured with `>=` (calculator.cpp 392), the alignment with `>` (413).
- `model_region_shape` is never assigned (calculator.cpp 695 reads it); the centre
  is multiplied by `md_axis_ratio` in z (372), and the window of the densest
  pixel lies around y in z (311).
- Orders of An above 6 leave the array of results, and orders are tested only
  when images are on; a colour listed twice leaks its first buffers and frees
  the second twice; `image_bins` is tested only when images are on, though the
  recentring by density and the dispersion tensor need it (calculator.cpp 304,
  214-221): `UntestedBins` and `UntestedOrders`.
- `README.md:361-363` has the density method switch on the images and their
  colours; `check` does not.
- `[Section]  # comment` is refused by the parser (ini_parser.cpp 109-133),
  although `README.md:225` has comments ignored.  Section and key share one name
  space: `radius` below `[Model_bar]` would be `bar_radius` below `[Model]`.
- `RecenterThreshold` is a length in `README.md:102-103` and is compared with the
  square of one (run.cc 381-384).
- The first output after a restart truncates the file of the tracers
  (run.cc 1195): the outputs of the earlier life are lost.  The file is neither
  flushed nor closed (1194-1225), so that a death may leave all of them
  unreadable.
- A finished run that is resumed writes a set of the same time once more (run.cc
  225-238, 595-600).  A death in the renames of that set leaves a mix of two sets
  of one time, which the reader accepts; the comparison is of times alone
  (restart.cc 228-240).  `rename` (146) and `fclose` (551) may fail without a
  word.  These are the lapses of `RestartFiles`.

## 6. Not modelled, and the plan

In order of what would pay most:

1. Proofs: an abstract specification of the model file as one table that grows by
   whole rows, of which `ModelOutput` without faults is a refinement, and one of
   the collective run of `Monitor` as a single rank.
2. The region tests (`in_spheroid`, `in_box`, `in_cylinder`) and the windows of
   the densest pixel for a centre away from the origin and an `axis_ratio` other
   than 1, in `Analysis`.
3. `OpenFile`: the suffix `-n`, two programs that open the same name, a restart
   of the simulation (the step counter of the monitor begins again).
4. The composition of `Monitor` with several `H5Writer`s in place of `rows`, and
   the orbit files (creation fails on the root alone when an id is no number).
5. The statistics of `bin1d` and `bin2d` other than counts and sums.

Not modelled for good: the floating-point numerics; the physics and the rest of
Gadget-4, which is vendored and by far the largest part of the repository; the
functions of `particle.cpp`, which nobody calls; the group and post modules, which
are empty; the wording of prompts, the forwarders and the test harness.
