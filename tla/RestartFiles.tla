---------------------------- MODULE RestartFiles ----------------------------
(***************************************************************************)
(* The restart files of Gadget-4 (src/gadget4/src/io/restart.cc): every    *)
(* task renames its file of the last set to a backup and writes a new one, *)
(* task 0 deciding who may write when; a program that is resumed reads the *)
(* set back the same way.  Programs die anywhere, Terminate (macros.h)     *)
(* kills all tasks, and a user renames the backups as the documentation    *)
(* tells (src/gadget4/documentation/05_parameterfile.md).                  *)
(*                                                                         *)
(* Three things go wrong unnoticed: rename() and fclose() fail, and nobody *)
(* looks whether a run is begun over the files of another or resumed past  *)
(* its end.  `lapses` counts them: what the files promise holds as long as *)
(* there was none, the scheduling holds regardless.                        *)
(*                                                                         *)
(* A call all tasks must enter (MPI_Barrier, MPI_Allreduce, MPI_Gather) is *)
(* one step of all; MPI_Ssend and MPI_Recv meet.  The contents of a file   *)
(* are the time and the run of the state it holds, and whether it is       *)
(* whole: my_fread terminates on a short file.                             *)
(***************************************************************************)
EXTENDS Integers, FiniteSets

CONSTANTS
  NTask,                     \* number of processes
  Node,                      \* the node every task runs on
  MaxFilesWithConcurrentIO,  \* parameter of the same name
  MaxTime,                   \* bound: the final time, in steps
  MaxLives,                  \* bound: how often the program is started
  MaxLapses                  \* bound: how much goes wrong unnoticed

Task == 0 .. NTask - 1

ASSUME TaskAssumption == NTask \in Nat \ {0}
ASSUME NodeAssumption == Node \in [Task -> Nat] /\ \A t \in Task : Node[t] >= Node[0]
ASSUME BoundAssumption ==
  /\ MaxFilesWithConcurrentIO \in Int
  /\ MaxTime \in Nat /\ MaxLives \in Nat /\ MaxLapses \in Nat

VARIABLES
  pc,                  \* where every task is
  modus,               \* the files are read or written
  leaving,             \* the program ends after writing
  mem,                 \* the state every task works on
  started, completed,  \* files_started and files_completed of task 0
  cur, bak,            \* the files restart.t and bak-restart.t
  latest,              \* the last set that was written or put back as a whole
  lapses,              \* how much went wrong unnoticed
  lives                \* how often the program was started

disk == <<cur, bak, latest, lapses>>
schedule == <<started, completed>>
vars == <<pc, modus, leaving, mem, started, completed, cur, bak, latest, lapses, lives>>

-----------------------------------------------------------------------------
NoFile == [time |-> 0, by |-> 0, whole |-> FALSE]
Partial(m) == [time |-> m.time, by |-> m.by, whole |-> FALSE]
Whole(m) == [time |-> m.time, by |-> m.by, whole |-> TRUE]

All(place) == \A t \in Task : pc[t] = place
Up == pc[0] # "down"

\* Something goes wrong that nobody notices.
Lapse == lapses < MaxLapses /\ lapses' = lapses + 1
Sound == lapses = 0

Init ==
  /\ pc = [t \in Task |-> "down"]
  /\ modus = "read" /\ leaving = FALSE
  /\ mem = [t \in Task |-> [time |-> 0, by |-> 0]]
  /\ started = 0 /\ completed = 0
  /\ cur = [t \in Task |-> NoFile] /\ bak = [t \in Task |-> NoFile]
  /\ latest = NoFile /\ lapses = 0 /\ lives = 0

\* The memory of a program that ended or was killed is gone.
Down ==
  /\ pc' = [t \in Task |-> "down"]
  /\ modus' = "read" /\ leaving' = FALSE
  /\ mem' = [t \in Task |-> [time |-> 0, by |-> 0]]
  /\ started' = 0 /\ completed' = 0

\* All tasks end together: the program does, or Terminate aborts it.
Exits == Down /\ UNCHANGED <<disk, lives>>

-----------------------------------------------------------------------------
(* The main loop.                                                          *)

\* The next time, which is the final one again for a run that was resumed
\* behind its end.
Elapsed == IF mem[0].time < MaxTime THEN 1 ELSE 0

\* A time step.
Advance ==
  /\ All("run")
  /\ mem' = [t \in Task |-> [time |-> mem[t].time + Elapsed, by |-> lives]]
  /\ pc' = [t \in Task |-> "check"]
  /\ IF mem[0].time < MaxTime THEN UNCHANGED lapses ELSE Lapse
  /\ UNCHANGED <<modus, leaving, schedule, cur, bak, latest, lives>>

\* After it, no reason to write; at the final time there is always one.
GoOn ==
  /\ All("check") /\ mem[0].time < MaxTime
  /\ pc' = [t \in Task |-> "run"]
  /\ UNCHANGED <<modus, leaving, mem, schedule, disk, lives>>

\* A regular set or one the user asked for, or one to end with: the stop
\* file, the limit of the CPU time, the final time.
BeginWrite ==
  /\ All("check")
  /\ leaving' \in {mem[0].time = MaxTime, TRUE}
  /\ modus' = "write"
  /\ pc' = [t \in Task |-> "backup"]
  /\ UNCHANGED <<mem, schedule, disk, lives>>

-----------------------------------------------------------------------------
(* The backup.                                                             *)

\* Mutated form of Rename: a new file will be written over the old one.
RenameForgotten(t) ==
  /\ pc[t] = "backup"
  /\ pc' = [pc EXCEPT ![t] = "renamed"]
  /\ UNCHANGED <<modus, leaving, mem, schedule, disk, lives>>

\* A task renames its old file, if it has one.
Rename(t) ==
  /\ pc[t] = "backup"
  /\ IF cur[t] = NoFile THEN UNCHANGED <<cur, bak>>
     ELSE /\ bak' = [bak EXCEPT ![t] = cur[t]]
          /\ cur' = [cur EXCEPT ![t] = NoFile]
  /\ pc' = [pc EXCEPT ![t] = "renamed"]
  /\ UNCHANGED <<modus, leaving, mem, schedule, latest, lapses, lives>>

\* rename() fails, and nobody looks at its result.
RenameFails(t) ==
  /\ pc[t] = "backup" /\ cur[t] # NoFile
  /\ pc' = [pc EXCEPT ![t] = "renamed"]
  /\ Lapse
  /\ UNCHANGED <<modus, leaving, mem, schedule, cur, bak, latest, lives>>

-----------------------------------------------------------------------------
(* The scheduler of the I/O.                                               *)

\* MaxFilesWithConcurrentIO as it is used.
Concurrent ==
  IF MaxFilesWithConcurrentIO \in 1 .. NTask THEN MaxFilesWithConcurrentIO ELSE NTask

\* The order of the array seq: by rank in the node, by node, by task.
RankInNode(t) == Cardinality({s \in Task : Node[s] = Node[t] /\ s < t})
Before(s, t) ==
  \/ RankInNode(s) < RankInNode(t)
  \/ RankInNode(s) = RankInNode(t) /\ Node[s] < Node[t]
  \/ RankInNode(s) = RankInNode(t) /\ Node[s] = Node[t] /\ s < t
Place(t) == Cardinality({s \in Task : Before(s, t)})

\* Everybody is here: task 0 sorts and starts, the others wait for its signal.
Scheduling == [t \in Task |-> IF t = 0 THEN "issue" ELSE "wait"]

\* Mutated form of Gather: nobody waits for the sum of the backups.
GatherEarly ==
  /\ pc[0] = "renamed"
  /\ pc' = [t \in Task |-> IF pc[t] = "renamed" THEN Scheduling[t] ELSE pc[t]]
  /\ started' = 0 /\ completed' = 0
  /\ UNCHANGED <<modus, leaving, mem, disk, lives>>

\* Mutated form of Gather: the counters of the last set are kept.
GatherAgain ==
  /\ All("renamed")
  /\ pc' = Scheduling
  /\ UNCHANGED <<modus, leaving, mem, schedule, disk, lives>>

\* The reduction that ends the backup, and the gathering of the order.
Gather ==
  /\ All("renamed")
  /\ pc' = Scheduling
  /\ started' = 0 /\ completed' = 0
  /\ UNCHANGED <<modus, leaving, mem, disk, lives>>

\* Task 0 tells the task at a place of the order to start, which waits for it;
\* itself is at `here' then.
Signalled(place, here) ==
  \E t \in Task \ {0} :
    /\ Place(t) = place /\ pc[t] = "wait"
    /\ pc' = [pc EXCEPT ![0] = here, ![t] = "open"]

\* Mutated form of Issue: one task more is started.
IssueTooMany ==
  /\ pc[0] = "issue"
  /\ started' = started + 1
  /\ IF started < Concurrent THEN Signalled(started + 1, "issue")
     ELSE pc' = [pc EXCEPT ![0] = "open"]
  /\ UNCHANGED <<modus, leaving, mem, completed, disk, lives>>

\* The first tasks are started, then task 0 turns to its own file.
Issue ==
  /\ pc[0] = "issue"
  /\ started' = started + 1
  /\ IF started < Concurrent - 1 THEN Signalled(started + 1, "issue")
     ELSE pc' = [pc EXCEPT ![0] = "open"]
  /\ UNCHANGED <<modus, leaving, mem, completed, disk, lives>>

\* Task 0 starts the next task if there is one left.
StartNext(here) ==
  IF started < NTask
  THEN started' = started + 1 /\ Signalled(started, here)
  ELSE pc' = [pc EXCEPT ![0] = here] /\ UNCHANGED started

\* Behind its own file.
OwnDone ==
  /\ pc[0] = "own"
  /\ StartNext("poll")
  /\ UNCHANGED <<modus, leaving, mem, completed, disk, lives>>

\* Mutated form of Poll: a completion starts nobody.
PollIdle(t) ==
  /\ t # 0 /\ pc[t] = "notify" /\ pc[0] \in {"file", "poll"}
  /\ completed' = completed + 1
  /\ pc' = [pc EXCEPT ![t] = "done"]
  /\ UNCHANGED <<modus, leaving, mem, started, disk, lives>>

\* Between the blocks of its own file and afterwards task 0 looks for a task
\* that has finished, and starts another.
Poll(t) ==
  /\ t # 0 /\ pc[t] = "notify" /\ pc[0] \in {"file", "poll"}
  /\ completed' = completed + 1
  /\ IF started < NTask
     THEN /\ started' = started + 1
          /\ \E s \in Task \ {0} :
               /\ Place(s) = started /\ pc[s] = "wait"
               /\ pc' = [pc EXCEPT ![s] = "open", ![t] = "done"]
     ELSE pc' = [pc EXCEPT ![t] = "done"] /\ UNCHANGED started
  /\ UNCHANGED <<modus, leaving, mem, disk, lives>>

\* All files are done.
Complete ==
  /\ pc[0] = "poll" /\ completed = NTask
  /\ pc' = [pc EXCEPT ![0] = "done"]
  /\ UNCHANGED <<modus, leaving, mem, schedule, disk, lives>>

-----------------------------------------------------------------------------
(* One file.                                                               *)

\* Opening for writing makes the file empty.
OpenWrite(t) ==
  /\ pc[t] = "open" /\ modus = "write"
  /\ cur' = [cur EXCEPT ![t] = Partial(mem[t])]
  /\ pc' = [pc EXCEPT ![t] = "file"]
  /\ UNCHANGED <<modus, leaving, mem, schedule, bak, latest, lapses, lives>>

\* A file that is missing cannot be opened for reading.
OpenRead(t) ==
  /\ pc[t] = "open" /\ modus = "read"
  /\ IF cur[t] = NoFile THEN Exits
     ELSE /\ pc' = [pc EXCEPT ![t] = "file"]
          /\ UNCHANGED <<modus, leaving, mem, schedule, disk, lives>>

\* Behind the last block of the file.
Closed(t) ==
  /\ pc' = [pc EXCEPT ![t] = IF t = 0 THEN "own" ELSE "notify"]
  /\ completed' = IF t = 0 THEN completed + 1 ELSE completed
  /\ UNCHANGED started

FinishWrite(t) ==
  /\ pc[t] = "file" /\ modus = "write"
  /\ cur' = [cur EXCEPT ![t] = Whole(mem[t])]
  /\ latest' = IF \A s \in Task : cur'[s] = Whole(mem[s]) THEN cur'[t] ELSE latest
  /\ Closed(t)
  /\ UNCHANGED <<modus, leaving, mem, bak, lapses, lives>>

\* fclose() cannot write the rest, and nobody looks at its result.
FinishWriteShort(t) ==
  /\ pc[t] = "file" /\ modus = "write"
  /\ Closed(t)
  /\ Lapse
  /\ UNCHANGED <<modus, leaving, mem, cur, bak, latest, lives>>

\* Mutated form of FinishRead: a short file is no error.
FinishReadShort(t) ==
  /\ pc[t] = "file" /\ modus = "read"
  /\ mem' = [mem EXCEPT ![t] = [time |-> cur[t].time, by |-> cur[t].by]]
  /\ Closed(t)
  /\ UNCHANGED <<modus, leaving, disk, lives>>

FinishRead(t) ==
  /\ pc[t] = "file" /\ modus = "read"
  /\ IF ~cur[t].whole THEN Exits
     ELSE /\ mem' = [mem EXCEPT ![t] = [time |-> cur[t].time, by |-> cur[t].by]]
          /\ Closed(t)
          /\ UNCHANGED <<modus, leaving, disk, lives>>

\* Mutated form of SameTime: the times of the files are not compared.
SameTimeUnchecked == TRUE

\* All tasks have read a state of the time of task 0.
SameTime == \A t \in Task : mem[t].time = mem[0].time

\* The set is read, and the run goes on with it if the times agree.
EndRead ==
  /\ All("done") /\ modus = "read"
  /\ IF SameTime
     THEN /\ pc' = [t \in Task |-> "run"]
          /\ UNCHANGED <<modus, leaving, mem, schedule, disk, lives>>
     ELSE Exits

\* The set is written, and the run goes on or ends.
EndWrite ==
  /\ All("done") /\ modus = "write"
  /\ IF leaving THEN Exits
     ELSE /\ pc' = [t \in Task |-> "run"]
          /\ modus' = "read"
          /\ UNCHANGED <<leaving, mem, schedule, disk, lives>>

-----------------------------------------------------------------------------
(* Death, and the user.                                                    *)

\* A file that cannot be opened or written, or any other death of a task.
Crash == Up /\ Exits

\* The program is started to resume a run ...
Resume ==
  /\ ~Up /\ lives < MaxLives
  /\ lives' = lives + 1
  /\ pc' = Scheduling
  /\ started' = 0 /\ completed' = 0
  /\ UNCHANGED <<modus, leaving, mem, disk>>

\* ... or to begin one, whatever files there are.
StartNew ==
  /\ ~Up /\ lives < MaxLives
  /\ lives' = lives + 1
  /\ pc' = [t \in Task |-> "run"]
  /\ IF \A t \in Task : cur[t] = NoFile /\ bak[t] = NoFile THEN UNCHANGED lapses ELSE Lapse
  /\ UNCHANGED <<modus, leaving, mem, schedule, cur, bak, latest>>

\* A set that can be read, and the set the user gets who renames the backups,
\* with or without removing the other files.
Loadable(set) == \A t \in Task : set[t].whole /\ set[t].time = set[0].time
Renamed(discard) ==
  [t \in Task |-> IF bak[t] # NoFile THEN bak[t] ELSE IF discard THEN NoFile ELSE cur[t]]

OneRun(set) == \A t \in Task : set[t].whole /\ set[t] = set[0]

Recover ==
  /\ ~Up /\ ~Loadable(cur)
  /\ \E discard \in BOOLEAN : cur' = Renamed(discard)
  /\ bak' = [t \in Task |-> NoFile]
  /\ latest' = IF OneRun(cur') THEN cur'[0] ELSE NoFile
  /\ UNCHANGED <<pc, modus, leaving, mem, schedule, lapses, lives>>

\* The user gives the run up.
Clean ==
  /\ ~Up
  /\ cur' = [t \in Task |-> NoFile] /\ bak' = [t \in Task |-> NoFile]
  /\ latest' = NoFile
  /\ UNCHANGED <<pc, modus, leaving, mem, schedule, lapses, lives>>

Work ==
  \/ Advance \/ GoOn \/ BeginWrite \/ Gather \/ Issue \/ OwnDone \/ Complete
  \/ EndRead \/ EndWrite
  \/ \E t \in Task : \/ Rename(t) \/ RenameFails(t) \/ Poll(t) \/ OpenWrite(t) \/ OpenRead(t)
                     \/ FinishWrite(t) \/ FinishWriteShort(t) \/ FinishRead(t)

Next == Work \/ Crash \/ Resume \/ StartNew \/ Recover \/ Clean

\* Tasks that run take their steps; nobody has to start a program.
Spec == Init /\ [][Next]_vars
FairSpec == Spec /\ WF_vars(Work)

-----------------------------------------------------------------------------
State == [time : Nat, by : Nat]
File == [time : Nat, by : Nat, whole : BOOLEAN]

\* Every variable has its type.
TypeOK ==
  /\ pc \in [Task -> {"down", "run", "check", "backup", "renamed", "issue", "wait", "open",
                      "file", "own", "notify", "poll", "done"}]
  /\ modus \in {"read", "write"} /\ leaving \in BOOLEAN
  /\ mem \in [Task -> State]
  /\ started \in 0 .. NTask /\ completed \in Nat
  /\ cur \in [Task -> File] /\ bak \in [Task -> File]
  /\ latest \in File /\ lapses \in Nat /\ lives \in Nat

\* Whatever the program does and wherever it dies, every task still has its
\* file of the last complete set, under one of the two names, unless a rename
\* or a close failed unnoticed or another run was begun over the files.
LatestStands ==
  (Sound /\ latest # NoFile) => \A t \in Task : latest \in {cur[t], bak[t]}

\* Whenever a file of the new set is open and not yet whole, the backups of all
\* tasks are the whole old set (02_running.md:341-352: "the old set of files
\* still exits and is valid").
OldSetWhileWriting ==
  (Sound /\ modus = "write" /\ latest # NoFile /\ \E t \in Task : cur[t] = Partial(mem[t]))
    => \A t \in Task : bak[t] = latest

\* A program that runs has the state of one set on all tasks: no mix of times
\* or runs is taken up.
LoadsOneSet == (Sound /\ All("run")) => \A t \in Task : mem[t] = mem[0]

\* No more files are open at a time than the parameter allows.
AtMostConcurrent == Cardinality({t \in Task : pc[t] \in {"open", "file"}}) <= Concurrent

\* Writing ends, unless the program dies: task 0 waits for no message that
\* nobody sends, and nobody waits for a signal task 0 does not give.
WriteEnds == All("backup") ~> (All("run") \/ ~Up)

\* The documented recovery: whenever the program is dead and a complete set
\* was written, the files can be read as they are, or after the backups are
\* renamed (02_running.md:345-352, 05_parameterfile.md:191-202).
DocumentedRecovery ==
  (Sound /\ ~Up /\ latest # NoFile) =>
    Loadable(cur) \/ \E discard \in BOOLEAN : Loadable(Renamed(discard))

\* The newest state all tasks have a whole file of.
Held == {f \in {cur[0], bak[0]} : f.whole /\ \A t \in Task : f \in {cur[t], bak[t]}}
Stored ==
  IF Held = {} THEN -1
  ELSE (CHOOSE f \in Held : \A g \in Held : g.time <= f.time).time

Working == Up /\ ~(modus = "read" /\ \E t \in Task : pc[t] \notin {"run", "check"})

\* The files of all tasks together are one checkpoint that is saved at once.
Abstract == INSTANCE Checkpoint WITH
  Nothing <- -1, up <- Working, work <- IF Working THEN mem[0].time ELSE 0, stored <- Stored,
  sound <- Sound

ImplementsCheckpoint == Abstract!Spec
=============================================================================
