------------------------- MODULE RestartFilesProofs -------------------------
(***************************************************************************)
(* Proofs about the module RestartFiles, for any number of tasks, any      *)
(* placement on nodes and any limit of concurrent files: as long as        *)
(* nothing went wrong unnoticed, the last complete set of restart files    *)
(* survives every death of the program, a program that runs has taken up   *)
(* one set, and the files of all tasks with their backups implement one    *)
(* saved state (Checkpoint), which only the user can lose; and task 0      *)
(* never has more tasks at work than MaxFilesWithConcurrentIO, whatever    *)
(* went wrong.                                                             *)
(***************************************************************************)
EXTENDS RestartFiles, FiniteSetTheorems, TLAPS

-----------------------------------------------------------------------------
(* The inductive invariant.                                                *)

\* Where a task is while files are read or written: before it opens its file,
\* and after it closed it.
Early == {"issue", "wait", "open"}
Late == {"own", "notify", "poll", "done"}
Filing == Early \cup Late \cup {"file"}
Saving == {"backup", "renamed"}

\* Tasks enter and leave the parts of the program together.
InPart(part) == pc[0] \in part => \A t \in Task : pc[t] \in part
Together ==
  /\ InPart({"down"}) /\ InPart({"run"}) /\ InPart({"check"}) /\ InPart(Saving)
  /\ InPart(Filing)
  /\ pc[0] \in {"down", "run", "check"} => modus = "read"
  /\ pc[0] \in Saving => modus = "write"
  /\ pc[0] = "issue" => started < Concurrent

\* What holds whatever goes wrong unnoticed.
Basic == TypeOK /\ Together

\* The files of the last complete set are there.
LatestKept == latest # NoFile => \A t \in Task : latest \in {cur[t], bak[t]}

\* A complete set consists of whole files, and a set of whole files under the
\* normal names is the last complete one.
LatestWhole ==
  latest # NoFile =>
    /\ latest.whole
    /\ (\A t \in Task : cur[t].whole) => \A t \in Task : cur[t] = latest

\* Reading leaves a task behind a whole file.
ReadWhole ==
  modus = "read" => \A t \in Task : pc[t] \in Late => cur[t].whole

\* A running program has the last complete set under the normal names.
RunsFromLatest ==
  (pc[0] \in {"run", "check"} /\ latest # NoFile) => \A t \in Task : cur[t] = latest

\* All tasks are at one time, and after a step in one run.
SameState ==
  /\ pc[0] \in {"down", "run"} => SameTime
  /\ (pc[0] = "check" \/ modus = "write") =>
       \A t \in Task : mem[t] = mem[0] /\ mem[t].time > 0

\* The backup moves the last complete set file by file.
BackupMoves ==
  \A t \in Task :
    /\ pc[t] = "backup" /\ latest # NoFile => cur[t] = latest
    /\ pc[t] = "renamed" => cur[t] = NoFile /\ (latest # NoFile => bak[t] = latest)

\* The new set grows beside the backup of the old one, until it is complete.
NewSetGrows ==
  (modus = "write" /\ pc[0] \in Filing) =>
    /\ \A t \in Task :
         /\ pc[t] \in Early => cur[t] = NoFile
         /\ pc[t] = "file" => cur[t] = Partial(mem[t])
         /\ pc[t] \in Late => cur[t] = Whole(mem[t])
    /\ latest # NoFile =>
         (\A t \in Task : bak[t] = latest) \/ (\A t \in Task : cur[t] = latest)

IInv ==
  /\ TypeOK /\ Together /\ LatestKept /\ LatestWhole /\ ReadWhole /\ RunsFromLatest
  /\ SameState /\ BackupMoves /\ NewSetGrows

-----------------------------------------------------------------------------
(* Its proof.                                                              *)

USE TaskAssumption

\* There is a task 0.
LEMMA ZeroIsATask == 0 \in Task
  BY DEF Task

\* The limit that is used lies between one file and all of them.
LEMMA ConcurrentType == Concurrent \in 1 .. NTask
  BY BoundAssumption DEF Concurrent

\* It holds when nothing was ever started.
LEMMA InitInv == ASSUME Init PROVE IInv
<1>1. TypeOK
  <2>1. (pc \in [Task -> {"down", "run", "check", "backup", "renamed", "issue", "wait", "open",
                      "file", "own", "notify", "poll", "done"}])
    BY ZeroIsATask
        DEF Init
  <2>2. (modus \in {"read", "write"} /\ leaving \in BOOLEAN)
    BY ZeroIsATask
        DEF Init
  <2>3. (mem \in [Task -> State])
    BY ZeroIsATask
        DEF Init, State
  <2>4. (started \in 0 .. NTask /\ completed \in Nat)
    BY ZeroIsATask
        DEF Init
  <2>5. (cur \in [Task -> File] /\ bak \in [Task -> File])
    BY ZeroIsATask
        DEF Init, File, NoFile
  <2>6. (latest \in File /\ lapses \in Nat /\ lives \in Nat)
    BY ZeroIsATask
        DEF Init, File, NoFile
  <2>. QED
    BY <2>1, <2>2, <2>3, <2>4, <2>5, <2>6 DEF TypeOK
<1>2. Together
  BY ZeroIsATask
      DEF Init, TypeOK, Together, InPart, Early, Late, Filing, Saving, NoFile
<1>3. LatestKept
  BY ZeroIsATask
      DEF Init, TypeOK, LatestKept, NoFile
<1>4. LatestWhole
  BY ZeroIsATask
      DEF Init, TypeOK, LatestWhole, NoFile
<1>5. ReadWhole
  BY ZeroIsATask
      DEF Init, TypeOK, ReadWhole, Late, NoFile
<1>6. RunsFromLatest
  BY ZeroIsATask
      DEF Init, TypeOK, RunsFromLatest, NoFile
<1>7. SameState
  BY ZeroIsATask
      DEF Init, TypeOK, SameState, SameTime, NoFile
<1>8. BackupMoves
  BY ZeroIsATask
      DEF Init, TypeOK, BackupMoves, Saving, NoFile
<1>9. NewSetGrows
  BY ZeroIsATask
      DEF Init, TypeOK, NewSetGrows, Early, Late, Filing, NoFile
<1>. QED
  BY <1>1, <1>2, <1>3, <1>4, <1>5, <1>6, <1>7, <1>8, <1>9 DEF IInv

-----------------------------------------------------------------------------
(* What holds whatever goes wrong.                                         *)

\* What is in memory is lost; the files are in order whenever that happens.
LEMMA ExitsBasic == ASSUME Basic, Exits PROVE Basic'
<1>1. TypeOK'
  <2>1. (pc \in [Task -> {"down", "run", "check", "backup", "renamed", "issue", "wait", "open",
                      "file", "own", "notify", "poll", "done"}])'
    BY ZeroIsATask
        DEF Basic, TypeOK, Exits, Down, disk
  <2>2. (modus \in {"read", "write"} /\ leaving \in BOOLEAN)'
    BY ZeroIsATask
        DEF Basic, TypeOK, Exits, Down, disk
  <2>3. (mem \in [Task -> State])'
    BY ZeroIsATask
        DEF Basic, TypeOK, Exits, Down, disk, State
  <2>4. (started \in 0 .. NTask /\ completed \in Nat)'
    BY ZeroIsATask
        DEF Basic, TypeOK, Exits, Down, disk, Together
  <2>5. (cur \in [Task -> File] /\ bak \in [Task -> File])'
    BY ZeroIsATask
        DEF Basic, TypeOK, Exits, Down, disk, File, NoFile
  <2>6. (latest \in File /\ lapses \in Nat /\ lives \in Nat)'
    BY ZeroIsATask
        DEF Basic, TypeOK, Exits, Down, disk, File, NoFile
  <2>. QED
    BY <2>1, <2>2, <2>3, <2>4, <2>5, <2>6 DEF TypeOK
<1>2. Together'
  BY ZeroIsATask
      DEF Basic, Exits, Down, disk, TypeOK, Together, InPart, Early, Late, Filing, Saving
<1>. QED
  BY <1>1, <1>2 DEF Basic

\* A time step.
LEMMA AdvanceBasic == ASSUME Basic, Advance PROVE Basic'
<1>1. TypeOK'
  BY ZeroIsATask
      DEF Basic, Advance, Elapsed, Lapse, All, disk, schedule, TypeOK, State, File, NoFile, Together
<1>2. Together'
  BY ZeroIsATask
      DEF Basic, Advance, Elapsed, Lapse, All, disk, schedule, TypeOK, Together, InPart, Early, Late, Filing,
          Saving
<1>. QED
  BY <1>1, <1>2 DEF Basic

\* A step without a set of files.
LEMMA GoOnBasic == ASSUME Basic, GoOn PROVE Basic'
<1>1. TypeOK'
  BY ZeroIsATask
      DEF Basic, GoOn, All, disk, schedule, TypeOK, State, File, NoFile, Together
<1>2. Together'
  BY ZeroIsATask
      DEF Basic, GoOn, All, disk, schedule, TypeOK, Together, InPart, Early, Late, Filing,
          Saving
<1>. QED
  BY <1>1, <1>2 DEF Basic

\* The decision to write a set.
LEMMA BeginWriteBasic == ASSUME Basic, BeginWrite PROVE Basic'
<1>1. TypeOK'
  BY ZeroIsATask
      DEF Basic, BeginWrite, All, disk, schedule, TypeOK, State, File, NoFile, Together
<1>2. Together'
  BY ZeroIsATask
      DEF Basic, BeginWrite, All, disk, schedule, TypeOK, Together, InPart, Early, Late,
          Filing, Saving
<1>. QED
  BY <1>1, <1>2 DEF Basic

\* One task's backup.
LEMMA RenameBasic == ASSUME NEW t \in Task, Basic, Rename(t) PROVE Basic'
<1>1. TypeOK'
  <2>1. (pc \in [Task -> {"down", "run", "check", "backup", "renamed", "issue", "wait", "open",
                      "file", "own", "notify", "poll", "done"}])'
    BY ZeroIsATask
        DEF Basic, TypeOK, Rename, disk, schedule
  <2>2. (modus \in {"read", "write"} /\ leaving \in BOOLEAN)'
    BY ZeroIsATask
        DEF Basic, TypeOK, Rename, disk, schedule
  <2>3. (mem \in [Task -> State])'
    BY ZeroIsATask
        DEF Basic, TypeOK, Rename, disk, schedule, State
  <2>4. (started \in 0 .. NTask /\ completed \in Nat)'
    BY ZeroIsATask
        DEF Basic, TypeOK, Rename, disk, schedule, Together
  <2>5. (cur \in [Task -> File] /\ bak \in [Task -> File])'
    <3>1. CASE cur[t] = NoFile
      BY <3>1 DEF Basic, TypeOK, Rename
    <3>2. CASE cur[t] # NoFile
      <4>1. bak' = [bak EXCEPT ![t] = cur[t]] /\ cur' = [cur EXCEPT ![t] = NoFile]
        BY <3>2 DEF Rename
      <4>2. NoFile \in File /\ cur[t] \in File
        BY DEF NoFile, File, Basic, TypeOK
      <4>. QED
        BY <4>1, <4>2 DEF Basic, TypeOK
    <3>. QED
      BY <3>1, <3>2
  <2>6. (latest \in File /\ lapses \in Nat /\ lives \in Nat)'
    BY ZeroIsATask
        DEF Basic, TypeOK, Rename, disk, schedule, File, NoFile
  <2>. QED
    BY <2>1, <2>2, <2>3, <2>4, <2>5, <2>6 DEF TypeOK
<1>2. Together'
  BY ZeroIsATask
      DEF Basic, Rename, disk, schedule, TypeOK, Together, InPart, Early, Late, Filing,
          Saving
<1>. QED
  BY <1>1, <1>2 DEF Basic

\* The end of all backups.
LEMMA GatherBasic == ASSUME Basic, Gather PROVE Basic'
<1>1. TypeOK'
  BY ConcurrentType, ZeroIsATask
      DEF Basic, Gather, Scheduling, All, disk, schedule, TypeOK, State, File, NoFile,
          Together
<1>2. Together'
  BY ConcurrentType, ZeroIsATask
      DEF Basic, Gather, Scheduling, All, disk, schedule, TypeOK, Together, InPart, Early,
          Late, Filing, Saving
<1>. QED
  BY <1>1, <1>2 DEF Basic

\* Task 0 starts the first tasks and itself.
LEMMA IssueBasic == ASSUME Basic, Issue PROVE Basic'
<1>1. TypeOK'
  <2>1. (pc \in [Task -> {"down", "run", "check", "backup", "renamed", "issue", "wait", "open",
                      "file", "own", "notify", "poll", "done"}])'
    BY ConcurrentType, ZeroIsATask
        DEF Basic, TypeOK, Issue, Signalled, disk, schedule
  <2>2. (modus \in {"read", "write"} /\ leaving \in BOOLEAN)'
    BY ConcurrentType, ZeroIsATask
        DEF Basic, TypeOK, Issue, Signalled, disk, schedule
  <2>3. (mem \in [Task -> State])'
    BY ConcurrentType, ZeroIsATask
        DEF Basic, TypeOK, Issue, Signalled, disk, schedule, State
  <2>4. (started \in 0 .. NTask /\ completed \in Nat)'
    BY ConcurrentType, ZeroIsATask
        DEF Basic, TypeOK, Issue, Signalled, disk, schedule, Together
  <2>5. (cur \in [Task -> File] /\ bak \in [Task -> File])'
    BY ConcurrentType, ZeroIsATask
        DEF Basic, TypeOK, Issue, Signalled, disk, schedule, File, NoFile
  <2>6. (latest \in File /\ lapses \in Nat /\ lives \in Nat)'
    BY ConcurrentType, ZeroIsATask
        DEF Basic, TypeOK, Issue, Signalled, disk, schedule, File, NoFile
  <2>. QED
    BY <2>1, <2>2, <2>3, <2>4, <2>5, <2>6 DEF TypeOK
<1>2. Together'
  BY ConcurrentType, ZeroIsATask
      DEF Basic, Issue, Signalled, disk, schedule, TypeOK, Together, InPart, Early, Late,
          Filing, Saving
<1>. QED
  BY <1>1, <1>2 DEF Basic

\* Task 0 behind its own file.
LEMMA OwnDoneBasic == ASSUME Basic, OwnDone PROVE Basic'
<1>1. TypeOK'
  <2>1. (pc \in [Task -> {"down", "run", "check", "backup", "renamed", "issue", "wait", "open",
                      "file", "own", "notify", "poll", "done"}])'
    BY ZeroIsATask
        DEF Basic, TypeOK, OwnDone, StartNext, Signalled, disk, schedule
  <2>2. (modus \in {"read", "write"} /\ leaving \in BOOLEAN)'
    BY ZeroIsATask
        DEF Basic, TypeOK, OwnDone, StartNext, Signalled, disk, schedule
  <2>3. (mem \in [Task -> State])'
    BY ZeroIsATask
        DEF Basic, TypeOK, OwnDone, StartNext, Signalled, disk, schedule, State
  <2>4. (started \in 0 .. NTask /\ completed \in Nat)'
    BY ZeroIsATask
        DEF Basic, TypeOK, OwnDone, StartNext, Signalled, disk, schedule, Together
  <2>5. (cur \in [Task -> File] /\ bak \in [Task -> File])'
    BY ZeroIsATask
        DEF Basic, TypeOK, OwnDone, StartNext, Signalled, disk, schedule, File, NoFile
  <2>6. (latest \in File /\ lapses \in Nat /\ lives \in Nat)'
    BY ZeroIsATask
        DEF Basic, TypeOK, OwnDone, StartNext, Signalled, disk, schedule, File, NoFile
  <2>. QED
    BY <2>1, <2>2, <2>3, <2>4, <2>5, <2>6 DEF TypeOK
<1>2. Together'
  BY ZeroIsATask
      DEF Basic, OwnDone, StartNext, Signalled, disk, schedule, TypeOK, Together, InPart,
          Early, Late, Filing, Saving
<1>. QED
  BY <1>1, <1>2 DEF Basic

\* Task 0 hears of a finished task.
LEMMA PollBasic == ASSUME NEW t \in Task, Basic, Poll(t) PROVE Basic'
<1>1. TypeOK'
  <2>1. (pc \in [Task -> {"down", "run", "check", "backup", "renamed", "issue", "wait", "open",
                      "file", "own", "notify", "poll", "done"}])'
    BY ZeroIsATask
        DEF Basic, TypeOK, Poll, disk, schedule
  <2>2. (modus \in {"read", "write"} /\ leaving \in BOOLEAN)'
    BY ZeroIsATask
        DEF Basic, TypeOK, Poll, disk, schedule
  <2>3. (mem \in [Task -> State])'
    BY ZeroIsATask
        DEF Basic, TypeOK, Poll, disk, schedule, State
  <2>4. (started \in 0 .. NTask /\ completed \in Nat)'
    BY ZeroIsATask
        DEF Basic, TypeOK, Poll, disk, schedule, Together
  <2>5. (cur \in [Task -> File] /\ bak \in [Task -> File])'
    BY ZeroIsATask
        DEF Basic, TypeOK, Poll, disk, schedule, File, NoFile
  <2>6. (latest \in File /\ lapses \in Nat /\ lives \in Nat)'
    BY ZeroIsATask
        DEF Basic, TypeOK, Poll, disk, schedule, File, NoFile
  <2>. QED
    BY <2>1, <2>2, <2>3, <2>4, <2>5, <2>6 DEF TypeOK
<1>2. Together'
  BY ZeroIsATask
      DEF Basic, Poll, disk, schedule, TypeOK, Together, InPart, Early, Late, Filing, Saving
<1>. QED
  BY <1>1, <1>2 DEF Basic

\* The end of the scheduler.
LEMMA CompleteBasic == ASSUME Basic, Complete PROVE Basic'
<1>1. TypeOK'
  BY ZeroIsATask
      DEF Basic, Complete, disk, schedule, TypeOK, State, File, NoFile, Together
<1>2. Together'
  BY ZeroIsATask
      DEF Basic, Complete, disk, schedule, TypeOK, Together, InPart, Early, Late, Filing,
          Saving
<1>. QED
  BY <1>1, <1>2 DEF Basic

\* A new, empty file.
LEMMA OpenWriteBasic == ASSUME NEW t \in Task, Basic, OpenWrite(t) PROVE Basic'
<1>1. TypeOK'
  BY ZeroIsATask
      DEF Basic, OpenWrite, Partial, disk, schedule, TypeOK, State, File, NoFile, Together
<1>2. Together'
  BY ZeroIsATask
      DEF Basic, OpenWrite, Partial, disk, schedule, TypeOK, Together, InPart, Early, Late,
          Filing, Saving
<1>. QED
  BY <1>1, <1>2 DEF Basic

\* A file that is read, or missing.
LEMMA OpenReadBasic == ASSUME NEW t \in Task, Basic, OpenRead(t) PROVE Basic'
<1>1. TypeOK'
  BY ExitsBasic, ZeroIsATask
      DEF Basic, OpenRead, disk, schedule, TypeOK, State, File, NoFile, Together
<1>2. Together'
  BY ExitsBasic, ZeroIsATask
      DEF Basic, OpenRead, disk, schedule, TypeOK, Together, InPart, Early, Late, Filing,
          Saving
<1>. QED
  BY <1>1, <1>2 DEF Basic

\* The last block of a new file, which may complete the set.
LEMMA FinishWriteBasic == ASSUME NEW t \in Task, Basic, FinishWrite(t) PROVE Basic'
<1>1. TypeOK'
  BY DEF Basic, FinishWrite, Closed, Whole, TypeOK, State, File
<1>2. Together'
  BY ZeroIsATask
      DEF Basic, FinishWrite, Closed, TypeOK, Together, InPart, Early, Late, Filing, Saving
<1>. QED
  BY <1>1, <1>2 DEF Basic

\* A file is read, or is too short.
LEMMA FinishReadBasic == ASSUME NEW t \in Task, Basic, FinishRead(t) PROVE Basic'
<1>1. TypeOK'
  <2>1. (pc \in [Task -> {"down", "run", "check", "backup", "renamed", "issue", "wait", "open",
                      "file", "own", "notify", "poll", "done"}])'
    BY ExitsBasic, ZeroIsATask
        DEF Basic, TypeOK, FinishRead, Closed, disk, schedule
  <2>2. (modus \in {"read", "write"} /\ leaving \in BOOLEAN)'
    BY ExitsBasic, ZeroIsATask
        DEF Basic, TypeOK, FinishRead, Closed, disk, schedule
  <2>3. (mem \in [Task -> State])'
    <3>1. CASE ~cur[t].whole
      BY <3>1, ExitsBasic DEF FinishRead, Basic, TypeOK
    <3>2. CASE cur[t].whole
      <4>1. [time |-> cur[t].time, by |-> cur[t].by] \in State
        BY DEF Basic, TypeOK, State, File
      <4>. QED
        BY <3>2, <4>1 DEF FinishRead, Basic, TypeOK
    <3>. QED
      BY <3>1, <3>2
  <2>4. (started \in 0 .. NTask /\ completed \in Nat)'
    BY ExitsBasic, ZeroIsATask
        DEF Basic, TypeOK, FinishRead, Closed, disk, schedule, Together
  <2>5. (cur \in [Task -> File] /\ bak \in [Task -> File])'
    BY ExitsBasic, ZeroIsATask
        DEF Basic, TypeOK, FinishRead, Closed, disk, schedule, File, NoFile
  <2>6. (latest \in File /\ lapses \in Nat /\ lives \in Nat)'
    BY ExitsBasic, ZeroIsATask
        DEF Basic, TypeOK, FinishRead, Closed, disk, schedule, File, NoFile
  <2>. QED
    BY <2>1, <2>2, <2>3, <2>4, <2>5, <2>6 DEF TypeOK
<1>2. Together'
  BY ExitsBasic, ZeroIsATask
      DEF Basic, FinishRead, Closed, disk, schedule, TypeOK, Together, InPart, Early, Late,
          Filing, Saving
<1>. QED
  BY <1>1, <1>2 DEF Basic

\* The comparison of the times.
LEMMA EndReadBasic == ASSUME Basic, EndRead PROVE Basic'
<1>1. TypeOK'
  BY ExitsBasic, ZeroIsATask
      DEF Basic, EndRead, All, disk, schedule, TypeOK, State, File, NoFile, Together
<1>2. Together'
  BY ExitsBasic, ZeroIsATask
      DEF Basic, EndRead, All, disk, schedule, TypeOK, Together, InPart, Early, Late, Filing,
          Saving
<1>. QED
  BY <1>1, <1>2 DEF Basic

\* The set is written.
LEMMA EndWriteBasic == ASSUME Basic, EndWrite PROVE Basic'
<1>1. TypeOK'
  BY ExitsBasic, ZeroIsATask
      DEF Basic, EndWrite, Whole, All, disk, schedule, TypeOK, State, File, NoFile, Together
<1>2. Together'
  BY ExitsBasic, ZeroIsATask
      DEF Basic, EndWrite, Whole, All, disk, schedule, TypeOK, Together, InPart, Early, Late,
          Filing, Saving
<1>. QED
  BY <1>1, <1>2 DEF Basic

\* A start to resume.
LEMMA ResumeBasic == ASSUME Basic, Resume PROVE Basic'
<1>1. TypeOK'
  BY ConcurrentType, ZeroIsATask
      DEF Basic, Resume, Up, Scheduling, disk, schedule, TypeOK, State, File, NoFile,
          Together
<1>2. Together'
  BY ConcurrentType, ZeroIsATask
      DEF Basic, Resume, Up, Scheduling, disk, schedule, TypeOK, Together, InPart, Early,
          Late, Filing, Saving
<1>. QED
  BY <1>1, <1>2 DEF Basic

\* A start in any directory.
LEMMA StartNewBasic == ASSUME Basic, StartNew PROVE Basic'
<1>1. TypeOK'
  BY ZeroIsATask
      DEF Basic, StartNew, Lapse, Up, disk, schedule, TypeOK, State, File, NoFile, Together
<1>2. Together'
  BY ZeroIsATask
      DEF Basic, StartNew, Lapse, Up, disk, schedule, TypeOK, Together, InPart, Early, Late, Filing,
          Saving
<1>. QED
  BY <1>1, <1>2 DEF Basic

\* The user renames the backups.
LEMMA RecoverBasic == ASSUME Basic, Recover PROVE Basic'
<1>1. TypeOK'
  BY ZeroIsATask
      DEF Basic, Recover, Up, Renamed, OneRun, disk, schedule, TypeOK, State, File, NoFile,
          Together
<1>2. Together'
  BY ZeroIsATask
      DEF Basic, Recover, Up, Renamed, OneRun, disk, schedule, TypeOK, Together, InPart,
          Early, Late, Filing, Saving
<1>. QED
  BY <1>1, <1>2 DEF Basic

\* The user removes the files.
LEMMA CleanBasic == ASSUME Basic, Clean PROVE Basic'
<1>1. TypeOK'
  BY ZeroIsATask
      DEF Basic, Clean, Up, disk, schedule, TypeOK, State, File, NoFile, Together
<1>2. Together'
  BY ZeroIsATask
      DEF Basic, Clean, Up, disk, schedule, TypeOK, Together, InPart, Early, Late, Filing,
          Saving
<1>. QED
  BY <1>1, <1>2 DEF Basic

\* A backup that fails.
LEMMA RenameFailsBasic == ASSUME NEW t \in Task, Basic, RenameFails(t) PROVE Basic'
<1>1. TypeOK'
  BY DEF Basic, RenameFails, Lapse, schedule, TypeOK
<1>2. Together'
  BY ZeroIsATask
      DEF Basic, RenameFails, schedule, TypeOK, Together, InPart, Early, Late, Filing, Saving
<1>. QED
  BY <1>1, <1>2 DEF Basic

\* A file that is closed too short.
LEMMA FinishWriteShortBasic == ASSUME NEW t \in Task, Basic, FinishWriteShort(t) PROVE Basic'
<1>1. TypeOK'
  BY DEF Basic, FinishWriteShort, Closed, Lapse, TypeOK
<1>2. Together'
  BY ZeroIsATask
      DEF Basic, FinishWriteShort, Closed, TypeOK, Together, InPart, Early, Late, Filing, Saving
<1>. QED
  BY <1>1, <1>2 DEF Basic

\* Every step of a program, its death and the user keep it.
LEMMA StepBasic == ASSUME Basic, [Next]_vars PROVE Basic'
<1>1. CASE Advance \/ GoOn \/ BeginWrite \/ Gather \/ Issue \/ OwnDone \/ Complete
  BY <1>1, AdvanceBasic, GoOnBasic, BeginWriteBasic, GatherBasic, IssueBasic, OwnDoneBasic,
     CompleteBasic
<1>2. CASE EndRead \/ EndWrite
  BY <1>2, EndReadBasic, EndWriteBasic
<1>3. ASSUME NEW t \in Task,
             Rename(t) \/ RenameFails(t) \/ Poll(t) \/ OpenWrite(t) \/ OpenRead(t)
               \/ FinishWrite(t) \/ FinishWriteShort(t) \/ FinishRead(t)
      PROVE  Basic'
  BY <1>3, RenameBasic, RenameFailsBasic, PollBasic, OpenWriteBasic, OpenReadBasic,
     FinishWriteBasic, FinishWriteShortBasic, FinishReadBasic
<1>4. CASE Crash
  BY <1>4, ExitsBasic DEF Crash
<1>5. CASE Resume \/ StartNew \/ Recover \/ Clean
  BY <1>5, ResumeBasic, StartNewBasic, RecoverBasic, CleanBasic
<1>6. CASE UNCHANGED vars
  BY <1>6 DEF vars, Basic, TypeOK, Together, InPart
<1>. QED
  BY <1>1, <1>2, <1>3, <1>4, <1>5, <1>6 DEF Next, Work

\* It always holds.
LEMMA BasicInvariance == Spec => []Basic
<1>1. Init => Basic
  BY InitInv DEF IInv, Basic
<1>2. Basic /\ [Next]_vars => Basic'
  BY StepBasic
<1>. QED
  BY <1>1, <1>2, PTL DEF Spec

\* Every variable has its type.
THEOREM TypeCorrect == Spec => []TypeOK
<1>1. Basic => TypeOK
  BY DEF Basic
<1>. QED
  BY <1>1, BasicInvariance, PTL

-----------------------------------------------------------------------------
(* What holds as long as nothing went wrong unnoticed.                     *)

\* What is in memory is lost; the files are in order whenever that happens.
LEMMA ExitsInv == ASSUME IInv, Exits PROVE IInv'
<1>1. TypeOK' /\ Together'
  BY ExitsBasic DEF IInv, Basic
<1>3. LatestKept'
  BY ZeroIsATask
      DEF IInv, Exits, Down, disk, LatestKept
<1>4. LatestWhole'
  BY ZeroIsATask
      DEF IInv, Exits, Down, disk, LatestWhole
<1>5. ReadWhole'
  BY ZeroIsATask
      DEF IInv, Exits, Down, disk, ReadWhole, TypeOK, Together, InPart, Late
<1>6. RunsFromLatest'
  BY ZeroIsATask
      DEF IInv, Exits, Down, disk, RunsFromLatest
<1>7. SameState'
  BY ZeroIsATask
      DEF IInv, Exits, Down, disk, SameState, SameTime
<1>8. BackupMoves'
  BY ZeroIsATask
      DEF IInv, Exits, Down, disk, BackupMoves
<1>9. NewSetGrows'
  BY ZeroIsATask
      DEF IInv, Exits, Down, disk, NewSetGrows
<1>. QED
  BY <1>1, <1>3, <1>4, <1>5, <1>6, <1>7, <1>8, <1>9 DEF IInv

\* A time step before the final time.
LEMMA AdvanceInv == ASSUME IInv, Advance, mem[0].time < MaxTime PROVE IInv'
<1>1. TypeOK' /\ Together'
  BY AdvanceBasic DEF IInv, Basic
<1>3. LatestKept'
  BY ZeroIsATask
      DEF IInv, Advance, Elapsed, Lapse, All, disk, schedule, LatestKept
<1>4. LatestWhole'
  BY ZeroIsATask
      DEF IInv, Advance, Elapsed, Lapse, All, disk, schedule, LatestWhole
<1>5. ReadWhole'
  BY ZeroIsATask
      DEF IInv, Advance, Elapsed, Lapse, All, disk, schedule, ReadWhole, TypeOK, Together, InPart, Late
<1>6. RunsFromLatest'
  BY ZeroIsATask
      DEF IInv, Advance, Elapsed, Lapse, All, disk, schedule, RunsFromLatest
<1>7. SameState'
  BY ZeroIsATask
      DEF IInv, Advance, Elapsed, Lapse, All, disk, schedule, SameState, SameTime, TypeOK, Together, InPart,
          Early, Late, Filing, Saving, File, State, NoFile
<1>8. BackupMoves'
  BY ZeroIsATask
      DEF IInv, Advance, Elapsed, Lapse, All, disk, schedule, BackupMoves
<1>9. NewSetGrows'
  BY ZeroIsATask
      DEF IInv, Advance, Elapsed, Lapse, All, disk, schedule, NewSetGrows, TypeOK, Together, InPart, NoFile,
          Late, Early, Filing
<1>. QED
  BY <1>1, <1>3, <1>4, <1>5, <1>6, <1>7, <1>8, <1>9 DEF IInv

\* A step without a set of files.
LEMMA GoOnInv == ASSUME IInv, GoOn PROVE IInv'
<1>1. TypeOK' /\ Together'
  BY GoOnBasic DEF IInv, Basic
<1>3. LatestKept'
  BY ZeroIsATask
      DEF IInv, GoOn, All, disk, schedule, LatestKept
<1>4. LatestWhole'
  BY ZeroIsATask
      DEF IInv, GoOn, All, disk, schedule, LatestWhole
<1>5. ReadWhole'
  BY ZeroIsATask
      DEF IInv, GoOn, All, disk, schedule, ReadWhole, TypeOK, Together, InPart, Late
<1>6. RunsFromLatest'
  BY ZeroIsATask
      DEF IInv, GoOn, All, disk, schedule, RunsFromLatest
<1>7. SameState'
  BY ZeroIsATask
      DEF IInv, GoOn, All, disk, schedule, SameState, SameTime
<1>8. BackupMoves'
  BY ZeroIsATask
      DEF IInv, GoOn, All, disk, schedule, BackupMoves
<1>9. NewSetGrows'
  BY ZeroIsATask
      DEF IInv, GoOn, All, disk, schedule, NewSetGrows, TypeOK, Together, InPart, NoFile,
          Late, Early, Filing
<1>. QED
  BY <1>1, <1>3, <1>4, <1>5, <1>6, <1>7, <1>8, <1>9 DEF IInv

\* The decision to write a set.
LEMMA BeginWriteInv == ASSUME IInv, BeginWrite PROVE IInv'
<1>1. TypeOK' /\ Together'
  BY BeginWriteBasic DEF IInv, Basic
<1>3. LatestKept'
  BY ZeroIsATask
      DEF IInv, BeginWrite, All, disk, schedule, LatestKept
<1>4. LatestWhole'
  BY ZeroIsATask
      DEF IInv, BeginWrite, All, disk, schedule, LatestWhole
<1>5. ReadWhole'
  BY ZeroIsATask
      DEF IInv, BeginWrite, All, disk, schedule, ReadWhole
<1>6. RunsFromLatest'
  BY ZeroIsATask
      DEF IInv, BeginWrite, All, disk, schedule, RunsFromLatest
<1>7. SameState'
  BY ZeroIsATask
      DEF IInv, BeginWrite, All, disk, schedule, SameState, SameTime
<1>8. BackupMoves'
  BY ZeroIsATask
      DEF IInv, BeginWrite, All, disk, schedule, BackupMoves, TypeOK, Together, InPart,
          Early, Late, Filing, Saving, RunsFromLatest
<1>9. NewSetGrows'
  BY ZeroIsATask
      DEF IInv, BeginWrite, All, disk, schedule, NewSetGrows, TypeOK, Together, InPart,
          NoFile, Late, Early, Filing
<1>. QED
  BY <1>1, <1>3, <1>4, <1>5, <1>6, <1>7, <1>8, <1>9 DEF IInv

\* One task's backup.
LEMMA RenameInv == ASSUME NEW t \in Task, IInv, Rename(t) PROVE IInv'
<1>1. TypeOK' /\ Together'
  BY RenameBasic DEF IInv, Basic
<1>3. LatestKept'
  BY ZeroIsATask
      DEF IInv, Rename, disk, schedule, LatestKept, TypeOK, Together, InPart, Early, Late,
          Filing, Saving, RunsFromLatest, BackupMoves, NewSetGrows, LatestWhole
<1>4. LatestWhole'
  BY ZeroIsATask
      DEF IInv, Rename, disk, schedule, LatestWhole, TypeOK, Together, InPart, NoFile
<1>5. ReadWhole'
  BY ZeroIsATask
      DEF IInv, Rename, disk, schedule, ReadWhole, TypeOK, Together, InPart, Late
<1>6. RunsFromLatest'
  BY ZeroIsATask
      DEF IInv, Rename, disk, schedule, RunsFromLatest, TypeOK, Together, InPart, NoFile
<1>7. SameState'
  BY ZeroIsATask
      DEF IInv, Rename, disk, schedule, SameState, SameTime
<1>8. BackupMoves'
  <2>1. CASE cur[t] = NoFile
    BY <2>1 DEF IInv, Rename, disk, TypeOK, BackupMoves
  <2>2. CASE cur[t] # NoFile
    <3>1. /\ bak' = [bak EXCEPT ![t] = cur[t]] /\ cur' = [cur EXCEPT ![t] = NoFile]
          /\ pc' = [pc EXCEPT ![t] = "renamed"] /\ pc[t] = "backup" /\ latest' = latest
      BY <2>2 DEF Rename
    <3>. QED
      BY <3>1 DEF IInv, TypeOK, BackupMoves
  <2>. QED
    BY <2>1, <2>2
<1>9. NewSetGrows'
  BY ZeroIsATask
      DEF IInv, Rename, disk, schedule, NewSetGrows, TypeOK, Together, InPart, NoFile, Late,
          Early, Filing
<1>. QED
  BY <1>1, <1>3, <1>4, <1>5, <1>6, <1>7, <1>8, <1>9 DEF IInv

\* The end of all backups.
LEMMA GatherInv == ASSUME IInv, Gather PROVE IInv'
<1>1. TypeOK' /\ Together'
  BY GatherBasic DEF IInv, Basic
<1>3. LatestKept'
  BY ConcurrentType, ZeroIsATask
      DEF IInv, Gather, Scheduling, All, disk, schedule, LatestKept
<1>4. LatestWhole'
  BY ConcurrentType, ZeroIsATask
      DEF IInv, Gather, Scheduling, All, disk, schedule, LatestWhole
<1>5. ReadWhole'
  BY ConcurrentType, ZeroIsATask
      DEF IInv, Gather, Scheduling, All, disk, schedule, ReadWhole, TypeOK, Together, InPart,
          Late
<1>6. RunsFromLatest'
  BY ConcurrentType, ZeroIsATask
      DEF IInv, Gather, Scheduling, All, disk, schedule, RunsFromLatest
<1>7. SameState'
  BY ConcurrentType, ZeroIsATask
      DEF IInv, Gather, Scheduling, All, disk, schedule, SameState, SameTime
<1>8. BackupMoves'
  BY ConcurrentType, ZeroIsATask
      DEF IInv, Gather, Scheduling, All, disk, schedule, BackupMoves
<1>9. NewSetGrows'
  BY ConcurrentType, ZeroIsATask
      DEF IInv, Gather, Scheduling, All, disk, schedule, NewSetGrows, TypeOK, Together,
          InPart, Early, Late, Filing, Saving, BackupMoves, SameState, LatestWhole
<1>. QED
  BY <1>1, <1>3, <1>4, <1>5, <1>6, <1>7, <1>8, <1>9 DEF IInv

\* Task 0 starts the first tasks and itself.
LEMMA IssueInv == ASSUME IInv, Issue PROVE IInv'
<1>1. TypeOK' /\ Together'
  BY IssueBasic DEF IInv, Basic
<1>3. LatestKept'
  BY ConcurrentType, ZeroIsATask
      DEF IInv, Issue, Signalled, disk, schedule, LatestKept
<1>4. LatestWhole'
  BY ConcurrentType, ZeroIsATask
      DEF IInv, Issue, Signalled, disk, schedule, LatestWhole
<1>5. ReadWhole'
  BY ConcurrentType, ZeroIsATask
      DEF IInv, Issue, Signalled, disk, schedule, ReadWhole, TypeOK, Together, InPart, Late
<1>6. RunsFromLatest'
  BY ConcurrentType, ZeroIsATask
      DEF IInv, Issue, Signalled, disk, schedule, RunsFromLatest, TypeOK
<1>7. SameState'
  BY ConcurrentType, ZeroIsATask
      DEF IInv, Issue, Signalled, disk, schedule, SameState, SameTime, TypeOK
<1>8. BackupMoves'
  BY ConcurrentType, ZeroIsATask
      DEF IInv, Issue, Signalled, disk, schedule, BackupMoves, TypeOK
<1>9. NewSetGrows'
  BY ConcurrentType, ZeroIsATask
      DEF IInv, Issue, Signalled, disk, schedule, NewSetGrows, TypeOK, Together, InPart,
          NoFile, Late, Early, Filing
<1>. QED
  BY <1>1, <1>3, <1>4, <1>5, <1>6, <1>7, <1>8, <1>9 DEF IInv

\* Task 0 behind its own file.
LEMMA OwnDoneInv == ASSUME IInv, OwnDone PROVE IInv'
<1>1. TypeOK' /\ Together'
  BY OwnDoneBasic DEF IInv, Basic
<1>3. LatestKept'
  BY ZeroIsATask
      DEF IInv, OwnDone, StartNext, Signalled, disk, schedule, LatestKept
<1>4. LatestWhole'
  BY ZeroIsATask
      DEF IInv, OwnDone, StartNext, Signalled, disk, schedule, LatestWhole
<1>5. ReadWhole'
  BY ZeroIsATask
      DEF IInv, OwnDone, StartNext, Signalled, disk, schedule, ReadWhole, TypeOK, Together,
          InPart, Late
<1>6. RunsFromLatest'
  BY ZeroIsATask
      DEF IInv, OwnDone, StartNext, Signalled, disk, schedule, RunsFromLatest, TypeOK
<1>7. SameState'
  BY ZeroIsATask
      DEF IInv, OwnDone, StartNext, Signalled, disk, schedule, SameState, SameTime, TypeOK
<1>8. BackupMoves'
  BY ZeroIsATask
      DEF IInv, OwnDone, StartNext, Signalled, disk, schedule, BackupMoves, TypeOK
<1>9. NewSetGrows'
  BY ZeroIsATask
      DEF IInv, OwnDone, StartNext, Signalled, disk, schedule, NewSetGrows, TypeOK, Together,
          InPart, NoFile, Late, Early, Filing
<1>. QED
  BY <1>1, <1>3, <1>4, <1>5, <1>6, <1>7, <1>8, <1>9 DEF IInv

\* Task 0 hears of a finished task.
LEMMA PollInv == ASSUME NEW t \in Task, IInv, Poll(t) PROVE IInv'
<1>1. TypeOK' /\ Together'
  BY PollBasic DEF IInv, Basic
<1>3. LatestKept'
  BY ZeroIsATask
      DEF IInv, Poll, disk, schedule, LatestKept
<1>4. LatestWhole'
  BY ZeroIsATask
      DEF IInv, Poll, disk, schedule, LatestWhole
<1>5. ReadWhole'
  BY ZeroIsATask
      DEF IInv, Poll, disk, schedule, ReadWhole, TypeOK, Together, InPart, Late
<1>6. RunsFromLatest'
  BY ZeroIsATask
      DEF IInv, Poll, disk, schedule, RunsFromLatest, TypeOK
<1>7. SameState'
  BY ZeroIsATask
      DEF IInv, Poll, disk, schedule, SameState, SameTime, TypeOK
<1>8. BackupMoves'
  BY ZeroIsATask
      DEF IInv, Poll, disk, schedule, BackupMoves, TypeOK
<1>9. NewSetGrows'
  BY ZeroIsATask
      DEF IInv, Poll, disk, schedule, NewSetGrows, TypeOK, Together, InPart, NoFile, Late,
          Early, Filing
<1>. QED
  BY <1>1, <1>3, <1>4, <1>5, <1>6, <1>7, <1>8, <1>9 DEF IInv

\* The end of the scheduler.
LEMMA CompleteInv == ASSUME IInv, Complete PROVE IInv'
<1>1. TypeOK' /\ Together'
  BY CompleteBasic DEF IInv, Basic
<1>3. LatestKept'
  BY ZeroIsATask
      DEF IInv, Complete, disk, schedule, LatestKept
<1>4. LatestWhole'
  BY ZeroIsATask
      DEF IInv, Complete, disk, schedule, LatestWhole
<1>5. ReadWhole'
  BY ZeroIsATask
      DEF IInv, Complete, disk, schedule, ReadWhole, TypeOK, Together, InPart, Late
<1>6. RunsFromLatest'
  BY ZeroIsATask
      DEF IInv, Complete, disk, schedule, RunsFromLatest
<1>7. SameState'
  BY ZeroIsATask
      DEF IInv, Complete, disk, schedule, SameState, SameTime
<1>8. BackupMoves'
  BY ZeroIsATask
      DEF IInv, Complete, disk, schedule, BackupMoves
<1>9. NewSetGrows'
  BY ZeroIsATask
      DEF IInv, Complete, disk, schedule, NewSetGrows, TypeOK, Together, InPart, NoFile,
          Late, Early, Filing
<1>. QED
  BY <1>1, <1>3, <1>4, <1>5, <1>6, <1>7, <1>8, <1>9 DEF IInv

\* A new, empty file.
LEMMA OpenWriteInv == ASSUME NEW t \in Task, IInv, OpenWrite(t) PROVE IInv'
<1>1. TypeOK' /\ Together'
  BY OpenWriteBasic DEF IInv, Basic
<1>3. LatestKept'
  BY ZeroIsATask
      DEF IInv, OpenWrite, Partial, disk, schedule, LatestKept, TypeOK, Together, InPart,
          Early, Late, Filing, Saving, RunsFromLatest, BackupMoves, NewSetGrows, LatestWhole
<1>4. LatestWhole'
  BY ZeroIsATask
      DEF IInv, OpenWrite, Partial, disk, schedule, LatestWhole
<1>5. ReadWhole'
  BY ZeroIsATask
      DEF IInv, OpenWrite, Partial, disk, schedule, ReadWhole
<1>6. RunsFromLatest'
  BY ZeroIsATask
      DEF IInv, OpenWrite, Partial, disk, schedule, RunsFromLatest, TypeOK, Together, InPart,
          NoFile
<1>7. SameState'
  BY ZeroIsATask
      DEF IInv, OpenWrite, Partial, disk, schedule, SameState, SameTime
<1>8. BackupMoves'
  BY ZeroIsATask
      DEF IInv, OpenWrite, Partial, disk, schedule, BackupMoves
<1>9. NewSetGrows'
  BY ZeroIsATask
      DEF IInv, OpenWrite, Partial, disk, schedule, NewSetGrows, TypeOK, Together, InPart,
          NoFile, Late, Early, Filing
<1>. QED
  BY <1>1, <1>3, <1>4, <1>5, <1>6, <1>7, <1>8, <1>9 DEF IInv

\* A file that is read, or missing.
LEMMA OpenReadInv == ASSUME NEW t \in Task, IInv, OpenRead(t) PROVE IInv'
<1>1. TypeOK' /\ Together'
  BY OpenReadBasic DEF IInv, Basic
<1>3. LatestKept'
  BY ExitsInv, ZeroIsATask
      DEF IInv, OpenRead, disk, schedule, LatestKept
<1>4. LatestWhole'
  BY ExitsInv, ZeroIsATask
      DEF IInv, OpenRead, disk, schedule, LatestWhole
<1>5. ReadWhole'
  BY ExitsInv, ZeroIsATask
      DEF IInv, OpenRead, disk, schedule, ReadWhole, TypeOK, Together, InPart, Late
<1>6. RunsFromLatest'
  BY ExitsInv, ZeroIsATask
      DEF IInv, OpenRead, disk, schedule, RunsFromLatest, TypeOK
<1>7. SameState'
  BY ExitsInv, ZeroIsATask
      DEF IInv, OpenRead, disk, schedule, SameState, SameTime, TypeOK
<1>8. BackupMoves'
  BY ExitsInv, ZeroIsATask
      DEF IInv, OpenRead, disk, schedule, BackupMoves, TypeOK
<1>9. NewSetGrows'
  BY ExitsInv, ZeroIsATask
      DEF IInv, OpenRead, disk, schedule, NewSetGrows
<1>. QED
  BY <1>1, <1>3, <1>4, <1>5, <1>6, <1>7, <1>8, <1>9 DEF IInv

\* The last block of a new file, which may complete the set.
LEMMA FinishWriteInv == ASSUME NEW t \in Task, IInv, FinishWrite(t) PROVE IInv'
<1>1. TypeOK' /\ Together'
  BY FinishWriteBasic DEF IInv, Basic
<1>3. /\ modus = "write" /\ pc[0] \in Filing /\ \A s \in Task : pc[s] \in Filing
      /\ pc[t] = "file" /\ cur[t] = Partial(mem[t])
  <2>1. modus = "write" /\ pc[t] = "file"
    BY DEF FinishWrite
  <2>2. pc[0] \in Filing
    BY <2>1, ZeroIsATask DEF IInv, Together, InPart, TypeOK, Filing, Saving, Early, Late
  <2>3. \A s \in Task : pc[s] \in Filing
    BY <2>2 DEF IInv, Together, InPart
  <2>. QED
    BY <2>1, <2>2, <2>3 DEF IInv, NewSetGrows
<1>4. /\ cur' = [cur EXCEPT ![t] = Whole(mem[t])] /\ UNCHANGED <<modus, mem, bak>>
      /\ pc' = [pc EXCEPT ![t] = IF t = 0 THEN "own" ELSE "notify"]
      /\ latest' = IF \A s \in Task : cur'[s] = Whole(mem[s]) THEN cur'[t] ELSE latest
  BY DEF FinishWrite, Closed
<1>5. \A s \in Task : mem[s] = mem[0]
  BY <1>3 DEF IInv, SameState
<1>6. latest # NoFile => \A s \in Task : bak[s] = latest
  BY <1>3 DEF IInv, NewSetGrows, LatestWhole, Partial
<1>7. \A s \in Task : cur'[s].whole => cur'[s] = Whole(mem[s])
  BY <1>3, <1>4 DEF IInv, NewSetGrows, TypeOK, Filing, NoFile, Partial
<1>8. LatestKept' /\ LatestWhole' /\ NewSetGrows'
  <2>1. CASE \A s \in Task : cur'[s] = Whole(mem[s])
    <3>1. latest' = Whole(mem[0]) /\ \A s \in Task : cur'[s] = latest'
      BY <1>4, <1>5, <2>1
    <3>2. \A s \in Task : pc'[s] \in Late
      <4>1. ASSUME NEW s \in Task, s # t PROVE pc[s] \in Late
        <5>1. cur[s] = Whole(mem[s])
          BY <4>1, <1>4, <2>1 DEF IInv, TypeOK
        <5>2. cur[s] # NoFile /\ cur[s] # Partial(mem[s])
          BY <5>1 DEF Whole, NoFile, Partial
        <5>. QED
          BY <5>2, <1>3 DEF IInv, NewSetGrows, Filing
      <4>. QED
        BY <4>1, <1>4 DEF IInv, TypeOK, Late
    <3>3. LatestKept' /\ LatestWhole'
      BY <3>1 DEF LatestKept, LatestWhole, Whole
    <3>4. NewSetGrows'
      BY <3>1, <3>2, <2>1, <1>4 DEF NewSetGrows, Early, Late
    <3>. QED
      BY <3>3, <3>4
  <2>2. CASE ~\A s \in Task : cur'[s] = Whole(mem[s])
    <3>1. latest' = latest
      BY <1>4, <2>2
    <3>2. \A s \in Task : latest' # NoFile => bak'[s] = latest'
      BY <3>1, <1>4, <1>6
    <3>3. LatestKept' /\ LatestWhole'
      BY <3>1, <3>2, <1>7, <2>2 DEF LatestKept, LatestWhole, IInv
    <3>4. NewSetGrows'
      BY <3>1, <3>2, <1>3, <1>4 DEF NewSetGrows, IInv, TypeOK, Early, Late, Filing
    <3>. QED
      BY <3>3, <3>4
  <2>. QED
    BY <2>1, <2>2
<1>9. ReadWhole' /\ RunsFromLatest' /\ SameState' /\ BackupMoves'
  BY <1>3, <1>4, ZeroIsATask
      DEF ReadWhole, RunsFromLatest, SameState, BackupMoves, IInv, TypeOK, Filing, Early, Late
<1>. QED
  BY <1>1, <1>8, <1>9 DEF IInv

\* A file is read, or is too short.
LEMMA FinishReadInv == ASSUME NEW t \in Task, IInv, FinishRead(t) PROVE IInv'
<1>1. TypeOK' /\ Together'
  BY FinishReadBasic DEF IInv, Basic
<1>3. LatestKept'
  BY ExitsInv, ZeroIsATask
      DEF IInv, FinishRead, Closed, disk, schedule, LatestKept
<1>4. LatestWhole'
  BY ExitsInv, ZeroIsATask
      DEF IInv, FinishRead, Closed, disk, schedule, LatestWhole
<1>5. ReadWhole'
  BY ExitsInv, ZeroIsATask
      DEF IInv, FinishRead, Closed, disk, schedule, ReadWhole, TypeOK
<1>6. RunsFromLatest'
  BY ExitsInv, ZeroIsATask
      DEF IInv, FinishRead, Closed, disk, schedule, RunsFromLatest, TypeOK
<1>7. SameState'
  BY ExitsInv, ZeroIsATask
      DEF IInv, FinishRead, Closed, disk, schedule, SameState, SameTime, TypeOK, Together,
          InPart
<1>8. BackupMoves'
  BY ExitsInv, ZeroIsATask
      DEF IInv, FinishRead, Closed, disk, schedule, BackupMoves, TypeOK
<1>9. NewSetGrows'
  BY ExitsInv, ZeroIsATask
      DEF IInv, FinishRead, Closed, disk, schedule, NewSetGrows
<1>. QED
  BY <1>1, <1>3, <1>4, <1>5, <1>6, <1>7, <1>8, <1>9 DEF IInv

\* The comparison of the times.
LEMMA EndReadInv == ASSUME IInv, EndRead PROVE IInv'
<1>1. TypeOK' /\ Together'
  BY EndReadBasic DEF IInv, Basic
<1>3. LatestKept'
  BY ExitsInv, ZeroIsATask
      DEF IInv, EndRead, All, disk, schedule, LatestKept
<1>4. LatestWhole'
  BY ExitsInv, ZeroIsATask
      DEF IInv, EndRead, All, disk, schedule, LatestWhole
<1>5. ReadWhole'
  BY ExitsInv, ZeroIsATask
      DEF IInv, EndRead, All, disk, schedule, ReadWhole, TypeOK, Together, InPart, Late
<1>6. RunsFromLatest'
  BY ExitsInv, ZeroIsATask
      DEF IInv, EndRead, All, disk, schedule, RunsFromLatest, TypeOK, Together, InPart,
          Early, Late, Filing, Saving, LatestKept, LatestWhole, ReadWhole, NewSetGrows
<1>7. SameState'
  BY ExitsInv, ZeroIsATask
      DEF IInv, EndRead, All, disk, schedule, SameState, SameTime
<1>8. BackupMoves'
  BY ExitsInv, ZeroIsATask
      DEF IInv, EndRead, All, disk, schedule, BackupMoves
<1>9. NewSetGrows'
  BY ExitsInv, ZeroIsATask
      DEF IInv, EndRead, All, disk, schedule, NewSetGrows
<1>. QED
  BY <1>1, <1>3, <1>4, <1>5, <1>6, <1>7, <1>8, <1>9 DEF IInv

\* The set is written.
LEMMA EndWriteInv == ASSUME IInv, EndWrite PROVE IInv'
<1>1. TypeOK' /\ Together'
  BY EndWriteBasic DEF IInv, Basic
<1>3. LatestKept'
  BY ExitsInv, ZeroIsATask
      DEF IInv, EndWrite, Whole, All, disk, schedule, LatestKept
<1>4. LatestWhole'
  BY ExitsInv, ZeroIsATask
      DEF IInv, EndWrite, Whole, All, disk, schedule, LatestWhole
<1>5. ReadWhole'
  BY ExitsInv, ZeroIsATask
      DEF IInv, EndWrite, Whole, All, disk, schedule, ReadWhole, TypeOK, Together, InPart,
          Late
<1>6. RunsFromLatest'
  BY ExitsInv, ZeroIsATask
      DEF IInv, EndWrite, Whole, All, disk, schedule, RunsFromLatest, TypeOK, Together,
          InPart, Early, Late, Filing, Saving, LatestKept, LatestWhole, ReadWhole,
          NewSetGrows
<1>7. SameState'
  BY ExitsInv, ZeroIsATask
      DEF IInv, EndWrite, Whole, All, disk, schedule, SameState, SameTime
<1>8. BackupMoves'
  BY ExitsInv, ZeroIsATask
      DEF IInv, EndWrite, Whole, All, disk, schedule, BackupMoves
<1>9. NewSetGrows'
  BY ExitsInv, ZeroIsATask
      DEF IInv, EndWrite, Whole, All, disk, schedule, NewSetGrows
<1>. QED
  BY <1>1, <1>3, <1>4, <1>5, <1>6, <1>7, <1>8, <1>9 DEF IInv

\* A start to resume.
LEMMA ResumeInv == ASSUME IInv, Resume PROVE IInv'
<1>1. TypeOK' /\ Together'
  BY ResumeBasic DEF IInv, Basic
<1>3. LatestKept'
  BY ConcurrentType, ZeroIsATask
      DEF IInv, Resume, Up, Scheduling, disk, schedule, LatestKept
<1>4. LatestWhole'
  BY ConcurrentType, ZeroIsATask
      DEF IInv, Resume, Up, Scheduling, disk, schedule, LatestWhole
<1>5. ReadWhole'
  BY ConcurrentType, ZeroIsATask
      DEF IInv, Resume, Up, Scheduling, disk, schedule, ReadWhole, TypeOK, Together, InPart,
          Late
<1>6. RunsFromLatest'
  BY ConcurrentType, ZeroIsATask
      DEF IInv, Resume, Up, Scheduling, disk, schedule, RunsFromLatest
<1>7. SameState'
  BY ConcurrentType, ZeroIsATask
      DEF IInv, Resume, Up, Scheduling, disk, schedule, SameState, SameTime
<1>8. BackupMoves'
  BY ConcurrentType, ZeroIsATask
      DEF IInv, Resume, Up, Scheduling, disk, schedule, BackupMoves
<1>9. NewSetGrows'
  BY ConcurrentType, ZeroIsATask
      DEF IInv, Resume, Up, Scheduling, disk, schedule, NewSetGrows, TypeOK, Together,
          InPart, NoFile, Late, Early, Filing
<1>. QED
  BY <1>1, <1>3, <1>4, <1>5, <1>6, <1>7, <1>8, <1>9 DEF IInv

\* A start in an empty directory.
LEMMA StartNewInv ==
  ASSUME IInv, StartNew, \A t \in Task : cur[t] = NoFile /\ bak[t] = NoFile
  PROVE  IInv'
<1>1. TypeOK' /\ Together'
  BY StartNewBasic DEF IInv, Basic
<1>3. LatestKept'
  BY ZeroIsATask
      DEF IInv, StartNew, Lapse, Up, disk, schedule, LatestKept
<1>4. LatestWhole'
  BY ZeroIsATask
      DEF IInv, StartNew, Lapse, Up, disk, schedule, LatestWhole
<1>5. ReadWhole'
  BY ZeroIsATask
      DEF IInv, StartNew, Lapse, Up, disk, schedule, ReadWhole, TypeOK, Together, InPart, Late
<1>6. RunsFromLatest'
  BY ZeroIsATask
      DEF IInv, StartNew, Lapse, Up, disk, schedule, RunsFromLatest, TypeOK, Together, InPart,
          Early, Late, Filing, Saving, LatestKept, LatestWhole, ReadWhole, NewSetGrows
<1>7. SameState'
  BY ZeroIsATask
      DEF IInv, StartNew, Lapse, Up, disk, schedule, SameState, SameTime
<1>8. BackupMoves'
  BY ZeroIsATask
      DEF IInv, StartNew, Lapse, Up, disk, schedule, BackupMoves
<1>9. NewSetGrows'
  BY ZeroIsATask
      DEF IInv, StartNew, Lapse, Up, disk, schedule, NewSetGrows, TypeOK, Together, InPart, NoFile,
          Late, Early, Filing
<1>. QED
  BY <1>1, <1>3, <1>4, <1>5, <1>6, <1>7, <1>8, <1>9 DEF IInv

\* The user renames the backups.
LEMMA RecoverInv == ASSUME IInv, Recover PROVE IInv'
<1>1. TypeOK' /\ Together'
  BY RecoverBasic DEF IInv, Basic
<1>3. LatestKept'
  BY ZeroIsATask
      DEF IInv, Recover, Up, Renamed, OneRun, disk, schedule, LatestKept
<1>4. LatestWhole'
  BY ZeroIsATask
      DEF IInv, Recover, Up, Renamed, OneRun, disk, schedule, LatestWhole
<1>5. ReadWhole'
  BY ZeroIsATask
      DEF IInv, Recover, Up, Renamed, OneRun, disk, schedule, ReadWhole, TypeOK, Together,
          InPart, Late
<1>6. RunsFromLatest'
  BY ZeroIsATask
      DEF IInv, Recover, Up, Renamed, OneRun, disk, schedule, RunsFromLatest
<1>7. SameState'
  BY ZeroIsATask
      DEF IInv, Recover, Up, Renamed, OneRun, disk, schedule, SameState, SameTime
<1>8. BackupMoves'
  BY ZeroIsATask
      DEF IInv, Recover, Up, Renamed, OneRun, disk, schedule, BackupMoves, TypeOK, Together,
          InPart, NoFile, Saving
<1>9. NewSetGrows'
  BY ZeroIsATask
      DEF IInv, Recover, Up, Renamed, OneRun, disk, schedule, NewSetGrows, TypeOK, Together,
          InPart, NoFile, Late, Early, Filing
<1>. QED
  BY <1>1, <1>3, <1>4, <1>5, <1>6, <1>7, <1>8, <1>9 DEF IInv

\* The user removes the files.
LEMMA CleanInv == ASSUME IInv, Clean PROVE IInv'
<1>1. TypeOK' /\ Together'
  BY CleanBasic DEF IInv, Basic
<1>3. LatestKept'
  BY ZeroIsATask
      DEF IInv, Clean, Up, disk, schedule, LatestKept
<1>4. LatestWhole'
  BY ZeroIsATask
      DEF IInv, Clean, Up, disk, schedule, LatestWhole
<1>5. ReadWhole'
  BY ZeroIsATask
      DEF IInv, Clean, Up, disk, schedule, ReadWhole, TypeOK, Together, InPart, Late
<1>6. RunsFromLatest'
  BY ZeroIsATask
      DEF IInv, Clean, Up, disk, schedule, RunsFromLatest
<1>7. SameState'
  BY ZeroIsATask
      DEF IInv, Clean, Up, disk, schedule, SameState, SameTime
<1>8. BackupMoves'
  BY ZeroIsATask
      DEF IInv, Clean, Up, disk, schedule, BackupMoves
<1>9. NewSetGrows'
  BY ZeroIsATask
      DEF IInv, Clean, Up, disk, schedule, NewSetGrows, TypeOK, Together, InPart, NoFile,
          Late, Early, Filing
<1>. QED
  BY <1>1, <1>3, <1>4, <1>5, <1>6, <1>7, <1>8, <1>9 DEF IInv

-----------------------------------------------------------------------------
(* The second invariant: a time stands for one run.                        *)

\* Two whole files of one time are of one run.
Agree(f, g) == f.whole /\ g.whole /\ f.time = g.time => f.by = g.by

\* The files on the disk agree, and no backup is newer than a file.
FilesAgree ==
  \A s, t \in Task :
    /\ Agree(cur[s], cur[t]) /\ Agree(bak[s], bak[t]) /\ Agree(cur[s], bak[t])
    /\ bak[t] = NoFile \/ bak[t].whole
    /\ cur[s].whole => bak[t].time <= cur[s].time

\* A task that has read its file has the state it holds.
ReadState ==
  modus = "read" => \A t \in Task : pc[t] \in Late =>
                      mem[t] = [time |-> cur[t].time, by |-> cur[t].by]

\* A program that works is not behind its files, and ahead of them when it
\* writes; the files it has are of one time.
Ahead ==
  /\ pc[0] \in {"run", "check"} \cup Saving =>
       \A s, t \in Task :
         /\ cur[t].time <= mem[0].time /\ bak[t].time <= mem[0].time
         /\ pc[0] # "run" => cur[t].time < mem[0].time /\ bak[t].time < mem[0].time
         /\ cur[t] = NoFile \/ cur[t].whole
         /\ cur[s] # NoFile /\ cur[t] # NoFile => cur[s].time = cur[t].time
  /\ modus = "write" /\ pc[0] \in Filing => \A t \in Task : bak[t].time < mem[t].time

\* A program that does not read or write has one state.
OneState == pc[0] \in {"down", "run"} => \A t \in Task : mem[t] = mem[0]

TInv == FilesAgree /\ ReadState /\ Ahead /\ OneState

\* It holds when nothing was ever started: the files agree.
LEMMA InitTime == ASSUME Init PROVE TInv
  BY ZeroIsATask
      DEF Init, TInv, FilesAgree, ReadState, Ahead, OneState, Agree, NoFile, Late, Saving,
          Filing, Early

\* What is in memory is lost; the files are in order whenever that happens: the files agree.
LEMMA ExitsTime == ASSUME IInv, TInv, Exits PROVE TInv'
<1>1. FilesAgree'
  BY ZeroIsATask
      DEF TInv, Exits, Down, disk, schedule, FilesAgree, Agree
<1>2. ReadState'
  BY ZeroIsATask
      DEF TInv, Exits, Down, disk, schedule, ReadState, IInv, TypeOK, Together, InPart,
          Saving, Late, Agree
<1>3. Ahead'
  BY ZeroIsATask
      DEF TInv, Exits, Down, disk, schedule, Ahead, IInv, TypeOK, Together, InPart, Saving,
          Late, Agree
<1>4. OneState'
  BY ZeroIsATask
      DEF TInv, Exits, Down, disk, schedule, OneState
<1>. QED
  BY <1>1, <1>2, <1>3, <1>4 DEF TInv

\* A time step before the final time: the files agree.
LEMMA AdvanceTime == ASSUME IInv, TInv, Advance, mem[0].time < MaxTime PROVE TInv'
<1>1. FilesAgree'
  BY ZeroIsATask
      DEF TInv, Advance, Elapsed, Lapse, All, disk, schedule, FilesAgree, Agree
<1>2. ReadState'
  BY ZeroIsATask
      DEF TInv, Advance, Elapsed, Lapse, All, disk, schedule, ReadState, IInv, TypeOK, Together, InPart,
          Saving, Late, Agree
<1>3. Ahead'
  BY ZeroIsATask
      DEF TInv, Advance, Elapsed, Lapse, All, disk, schedule, Ahead, IInv, TypeOK, Together, InPart, Saving,
          Early, Late, Filing, NoFile, File, State, Agree, SameState, SameTime, ReadWhole,
          BackupMoves, NewSetGrows, FilesAgree, ReadState, OneState
<1>4. OneState'
  BY ZeroIsATask
      DEF TInv, Advance, Elapsed, Lapse, All, disk, schedule, OneState
<1>. QED
  BY <1>1, <1>2, <1>3, <1>4 DEF TInv

\* A step without a set of files: the files agree.
LEMMA GoOnTime == ASSUME IInv, TInv, GoOn PROVE TInv'
<1>1. FilesAgree'
  BY ZeroIsATask
      DEF TInv, GoOn, All, disk, schedule, FilesAgree, Agree
<1>2. ReadState'
  BY ZeroIsATask
      DEF TInv, GoOn, All, disk, schedule, ReadState, IInv, TypeOK, Together, InPart, Saving,
          Late, Agree
<1>3. Ahead'
  BY ZeroIsATask
      DEF TInv, GoOn, All, disk, schedule, Ahead, IInv, TypeOK, Together, InPart, Saving,
          Late, Agree
<1>4. OneState'
  BY ZeroIsATask
      DEF TInv, GoOn, All, disk, schedule, OneState, IInv, TypeOK, Together, InPart, Saving,
          Early, Late, Filing, NoFile, SameState, SameTime
<1>. QED
  BY <1>1, <1>2, <1>3, <1>4 DEF TInv

\* The decision to write a set: the files agree.
LEMMA BeginWriteTime == ASSUME IInv, TInv, BeginWrite PROVE TInv'
<1>1. FilesAgree'
  BY ZeroIsATask
      DEF TInv, BeginWrite, All, disk, schedule, FilesAgree, Agree
<1>2. ReadState'
  BY ZeroIsATask
      DEF TInv, BeginWrite, All, disk, schedule, ReadState
<1>3. Ahead'
  BY ZeroIsATask
      DEF TInv, BeginWrite, All, disk, schedule, Ahead, IInv, TypeOK, Together, InPart,
          Saving, Early, Late, Filing, NoFile, SameState, SameTime
<1>4. OneState'
  BY ZeroIsATask
      DEF TInv, BeginWrite, All, disk, schedule, OneState
<1>. QED
  BY <1>1, <1>2, <1>3, <1>4 DEF TInv

\* One task's backup: the files agree.
LEMMA RenameTime == ASSUME NEW t \in Task, IInv, TInv, Rename(t) PROVE TInv'
<1>1. FilesAgree'
  <2>1. CASE cur[t] = NoFile
    BY <2>1 DEF TInv, Rename, FilesAgree
  <2>2. CASE cur[t] # NoFile
    <3>1. cur' = [cur EXCEPT ![t] = NoFile] /\ bak' = [bak EXCEPT ![t] = cur[t]]
      BY <2>2 DEF Rename
    <3>2. pc[0] \in Saving
      BY ZeroIsATask
      DEF Rename, IInv, TypeOK, Together, InPart, Saving, Filing, Early, Late
    <3>3. cur[t].whole /\ \A s \in Task : cur[s] # NoFile => cur[s].time = cur[t].time
      BY <2>2, <3>2 DEF TInv, Ahead
    <3>4. ASSUME NEW s \in Task
          PROVE  /\ s # t => cur'[s] = cur[s] /\ bak'[s] = bak[s]
                 /\ cur'[t] = NoFile /\ bak'[t] = cur[t] /\ ~NoFile.whole
      BY <3>1 DEF IInv, TypeOK, NoFile
    <3>5. ASSUME NEW s \in Task, NEW u \in Task
          PROVE  /\ Agree(cur'[s], cur'[u]) /\ Agree(bak'[s], bak'[u])
                 /\ Agree(cur'[s], bak'[u])
                 /\ bak'[u] = NoFile \/ bak'[u].whole
      BY <3>3, <3>4 DEF TInv, FilesAgree, Agree
    <3>6. ASSUME NEW s \in Task, NEW u \in Task, cur'[s].whole
          PROVE  bak'[u].time <= cur'[s].time
      <4>1. s # t /\ cur[s].whole /\ cur[s] # NoFile /\ cur[s] \in File
        BY <3>4, <3>6 DEF IInv, TypeOK
      <4>. QED
        BY <4>1, <3>3, <3>4 DEF TInv, FilesAgree, File
    <3>. QED
      BY <3>5, <3>6 DEF FilesAgree
  <2>. QED
    BY <2>1, <2>2
<1>2. ReadState'
  BY ZeroIsATask
      DEF TInv, Rename, disk, schedule, ReadState, IInv, TypeOK, Together, InPart, Saving,
          Late, Agree
<1>3. Ahead'
  <2>1. /\ pc[0] \in Saving /\ pc'[0] \in Saving /\ pc[0] # "run" /\ pc'[0] \notin Filing
        /\ mem' = mem
    BY ZeroIsATask
      DEF Rename, IInv, TypeOK, Together, InPart, Saving, Filing, Early, Late
  <2>2. ASSUME NEW s \in Task
        PROVE  /\ cur'[s] \in {cur[s], NoFile} /\ bak'[s] \in {bak[s], cur[s]}
    BY DEF Rename, IInv, TypeOK
  <2>3. mem[0].time > 0 /\ NoFile.time = 0
    <3>1. modus = "write"
      BY <2>1 DEF IInv, Together
    <3>. QED
      BY <3>1, ZeroIsATask DEF IInv, SameState, NoFile
  <2>4. ASSUME NEW s \in Task, NEW u \in Task
        PROVE  /\ cur[u].time < mem[0].time /\ bak[u].time < mem[0].time
               /\ cur[u].time \in Nat /\ bak[u].time \in Nat /\ mem[0].time \in Nat
               /\ cur[u] = NoFile \/ cur[u].whole
               /\ cur[s] # NoFile /\ cur[u] # NoFile => cur[s].time = cur[u].time
    BY <2>1, ZeroIsATask DEF TInv, Ahead, IInv, TypeOK, File, State
  <2>5. ASSUME NEW s \in Task, NEW u \in Task
        PROVE  /\ cur'[u].time < mem[0].time /\ bak'[u].time < mem[0].time
               /\ cur'[u].time <= mem[0].time /\ bak'[u].time <= mem[0].time
               /\ cur'[u] = NoFile \/ cur'[u].whole
               /\ cur'[s] # NoFile /\ cur'[u] # NoFile => cur'[s].time = cur'[u].time
    BY <2>2, <2>3, <2>4
  <2>. QED
    BY <2>1, <2>5 DEF Ahead
<1>4. OneState'
  BY ZeroIsATask
      DEF TInv, Rename, disk, schedule, OneState
<1>. QED
  BY <1>1, <1>2, <1>3, <1>4 DEF TInv

\* The end of all backups: the files agree.
LEMMA GatherTime == ASSUME IInv, TInv, Gather PROVE TInv'
<1>1. FilesAgree'
  BY ZeroIsATask
      DEF TInv, Gather, Scheduling, All, disk, schedule, FilesAgree, Agree
<1>2. ReadState'
  BY ZeroIsATask
      DEF TInv, Gather, Scheduling, All, disk, schedule, ReadState, IInv, TypeOK, Together,
          InPart, Saving, Late, Agree
<1>3. Ahead'
  BY ZeroIsATask
      DEF TInv, Gather, Scheduling, All, disk, schedule, Ahead, IInv, TypeOK, Together,
          InPart, Saving, Early, Late, Filing, NoFile, SameState, SameTime
<1>4. OneState'
  BY ZeroIsATask
      DEF TInv, Gather, Scheduling, All, disk, schedule, OneState
<1>. QED
  BY <1>1, <1>2, <1>3, <1>4 DEF TInv

\* Task 0 starts the first tasks and itself: the files agree.
LEMMA IssueTime == ASSUME IInv, TInv, Issue PROVE TInv'
<1>1. FilesAgree'
  BY ZeroIsATask
      DEF TInv, Issue, Signalled, disk, schedule, FilesAgree, Agree
<1>2. ReadState'
  BY ZeroIsATask
      DEF TInv, Issue, Signalled, disk, schedule, ReadState, IInv, TypeOK, Together, InPart,
          Saving, Late, Agree
<1>3. Ahead'
  BY ZeroIsATask
      DEF TInv, Issue, Signalled, disk, schedule, Ahead, IInv, TypeOK, Together, InPart,
          Saving, Early, Late, Filing, NoFile, SameState, SameTime
<1>4. OneState'
  BY ZeroIsATask
      DEF TInv, Issue, Signalled, disk, schedule, OneState, IInv, TypeOK
<1>. QED
  BY <1>1, <1>2, <1>3, <1>4 DEF TInv

\* Task 0 behind its own file: the files agree.
LEMMA OwnDoneTime == ASSUME IInv, TInv, OwnDone PROVE TInv'
<1>1. FilesAgree'
  BY ZeroIsATask
      DEF TInv, OwnDone, StartNext, Signalled, disk, schedule, FilesAgree, Agree
<1>2. ReadState'
  BY ZeroIsATask
      DEF TInv, OwnDone, StartNext, Signalled, disk, schedule, ReadState, IInv, TypeOK,
          Together, InPart, Saving, Late, Agree
<1>3. Ahead'
  BY ZeroIsATask
      DEF TInv, OwnDone, StartNext, Signalled, disk, schedule, Ahead, IInv, TypeOK, Together,
          InPart, Saving, Early, Late, Filing, NoFile, SameState, SameTime
<1>4. OneState'
  BY ZeroIsATask
      DEF TInv, OwnDone, StartNext, Signalled, disk, schedule, OneState, IInv, TypeOK
<1>. QED
  BY <1>1, <1>2, <1>3, <1>4 DEF TInv

\* Task 0 hears of a finished task: the files agree.
LEMMA PollTime == ASSUME NEW t \in Task, IInv, TInv, Poll(t) PROVE TInv'
<1>1. FilesAgree'
  BY ZeroIsATask
      DEF TInv, Poll, disk, schedule, FilesAgree, Agree
<1>2. ReadState'
  BY ZeroIsATask
      DEF TInv, Poll, disk, schedule, ReadState, IInv, TypeOK, Together, InPart, Saving,
          Late, Agree
<1>3. Ahead'
  BY ZeroIsATask
      DEF TInv, Poll, disk, schedule, Ahead, IInv, TypeOK
<1>4. OneState'
  BY ZeroIsATask
      DEF TInv, Poll, disk, schedule, OneState, IInv, TypeOK
<1>. QED
  BY <1>1, <1>2, <1>3, <1>4 DEF TInv

\* The end of the scheduler: the files agree.
LEMMA CompleteTime == ASSUME IInv, TInv, Complete PROVE TInv'
<1>1. FilesAgree'
  BY ZeroIsATask
      DEF TInv, Complete, disk, schedule, FilesAgree, Agree
<1>2. ReadState'
  BY ZeroIsATask
      DEF TInv, Complete, disk, schedule, ReadState, IInv, TypeOK, Together, InPart, Saving,
          Late, Agree
<1>3. Ahead'
  BY ZeroIsATask
      DEF TInv, Complete, disk, schedule, Ahead, IInv, TypeOK, Together, InPart, Saving,
          Early, Late, Filing, NoFile, SameState, SameTime
<1>4. OneState'
  BY ZeroIsATask
      DEF TInv, Complete, disk, schedule, OneState
<1>. QED
  BY <1>1, <1>2, <1>3, <1>4 DEF TInv

\* A new, empty file: the files agree.
LEMMA OpenWriteTime == ASSUME NEW t \in Task, IInv, TInv, OpenWrite(t) PROVE TInv'
<1>1. FilesAgree'
  BY ZeroIsATask
      DEF TInv, OpenWrite, Partial, disk, schedule, FilesAgree, Agree
<1>2. ReadState'
  BY ZeroIsATask
      DEF TInv, OpenWrite, Partial, disk, schedule, ReadState
<1>3. Ahead'
  BY ZeroIsATask
      DEF TInv, OpenWrite, Partial, disk, schedule, Ahead, IInv, TypeOK, Together, InPart,
          Saving, Early, Late, Filing, NoFile, SameState, SameTime
<1>4. OneState'
  BY ZeroIsATask
      DEF TInv, OpenWrite, Partial, disk, schedule, OneState
<1>. QED
  BY <1>1, <1>2, <1>3, <1>4 DEF TInv

\* A file that is read, or missing: the files agree.
LEMMA OpenReadTime == ASSUME NEW t \in Task, IInv, TInv, OpenRead(t) PROVE TInv'
<1>1. FilesAgree'
  BY ExitsTime, ZeroIsATask
      DEF TInv, OpenRead, disk, schedule, FilesAgree, Agree
<1>2. ReadState'
  BY ExitsTime, ZeroIsATask
      DEF TInv, OpenRead, disk, schedule, ReadState, IInv, TypeOK, Together, InPart, Saving,
          Late, Agree
<1>3. Ahead'
  BY ExitsTime, ZeroIsATask
      DEF TInv, OpenRead, disk, schedule, Ahead, IInv, TypeOK, Together, InPart, Saving,
          Late, Agree
<1>4. OneState'
  BY ExitsTime, ZeroIsATask
      DEF TInv, OpenRead, disk, schedule, OneState, IInv, TypeOK
<1>. QED
  BY <1>1, <1>2, <1>3, <1>4 DEF TInv

\* The last block of a new file, which may complete the set: the files agree.
LEMMA FinishWriteTime == ASSUME NEW t \in Task, IInv, TInv, FinishWrite(t) PROVE TInv'
<1>1. FilesAgree'
  <2>1. /\ cur' = [cur EXCEPT ![t] = Whole(mem[t])] /\ bak' = bak
        /\ modus = "write" /\ pc[t] = "file"
    BY DEF FinishWrite
  <2>2. pc[0] \in Filing /\ \A s \in Task : pc[s] \in Filing
    BY <2>1, ZeroIsATask
      DEF IInv, TypeOK, Together, InPart, Saving, Filing, Early, Late
  <2>3. ASSUME NEW s \in Task, cur'[s].whole PROVE cur'[s] = Whole(mem[0])
    <3>1. mem[s] = mem[0] /\ mem[t] = mem[0]
      BY <2>1 DEF IInv, SameState
    <3>2. CASE s = t
      BY <3>1, <3>2, <2>1 DEF IInv, TypeOK
    <3>3. CASE s # t
      <4>1. cur'[s] = cur[s] /\ cur[s].whole
        BY <2>1, <2>3, <3>3 DEF IInv, TypeOK
      <4>2. cur[s] # NoFile /\ cur[s] # Partial(mem[s])
        BY <4>1 DEF NoFile, Partial
      <4>3. cur[s] = Whole(mem[s])
        BY <4>2, <2>1, <2>2 DEF IInv, NewSetGrows, Filing
      <4>. QED
        BY <4>1, <4>3, <3>1
    <3>. QED
      BY <3>2, <3>3
  <2>4. ASSUME NEW u \in Task
        PROVE  /\ bak[u].time < mem[0].time /\ bak[u].time \in Nat /\ mem[0].time \in Nat
    <3>1. mem[u] = mem[0]
      BY <2>1 DEF IInv, SameState
    <3>. QED
      BY <3>1, <2>1, <2>2, ZeroIsATask DEF TInv, Ahead, IInv, TypeOK, File, State
  <2>5. Whole(mem[0]).time = mem[0].time
    BY DEF Whole
  <2>6. ASSUME NEW s \in Task, NEW u \in Task
        PROVE  /\ Agree(cur'[s], cur'[u]) /\ Agree(cur'[s], bak'[u])
               /\ cur'[s].whole => bak'[u].time <= cur'[s].time
    BY <2>1, <2>3, <2>4, <2>5 DEF Agree
  <2>. QED
    BY <2>1, <2>6 DEF TInv, FilesAgree
<1>2. ReadState'
  BY ZeroIsATask
      DEF TInv, FinishWrite, Closed, Whole, disk, schedule, ReadState
<1>3. Ahead'
  BY ZeroIsATask
      DEF TInv, FinishWrite, Closed, Whole, disk, schedule, Ahead, IInv, TypeOK, Together,
          InPart, Saving, Early, Late, Filing, NoFile, SameState, SameTime
<1>4. OneState'
  BY ZeroIsATask
      DEF TInv, FinishWrite, Closed, Whole, disk, schedule, OneState
<1>. QED
  BY <1>1, <1>2, <1>3, <1>4 DEF TInv

\* A file is read, or is too short: the files agree.
LEMMA FinishReadTime == ASSUME NEW t \in Task, IInv, TInv, FinishRead(t) PROVE TInv'
<1>1. FilesAgree'
  BY ExitsTime, ZeroIsATask
      DEF TInv, FinishRead, Closed, disk, schedule, FilesAgree, Agree
<1>2. ReadState'
  BY ExitsTime, ZeroIsATask
      DEF TInv, FinishRead, Closed, disk, schedule, ReadState, IInv, TypeOK, Together,
          InPart, Saving, Late, Agree
<1>3. Ahead'
  BY ExitsTime, ZeroIsATask
      DEF TInv, FinishRead, Closed, disk, schedule, Ahead, IInv, TypeOK, Together, InPart,
          Saving, Late, Agree
<1>4. OneState'
  BY ExitsTime, ZeroIsATask
      DEF TInv, FinishRead, Closed, disk, schedule, OneState, IInv, TypeOK, Together, InPart,
          Saving, Late, Agree
<1>. QED
  BY <1>1, <1>2, <1>3, <1>4 DEF TInv

\* The comparison of the times: the files agree.
LEMMA EndReadTime == ASSUME IInv, TInv, EndRead PROVE TInv'
<1>1. FilesAgree'
  BY ExitsTime, ZeroIsATask
      DEF TInv, EndRead, All, disk, schedule, FilesAgree, Agree
<1>2. ReadState'
  BY ExitsTime, ZeroIsATask
      DEF TInv, EndRead, All, disk, schedule, ReadState, IInv, TypeOK, Together, InPart,
          Saving, Late, Agree
<1>3. Ahead'
  BY ExitsTime, ZeroIsATask
      DEF TInv, EndRead, All, disk, schedule, Ahead, IInv, TypeOK, Together, InPart, Saving,
          Early, Late, Filing, NoFile, File, State, Agree, SameState, SameTime, ReadWhole,
          BackupMoves, NewSetGrows, FilesAgree, ReadState, OneState
<1>4. OneState'
  BY ExitsTime, ZeroIsATask
      DEF TInv, EndRead, All, disk, schedule, OneState, IInv, TypeOK, Together, InPart,
          Saving, Early, Late, Filing, NoFile, File, State, Agree, SameState, SameTime,
          ReadWhole, BackupMoves, NewSetGrows, FilesAgree, ReadState, Ahead
<1>. QED
  BY <1>1, <1>2, <1>3, <1>4 DEF TInv

\* The set is written: the files agree.
LEMMA EndWriteTime == ASSUME IInv, TInv, EndWrite PROVE TInv'
<1>1. FilesAgree'
  BY ExitsTime, ZeroIsATask
      DEF TInv, EndWrite, All, Whole, disk, schedule, FilesAgree, Agree
<1>2. ReadState'
  BY ExitsTime, ZeroIsATask
      DEF TInv, EndWrite, All, Whole, disk, schedule, ReadState, IInv, TypeOK, Together,
          InPart, Saving, Late, Agree
<1>3. Ahead'
  BY ExitsTime, ZeroIsATask
      DEF TInv, EndWrite, All, Whole, disk, schedule, Ahead, IInv, TypeOK, Together, InPart,
          Saving, Early, Late, Filing, NoFile, File, State, Agree, SameState, SameTime,
          ReadWhole, BackupMoves, NewSetGrows, FilesAgree, ReadState, OneState
<1>4. OneState'
  BY ExitsTime, ZeroIsATask
      DEF TInv, EndWrite, All, Whole, disk, schedule, OneState, IInv, TypeOK, Together,
          InPart, Saving, Early, Late, Filing, NoFile, SameState, SameTime
<1>. QED
  BY <1>1, <1>2, <1>3, <1>4 DEF TInv

\* A start to resume: the files agree.
LEMMA ResumeTime == ASSUME IInv, TInv, Resume PROVE TInv'
<1>1. FilesAgree'
  BY ZeroIsATask
      DEF TInv, Resume, Up, Scheduling, disk, schedule, FilesAgree, Agree
<1>2. ReadState'
  BY ZeroIsATask
      DEF TInv, Resume, Up, Scheduling, disk, schedule, ReadState, IInv, TypeOK, Together,
          InPart, Saving, Late, Agree
<1>3. Ahead'
  BY ZeroIsATask
      DEF TInv, Resume, Up, Scheduling, disk, schedule, Ahead, IInv, TypeOK, Together,
          InPart, Saving, Late, Agree
<1>4. OneState'
  BY ZeroIsATask
      DEF TInv, Resume, Up, Scheduling, disk, schedule, OneState
<1>. QED
  BY <1>1, <1>2, <1>3, <1>4 DEF TInv

\* A start in an empty directory: the files agree.
LEMMA StartNewTime ==
  ASSUME IInv, TInv, StartNew, \A t \in Task : cur[t] = NoFile /\ bak[t] = NoFile
  PROVE  TInv'
<1>1. FilesAgree'
  BY ZeroIsATask
      DEF TInv, StartNew, Lapse, Up, disk, schedule, FilesAgree, Agree
<1>2. ReadState'
  BY ZeroIsATask
      DEF TInv, StartNew, Lapse, Up, disk, schedule, ReadState, IInv, TypeOK, Together, InPart,
          Saving, Late, Agree
<1>3. Ahead'
  BY ZeroIsATask
      DEF TInv, StartNew, Lapse, Up, disk, schedule, Ahead, IInv, TypeOK, Together, InPart, Saving,
          Early, Late, Filing, NoFile, File, State, Agree, SameState, SameTime, ReadWhole,
          BackupMoves, NewSetGrows, FilesAgree, ReadState, OneState
<1>4. OneState'
  BY ZeroIsATask
      DEF TInv, StartNew, Lapse, Up, disk, schedule, OneState
<1>. QED
  BY <1>1, <1>2, <1>3, <1>4 DEF TInv

\* The user renames the backups: the files agree.
LEMMA RecoverTime == ASSUME IInv, TInv, Recover PROVE TInv'
<1>1. FilesAgree'
  BY ZeroIsATask
      DEF TInv, Recover, Up, Renamed, disk, schedule, FilesAgree, Agree, IInv, TypeOK,
          Together, InPart, Saving, Early, Late, Filing, NoFile, File, State, SameState,
          SameTime, ReadWhole, BackupMoves, NewSetGrows, ReadState, Ahead, OneState
<1>2. ReadState'
  BY ZeroIsATask
      DEF TInv, Recover, Up, Renamed, disk, schedule, ReadState, IInv, TypeOK, Together,
          InPart, Saving, Late, Agree
<1>3. Ahead'
  BY ZeroIsATask
      DEF TInv, Recover, Up, Renamed, disk, schedule, Ahead, IInv, TypeOK, Together, InPart,
          Saving, Late, Agree
<1>4. OneState'
  BY ZeroIsATask
      DEF TInv, Recover, Up, Renamed, disk, schedule, OneState
<1>. QED
  BY <1>1, <1>2, <1>3, <1>4 DEF TInv

\* The user removes the files: the files agree.
LEMMA CleanTime == ASSUME IInv, TInv, Clean PROVE TInv'
<1>1. FilesAgree'
  BY ZeroIsATask
      DEF TInv, Clean, Up, disk, schedule, FilesAgree, Agree, IInv, TypeOK, Together, InPart,
          Saving, Early, Late, Filing, NoFile, SameState, SameTime
<1>2. ReadState'
  BY ZeroIsATask
      DEF TInv, Clean, Up, disk, schedule, ReadState, IInv, TypeOK, Together, InPart, Saving,
          Late, Agree
<1>3. Ahead'
  BY ZeroIsATask
      DEF TInv, Clean, Up, disk, schedule, Ahead, IInv, TypeOK, Together, InPart, Saving,
          Late, Agree
<1>4. OneState'
  BY ZeroIsATask
      DEF TInv, Clean, Up, disk, schedule, OneState
<1>. QED
  BY <1>1, <1>2, <1>3, <1>4 DEF TInv

-----------------------------------------------------------------------------
(* The theorems.                                                           *)

\* The promise of the files: both invariants hold as long as nothing went wrong
\* unnoticed.
Promise == Sound => IInv /\ TInv

\* A step behind which nothing has gone wrong is none that does.
LEMMA NoLapse ==
  ASSUME Basic, Next, Sound'
  PROVE  /\ Sound
         /\ Advance => mem[0].time < MaxTime
         /\ StartNew => \A t \in Task : cur[t] = NoFile /\ bak[t] = NoFile
         /\ \A t \in Task : ~RenameFails(t) /\ ~FinishWriteShort(t)
<1>1. lapses \in Nat /\ lapses' = 0
  BY DEF Basic, TypeOK, Sound
<1>2. ~Lapse
  BY <1>1 DEF Lapse
<1>3. UNCHANGED lapses
  <2>1. CASE Advance \/ GoOn \/ BeginWrite \/ Gather \/ Issue \/ OwnDone \/ Complete
    BY <1>2, <2>1 DEF Advance, GoOn, BeginWrite, Gather, Issue, OwnDone, Complete, disk
  <2>2. CASE EndRead \/ EndWrite
    BY <2>2 DEF EndRead, EndWrite, Exits, disk
  <2>3. ASSUME NEW t \in Task,
               Rename(t) \/ RenameFails(t) \/ Poll(t) \/ OpenWrite(t) \/ OpenRead(t)
                 \/ FinishWrite(t) \/ FinishWriteShort(t) \/ FinishRead(t)
        PROVE  UNCHANGED lapses
    BY <1>2, <2>3
    DEF Rename, RenameFails, Poll, OpenWrite, OpenRead, FinishWrite, FinishWriteShort,
        FinishRead, Exits, disk
  <2>4. CASE Crash \/ Resume \/ StartNew \/ Recover \/ Clean
    BY <1>2, <2>4 DEF Crash, Exits, Resume, StartNew, Recover, Clean, disk
  <2>. QED
    BY <2>1, <2>2, <2>3, <2>4 DEF Next, Work
<1>4. Sound
  BY <1>1, <1>3 DEF Sound
<1>5. Advance => mem[0].time < MaxTime
  BY <1>2 DEF Advance
<1>6. StartNew => \A t \in Task : cur[t] = NoFile /\ bak[t] = NoFile
  BY <1>2 DEF StartNew
<1>7. \A t \in Task : ~RenameFails(t) /\ ~FinishWriteShort(t)
  BY <1>2 DEF RenameFails, FinishWriteShort
<1>. QED
  BY <1>4, <1>5, <1>6, <1>7

\* Every other step of a program, its death and the user keep both invariants.
LEMMA StepInv == ASSUME IInv, TInv, Next, Sound' PROVE IInv' /\ TInv'
<1>0. /\ Advance => mem[0].time < MaxTime
      /\ StartNew => \A t \in Task : cur[t] = NoFile /\ bak[t] = NoFile
      /\ \A t \in Task : ~RenameFails(t) /\ ~FinishWriteShort(t)
  BY NoLapse DEF IInv, Basic
<1>1. CASE Advance
  BY <1>0, <1>1, AdvanceInv, AdvanceTime
<1>2. CASE GoOn
  BY <1>2, GoOnInv, GoOnTime
<1>3. CASE BeginWrite
  BY <1>3, BeginWriteInv, BeginWriteTime
<1>4. CASE Gather
  BY <1>4, GatherInv, GatherTime
<1>5. CASE Issue
  BY <1>5, IssueInv, IssueTime
<1>6. CASE OwnDone
  BY <1>6, OwnDoneInv, OwnDoneTime
<1>7. CASE Complete
  BY <1>7, CompleteInv, CompleteTime
<1>8. CASE EndRead
  BY <1>8, EndReadInv, EndReadTime
<1>9. CASE EndWrite
  BY <1>9, EndWriteInv, EndWriteTime
<1>10. ASSUME NEW t \in Task,
              Rename(t) \/ Poll(t) \/ OpenWrite(t) \/ OpenRead(t) \/ FinishWrite(t)
                \/ FinishRead(t)
       PROVE  IInv' /\ TInv'
  BY <1>10, RenameInv, RenameTime, PollInv, PollTime, OpenWriteInv, OpenWriteTime, OpenReadInv,
     OpenReadTime, FinishWriteInv, FinishWriteTime, FinishReadInv, FinishReadTime
<1>11. CASE Crash
  BY <1>11, ExitsInv, ExitsTime DEF Crash
<1>12. CASE Resume
  BY <1>12, ResumeInv, ResumeTime
<1>13. CASE StartNew
  BY <1>0, <1>13, StartNewInv, StartNewTime
<1>14. CASE Recover
  BY <1>14, RecoverInv, RecoverTime
<1>15. CASE Clean
  BY <1>15, CleanInv, CleanTime
<1>. QED
  BY <1>0, <1>1, <1>2, <1>3, <1>4, <1>5, <1>6, <1>7, <1>8, <1>9, <1>10, <1>11, <1>12, <1>13,
     <1>14, <1>15 DEF Next, Work

\* The promise always holds.
LEMMA Invariance == Spec => []Promise
<1>1. Init => Promise
  BY InitInv, InitTime DEF Promise
<1>2. ASSUME Basic, Promise, [Next]_vars PROVE Promise'
  <2>1. CASE Next
    <3>1. SUFFICES ASSUME Sound' PROVE IInv' /\ TInv'
      BY DEF Promise
    <3>2. IInv /\ TInv
      BY <1>2, <2>1, <3>1, NoLapse DEF Promise
    <3>. QED
      BY <2>1, <3>1, <3>2, StepInv
  <2>2. CASE UNCHANGED vars
    <3>1. UNCHANGED <<pc, modus, leaving, mem, started, completed, cur, bak, latest, lapses, lives>>
      BY <2>2 DEF vars
    <3>2. IInv => IInv'
      BY <3>1
      DEF IInv, TypeOK, Together, InPart, LatestKept, LatestWhole, ReadWhole, RunsFromLatest,
          SameState, SameTime, BackupMoves, NewSetGrows
    <3>3. TInv => TInv'
      BY <3>1 DEF TInv, FilesAgree, ReadState, Ahead, OneState
    <3>4. Sound' <=> Sound
      BY <3>1 DEF Sound
    <3>. QED
      BY <1>2, <3>2, <3>3, <3>4 DEF Promise
  <2>. QED
    BY <1>2, <2>1, <2>2
<1>. QED
  BY <1>1, <1>2, BasicInvariance, PTL DEF Spec

\* The last complete set of restart files survives every step of the program
\* and its death at any point, under one of the two names of every file, as
\* long as no rename or close failed unnoticed and no other run was begun.
THEOREM LatestSetStands == Spec => []LatestStands
<1>1. Promise => LatestStands
  BY DEF Promise, IInv, LatestKept, LatestStands
<1>. QED
  BY <1>1, Invariance, PTL

\* As long as a new file is incomplete, the backups are the whole old set.
THEOREM OldSetStands == Spec => []OldSetWhileWriting
<1>1. ASSUME Promise PROVE OldSetWhileWriting
  <2>1. SUFFICES ASSUME Sound, modus = "write", latest # NoFile,
                        NEW t \in Task, cur[t] = Partial(mem[t])
                 PROVE  \A s \in Task : bak[s] = latest
    BY DEF OldSetWhileWriting
  <2> IInv
    BY <1>1, <2>1 DEF Promise
  <2>2. mem[t].time > 0 /\ latest.whole
    BY <2>1 DEF IInv, SameState, LatestWhole
  <2>3. cur[t] # NoFile /\ cur[t] # latest
    BY <2>1, <2>2 DEF Partial, NoFile
  <2>4. pc[0] \notin {"down", "run", "check"} /\ pc[0] \in Saving \cup Filing
    BY <2>1, ZeroIsATask DEF IInv, TypeOK, Together, Saving, Filing, Early, Late
  <2>5. pc[0] \notin Saving
    BY <2>1, <2>3 DEF IInv, Together, InPart, Saving, BackupMoves
  <2>. QED
    BY <2>1, <2>3, <2>4, <2>5 DEF IInv, NewSetGrows
<1>. QED
  BY <1>1, Invariance, PTL

\* A program that runs has the state of one set on all tasks: the comparison
\* of the times is enough to refuse every mix of sets.
THEOREM OneSetLoaded == Spec => []LoadsOneSet
<1>1. Promise => LoadsOneSet
  BY ZeroIsATask DEF Promise, TInv, OneState, LoadsOneSet, All
<1>. QED
  BY <1>1, Invariance, PTL

-----------------------------------------------------------------------------
(* The accounts of task 0.                                                 *)

\* The tasks that were started and of whose end task 0 does not know.
Active == {t \in Task : pc[t] \in {"open", "file", "notify"}}

\* They are as many as the counters say, and within the limit; behind its own
\* file, and before it, task 0 has room for one more.
Accounts ==
  pc[0] \in Filing =>
    /\ IsFiniteSet(Active) /\ Cardinality(Active) = started - completed
    /\ started - completed <= Concurrent
    /\ pc[0] = "issue" => completed = 0
    /\ pc[0] = "own" => started - completed < Concurrent

Scheduler == Basic /\ Accounts

LEMMA PlacesAreStrings ==
  ASSUME Basic
  PROVE  /\ pc \in [Task -> {"down", "run", "check", "backup", "renamed", "issue", "wait", "open",
                             "file", "own", "notify", "poll", "done"}]
         /\ started \in Nat /\ completed \in Nat /\ 0 \in Task
  BY ZeroIsATask DEF Basic, TypeOK

\* Task 0 is not filing after the step.
LEMMA Outside == ASSUME pc'[0] \notin Filing PROVE Accounts'
  BY DEF Accounts

\* Nobody starts, ends or is counted.
LEMMA SameActive ==
  ASSUME Scheduler, UNCHANGED schedule,
         pc'[0] \in Filing => pc[0] \in Filing,
         pc'[0] \in {"own", "issue"} => pc[0] = pc'[0],
         \A t \in Task : (pc'[t] \in {"open", "file", "notify"})
                           <=> (pc[t] \in {"open", "file", "notify"})
  PROVE  Accounts'
<1>1. Active' = Active
  BY DEF Active
<1>. QED
  BY <1>1 DEF Scheduler, Accounts, schedule

\* The scheduler begins with nobody at work.
LEMMA Begins ==
  ASSUME pc' = Scheduling, started' = 0, completed' = 0
  PROVE  Accounts'
<1>1. Active' = {}
  BY DEF Active, Scheduling
<1>2. IsFiniteSet({}) /\ Cardinality({}) = 0
  BY FS_EmptySet
<1>3. pc'[0] = "issue"
  BY ZeroIsATask DEF Scheduling
<1>. QED
  BY <1>1, <1>2, <1>3, ConcurrentType DEF Accounts

\* A task starts, and is counted.
LEMMA Starts ==
  ASSUME Scheduler, pc[0] \in Filing, pc'[0] \in Filing, NEW t \in Task \ Active,
         Active' = Active \cup {t}, started' = started + 1, completed' = completed,
         pc[0] \in {"issue", "own"}, pc'[0] # "own", pc'[0] = "issue" => pc[0] = "issue"
  PROVE  Accounts'
<1>1. IsFiniteSet(Active') /\ Cardinality(Active') = Cardinality(Active) + 1
  BY FS_AddElement DEF Scheduler, Accounts
<1>2. started \in Nat /\ completed \in Nat
  BY PlacesAreStrings DEF Scheduler
<1>3. started - completed < Concurrent /\ (pc[0] = "issue" => completed = 0)
  BY <1>2 DEF Scheduler, Accounts, Basic, Together
<1>. QED
  BY <1>1, <1>2, <1>3, ConcurrentType DEF Scheduler, Accounts

\* A task is known to have ended.
LEMMA Ends ==
  ASSUME Scheduler, pc[0] \in Filing, pc'[0] \in Filing, NEW t \in Active,
         Active' = Active \ {t}, started' = started, completed' = completed + 1,
         pc'[0] # "issue"
  PROVE  Accounts'
<1>1. IsFiniteSet(Active') /\ Cardinality(Active') = Cardinality(Active) - 1
  BY FS_RemoveElement DEF Scheduler, Accounts
<1>2. started \in Nat /\ completed \in Nat
  BY PlacesAreStrings DEF Scheduler
<1>. QED
  BY <1>1, <1>2, ConcurrentType DEF Scheduler, Accounts

\* A task is known to have ended, and another starts.
LEMMA Replaces ==
  ASSUME Scheduler, pc[0] \in Filing, pc'[0] \in {"file", "poll"}, NEW t \in Active,
         NEW s \in Task \ Active, Active' = (Active \ {t}) \cup {s},
         started' = started + 1, completed' = completed + 1
  PROVE  Accounts'
<1>1. IsFiniteSet(Active \ {t}) /\ Cardinality(Active \ {t}) = Cardinality(Active) - 1
  BY FS_RemoveElement DEF Scheduler, Accounts
<1>2. IsFiniteSet(Active') /\ Cardinality(Active') = Cardinality(Active \ {t}) + 1
  BY <1>1, FS_AddElement
<1>3. started \in Nat /\ completed \in Nat
  BY PlacesAreStrings DEF Scheduler
<1>. QED
  BY <1>1, <1>2, <1>3, ConcurrentType DEF Scheduler, Accounts

-----------------------------------------------------------------------------
(* The steps of the scheduler.                                             *)

\* Task 0 starts the first tasks, and itself.
LEMMA IssueAccounts == ASSUME Scheduler, Issue PROVE Accounts'
<1>1. /\ pc[0] = "issue" /\ started' = started + 1 /\ completed' = completed
      /\ IF started < Concurrent - 1 THEN Signalled(started + 1, "issue")
         ELSE pc' = [pc EXCEPT ![0] = "open"]
  BY DEF Issue
<1>2. CASE Signalled(started + 1, "issue")
  <2>1. PICK t \in Task \ {0} : pc[t] = "wait" /\ pc' = [pc EXCEPT ![0] = "issue", ![t] = "open"]
    BY <1>2 DEF Signalled
  <2>2. Active' = Active \cup {t} /\ t \notin Active /\ pc'[0] = "issue"
    BY <1>1, <2>1, PlacesAreStrings DEF Active, Scheduler
  <2>. QED
    BY <1>1, <2>2, Starts DEF Filing, Early
<1>3. CASE pc' = [pc EXCEPT ![0] = "open"]
  <2>1. Active' = Active \cup {0} /\ 0 \in Task \ Active /\ pc'[0] = "open"
    BY <1>1, <1>3, PlacesAreStrings DEF Active, Scheduler
  <2>. QED
    BY <1>1, <2>1, Starts DEF Filing, Early
<1>. QED
  BY <1>1, <1>2, <1>3

\* Behind its own file, task 0 starts the next one.
LEMMA OwnDoneAccounts == ASSUME Scheduler, OwnDone PROVE Accounts'
<1>1. pc[0] = "own" /\ completed' = completed /\ StartNext("poll")
  BY DEF OwnDone
<1>2. CASE started < NTask
  <2>1. started' = started + 1 /\ Signalled(started, "poll")
    BY <1>1, <1>2 DEF StartNext
  <2>2. PICK t \in Task \ {0} : pc[t] = "wait" /\ pc' = [pc EXCEPT ![0] = "poll", ![t] = "open"]
    BY <2>1 DEF Signalled
  <2>3. Active' = Active \cup {t} /\ t \notin Active /\ pc'[0] = "poll"
    BY <1>1, <2>2, PlacesAreStrings DEF Active, Scheduler
  <2>. QED
    BY <1>1, <2>1, <2>3, Starts DEF Filing, Late
<1>3. CASE ~(started < NTask)
  <2>1. pc' = [pc EXCEPT ![0] = "poll"] /\ UNCHANGED schedule
    BY <1>1, <1>3 DEF StartNext, schedule
  <2>. QED
    BY <1>1, <2>1, SameActive, PlacesAreStrings DEF Scheduler, Filing, Late
<1>. QED
  BY <1>2, <1>3

\* Task 0 hears of an end, and starts another task if there is one.
LEMMA PollAccounts == ASSUME Scheduler, NEW t \in Task, Poll(t) PROVE Accounts'
<1>1. t # 0 /\ pc[t] = "notify" /\ pc[0] \in {"file", "poll"} /\ completed' = completed + 1
  BY DEF Poll
<1>2. CASE started < NTask
  <2>1. PICK s \in Task \ {0} :
          started' = started + 1 /\ pc[s] = "wait"
          /\ pc' = [pc EXCEPT ![s] = "open", ![t] = "done"]
    BY <1>2 DEF Poll
  <2>2. Active' = (Active \ {t}) \cup {s} /\ s \notin Active /\ t \in Active /\ pc'[0] = pc[0]
    BY <1>1, <2>1, PlacesAreStrings DEF Active, Scheduler
  <2>. QED
    BY <1>1, <2>1, <2>2, Replaces DEF Filing, Late
<1>3. CASE ~(started < NTask)
  <2>1. pc' = [pc EXCEPT ![t] = "done"] /\ started' = started
    BY <1>3 DEF Poll
  <2>2. Active' = Active \ {t} /\ t \in Active /\ pc'[0] = pc[0]
    BY <1>1, <2>1, PlacesAreStrings DEF Active, Scheduler
  <2>. QED
    BY <1>1, <2>1, <2>2, Ends DEF Filing, Late
<1>. QED
  BY <1>2, <1>3

\* A file is done: the one of task 0 is counted at once.
LEMMA ClosedAccounts ==
  ASSUME Scheduler, NEW t \in Task, pc[t] = "file", Closed(t)
  PROVE  Accounts'
<1>1. pc[0] \in Filing
  <2>1. pc[t] \notin {"down", "run", "check"} \cup Saving
    BY DEF Saving
  <2>. QED
    BY <2>1, PlacesAreStrings
    DEF Scheduler, Basic, Together, InPart, Filing, Early, Late, Saving
<1>2. CASE t = 0
  <2>1. pc' = [pc EXCEPT ![0] = "own"] /\ completed' = completed + 1 /\ started' = started
    BY <1>2 DEF Closed
  <2>2. Active' = Active \ {0} /\ 0 \in Active /\ pc'[0] = "own"
    BY <1>2, <2>1, PlacesAreStrings DEF Active, Scheduler
  <2>. QED
    BY <1>1, <2>1, <2>2, Ends DEF Filing, Late
<1>3. CASE t # 0
  <2>1. pc' = [pc EXCEPT ![t] = "notify"] /\ UNCHANGED schedule
    BY <1>3 DEF Closed, schedule
  <2>2. pc'[0] = pc[0]
    BY <1>3, <2>1, PlacesAreStrings DEF Scheduler
  <2>3. \A s \in Task : (pc'[s] \in {"open", "file", "notify"})
                           <=> (pc[s] \in {"open", "file", "notify"})
    BY <2>1, PlacesAreStrings DEF Scheduler
  <2>. QED
    BY <2>1, <2>2, <2>3, SameActive
<1>. QED
  BY <1>2, <1>3

\* A file is opened.
LEMMA OpenAccounts ==
  ASSUME Scheduler, NEW t \in Task, pc[t] = "open", pc' = [pc EXCEPT ![t] = "file"],
         UNCHANGED schedule
  PROVE  Accounts'
<1>1. \A s \in Task : (pc'[s] \in {"open", "file", "notify"})
                         <=> (pc[s] \in {"open", "file", "notify"})
  BY PlacesAreStrings DEF Scheduler
<1>2. pc'[0] = pc[0] \/ (pc[0] = "open" /\ pc'[0] = "file")
  BY PlacesAreStrings DEF Scheduler
<1>. QED
  BY <1>1, <1>2, SameActive DEF Filing, Early

\* Every step keeps the accounts.
LEMMA StepAccounts == ASSUME Scheduler, [Next]_vars PROVE Accounts'
<1> USE ZeroIsATask
<1>1. CASE Advance \/ GoOn \/ BeginWrite \/ StartNew
  <2>1. pc'[0] \in {"check", "run", "backup"}
    BY <1>1 DEF Advance, GoOn, BeginWrite, StartNew
  <2>. QED
    BY <2>1, Outside DEF Filing, Early, Late
<1>2. ASSUME Exits PROVE Accounts'
  <2>1. pc'[0] = "down"
    BY <1>2 DEF Exits, Down
  <2>. QED
    BY <2>1, Outside DEF Filing, Early, Late
<1>3. CASE Gather \/ Resume
  BY <1>3, Begins DEF Gather, Resume
<1>4. CASE Issue \/ OwnDone
  BY <1>4, IssueAccounts, OwnDoneAccounts
<1>5. CASE Complete
  <2>1. pc[0] = "poll" /\ pc' = [pc EXCEPT ![0] = "done"] /\ UNCHANGED schedule
    BY <1>5 DEF Complete
  <2>. QED
    BY <2>1, SameActive, PlacesAreStrings DEF Scheduler, Filing, Late
<1>6. CASE EndRead \/ EndWrite
  <2>1. Exits \/ pc'[0] = "run"
    BY <1>6 DEF EndRead, EndWrite
  <2>. QED
    BY <1>2, <2>1, Outside DEF Filing, Early, Late
<1>7. ASSUME NEW t \in Task, Rename(t) \/ RenameFails(t) PROVE Accounts'
  <2>1. pc[t] = "backup" /\ pc' = [pc EXCEPT ![t] = "renamed"]
    BY <1>7 DEF Rename, RenameFails
  <2>2. pc[0] \notin Filing
    BY <2>1 DEF Scheduler, Basic, Together, InPart, Filing, Early, Late
  <2>3. pc'[0] = pc[0] \/ pc'[0] = "renamed"
    BY <2>1, PlacesAreStrings DEF Scheduler
  <2>. QED
    BY <2>2, <2>3, Outside DEF Filing, Early, Late
<1>8. ASSUME NEW t \in Task, Poll(t) PROVE Accounts'
  BY <1>8, PollAccounts
<1>9. ASSUME NEW t \in Task, OpenWrite(t) \/ OpenRead(t) PROVE Accounts'
  <2>1. \/ Exits
        \/ pc[t] = "open" /\ pc' = [pc EXCEPT ![t] = "file"] /\ UNCHANGED schedule
    BY <1>9 DEF OpenWrite, OpenRead
  <2>. QED
    BY <1>2, <2>1, OpenAccounts
<1>10. ASSUME NEW t \in Task, FinishWrite(t) \/ FinishWriteShort(t) \/ FinishRead(t)
       PROVE  Accounts'
  <2>1. Exits \/ (pc[t] = "file" /\ Closed(t))
    BY <1>10 DEF FinishWrite, FinishWriteShort, FinishRead
  <2>. QED
    BY <1>2, <2>1, ClosedAccounts
<1>11. CASE Crash
  BY <1>2, <1>11 DEF Crash
<1>12. CASE Recover \/ Clean \/ UNCHANGED vars
  <2>1. UNCHANGED <<pc, started, completed>>
    BY <1>12 DEF Recover, Clean, vars, schedule
  <2>. QED
    BY <2>1, SameActive DEF schedule
<1>. QED
  BY <1>1, <1>3, <1>4, <1>5, <1>6, <1>7, <1>8, <1>9, <1>10, <1>11, <1>12 DEF Next, Work

\* The accounts are always right.
LEMMA AccountsInvariance == Spec => []Scheduler
<1>1. Init => Accounts
  BY ZeroIsATask DEF Init, Accounts, Filing, Early, Late
<1>2. Scheduler /\ [Next]_vars => Accounts'
  BY StepAccounts
<1>3. Scheduler <=> Basic /\ Accounts
  BY DEF Scheduler
<1>. QED
  BY <1>1, <1>2, <1>3, BasicInvariance, PTL DEF Spec

\* No more files are open at a time than MaxFilesWithConcurrentIO, or than there
\* are tasks when that is out of range.
THEOREM FilesAtATime == Spec => []AtMostConcurrent
<1>1. ASSUME Scheduler PROVE AtMostConcurrent
  <2> DEFINE open == {t \in Task : pc[t] \in {"open", "file"}}
  <2>1. CASE pc[0] \in Filing
    <3>1. open \subseteq Active
      BY DEF Active
    <3>2. IsFiniteSet(Active) /\ Cardinality(Active) = started - completed
          /\ started - completed <= Concurrent
      BY <1>1, <2>1 DEF Scheduler, Accounts
    <3>3. IsFiniteSet(open) /\ Cardinality(open) <= Cardinality(Active)
      BY <3>1, <3>2, FS_Subset
    <3>4. Cardinality(open) \in Nat /\ Cardinality(Active) \in Nat
      BY <3>2, <3>3, FS_CardinalityType
    <3>. QED
      BY <3>2, <3>3, <3>4, ConcurrentType DEF AtMostConcurrent
  <2>2. CASE pc[0] \notin Filing
    <3>1. open = {}
      BY <1>1, <2>2, PlacesAreStrings
      DEF Scheduler, Basic, Together, InPart, Filing, Early, Late, Saving
    <3>2. Cardinality(open) = 0
      BY <3>1, FS_EmptySet
    <3>. QED
      BY <3>2, ConcurrentType DEF AtMostConcurrent
  <2>. QED
    BY <2>1, <2>2
<1>. QED
  BY <1>1, AccountsInvariance, PTL

-----------------------------------------------------------------------------
(* What is stored.                                                         *)

\* A set that all tasks have is the last complete one or an older one beside
\* it, and a program that is down works on nothing.
HeldIsLatest == Held # {} => latest # NoFile
MemoryGone == pc[0] = "down" => mem[0].time = 0
SInv == HeldIsLatest /\ MemoryGone

\* The state a user is resumed from is the last complete set.
LatestTime == IF latest = NoFile THEN -1 ELSE latest.time
StoredIsLatest == Stored = LatestTime

AllInv == IInv /\ TInv /\ SInv

\* The last complete set is held.
LEMMA LatestIsHeld ==
  ASSUME IInv, latest # NoFile
  PROVE  latest \in Held /\ latest.time \in Nat
  BY ZeroIsATask DEF IInv, TypeOK, LatestKept, LatestWhole, Held, File

\* No set that is held is newer.
LEMMA HeldIsOlder ==
  ASSUME IInv, TInv, latest # NoFile, NEW f \in Held
  PROVE  f.time <= latest.time
<1>1. f.whole /\ \A t \in Task : f \in {cur[t], bak[t]} /\ latest \in {cur[t], bak[t]}
  BY DEF Held, IInv, LatestKept
<1>2. latest.whole /\ latest.time \in Nat
  BY DEF IInv, LatestWhole, TypeOK, File
<1>3. CASE f = latest
  BY <1>2, <1>3
<1>4. CASE f # latest /\ \E t \in Task : cur[t] = latest
  BY <1>1, <1>2, <1>4 DEF TInv, FilesAgree
<1>5. CASE f # latest /\ \A t \in Task : cur[t] # latest
  <2>1. \A t \in Task : cur[t] = f
    BY <1>1, <1>5
  <2>. QED
    BY <1>1, <1>5, <2>1, ZeroIsATask DEF IInv, LatestWhole
<1>. QED
  BY <1>3, <1>4, <1>5

\* Hence the last complete set is what is stored.
LEMMA StoredSet == AllInv => StoredIsLatest
<1> SUFFICES ASSUME AllInv PROVE StoredIsLatest
  OBVIOUS
<1>1. CASE latest = NoFile
  BY <1>1 DEF AllInv, SInv, HeldIsLatest, StoredIsLatest, Stored, LatestTime
<1>2. CASE latest # NoFile
  <2>1. latest \in Held /\ latest.time \in Nat
    BY <1>2, LatestIsHeld DEF AllInv
  <2>2. \A g \in Held : g.time <= latest.time /\ g.time \in Nat
    BY <1>2, HeldIsOlder, ZeroIsATask DEF AllInv, IInv, TypeOK, Held, File
  <2> DEFINE best == CHOOSE f \in Held : \A g \in Held : g.time <= f.time
  <2>3. best \in Held /\ \A g \in Held : g.time <= best.time
    BY <2>1, <2>2
  <2>4. best.time = latest.time
    BY <2>1, <2>2, <2>3
  <2>. QED
    BY <1>2, <2>1, <2>4 DEF StoredIsLatest, Stored, LatestTime
<1>. QED
  BY <1>1, <1>2

-----------------------------------------------------------------------------
(* It stays so.                                                            *)

\* Nothing is held and nobody works at first.
LEMMA InitStored == ASSUME Init PROVE SInv
  BY ZeroIsATask DEF Init, SInv, HeldIsLatest, MemoryGone, Held, NoFile

\* A set that is held after files were moved or emptied was held before.
LEMMA NothingGained ==
  ASSUME \A t \in Task : \A f \in {cur'[t], bak'[t]} : f.whole => f \in {cur[t], bak[t]}
  PROVE  Held' \subseteq Held
  BY ZeroIsATask DEF Held

\* A file that completes no set makes none.
LEMMA FinishWriteHeld ==
  ASSUME AllInv, IInv', NEW t \in Task, FinishWrite(t)
  PROVE  HeldIsLatest'
<1>1. /\ pc[t] = "file" /\ modus = "write" /\ modus' = "write"
      /\ cur' = [cur EXCEPT ![t] = Whole(mem[t])] /\ UNCHANGED <<bak, mem>>
      /\ latest' = IF \A s \in Task : cur'[s] = Whole(mem[s]) THEN cur'[t] ELSE latest
  BY DEF FinishWrite
<1>2. pc[0] \in Filing /\ \A s \in Task : pc[s] \in Filing
  BY <1>1, ZeroIsATask DEF AllInv, IInv, TypeOK, Together, InPart, Saving, Filing, Early, Late
<1>3. cur'[t] = Whole(mem[t]) /\ \A s \in Task \ {t} : cur'[s] = cur[s]
  BY <1>1 DEF AllInv, IInv, TypeOK
<1>4. \A s \in Task : mem[s] = mem[0] /\ mem[s].time \in Nat /\ bak[s].time \in Nat
                      /\ bak[s].time < mem[s].time
  BY <1>1, <1>2, ZeroIsATask
  DEF AllInv, IInv, SameState, TInv, Ahead, TypeOK, State, File
<1>5. CASE \A s \in Task : cur'[s] = Whole(mem[s])
  <2>1. latest'.whole
    BY <1>1, <1>5 DEF Whole
  <2>. QED
    BY <2>1 DEF HeldIsLatest, NoFile
<1>6. CASE \E s \in Task : cur'[s] # Whole(mem[s])
  <2>1. latest' = latest
    BY <1>1, <1>6
  <2>2. PICK s \in Task : cur'[s] # Whole(mem[s])
    BY <1>6
  <2>3. s # t /\ cur'[s] = cur[s]
    BY <1>3, <2>2
  <2>4. cur[s] = NoFile \/ cur[s] = Partial(mem[s])
    BY <1>1, <1>2, <2>2, <2>3 DEF AllInv, IInv, NewSetGrows, Filing
  <2>5. ~cur[s].whole
    BY <2>4 DEF NoFile, Partial
  <2>6. ASSUME NEW f \in Held' PROVE f \in Held
    <3>1. f.whole /\ \A u \in Task : f \in {cur'[u], bak[u]}
      BY <1>1 DEF Held
    <3>2. f = bak[s]
      BY <2>3, <2>5, <3>1
    <3>3. f # Whole(mem[t])
      <4>1. f.time < mem[s].time /\ mem[s] = mem[0] /\ mem[t] = mem[0]
        BY <1>4, <3>2
      <4>2. Whole(mem[t]).time = mem[t].time
        BY DEF Whole
      <4>. QED
        BY <1>4, <3>2, <4>1, <4>2
    <3>4. \A u \in Task : f \in {cur[u], bak[u]}
      BY <1>3, <3>1, <3>3
    <3>. QED
      BY <3>1, <3>4, ZeroIsATask DEF Held
  <2>. QED
    BY <2>1, <2>6 DEF AllInv, SInv, HeldIsLatest
<1>. QED
  BY <1>5, <1>6

\* The backups that the user renames are the set that is stored, or the sets
\* are mixed and lost.
LEMMA RecoverHeld ==
  ASSUME AllInv, Recover
  PROVE  /\ HeldIsLatest'
         /\ latest' = NoFile \/ latest' = latest
<1>1. /\ ~Loadable(cur) /\ bak' = [t \in Task |-> NoFile]
      /\ latest' = IF OneRun(cur') THEN cur'[0] ELSE NoFile
  BY DEF Recover
<1>2. PICK discard \in BOOLEAN : cur' = Renamed(discard)
  BY DEF Recover
<1>3. \A t \in Task :
        cur'[t] = IF bak[t] # NoFile THEN bak[t] ELSE IF discard THEN NoFile ELSE cur[t]
  BY <1>2 DEF Renamed
<1>4. HeldIsLatest'
  <2>1. SUFFICES ASSUME Held' # {} PROVE latest' # NoFile
    BY DEF HeldIsLatest
  <2>2. PICK f \in Held' : TRUE
    BY <2>1
  <2>3. f.whole /\ \A t \in Task : f \in {cur'[t], NoFile}
    BY <1>1, <2>2 DEF Held
  <2>4. \A t \in Task : cur'[t] = f
    BY <2>3 DEF NoFile
  <2>5. OneRun(cur') /\ cur'[0] = f
    BY <2>3, <2>4, ZeroIsATask DEF OneRun
  <2>. QED
    BY <1>1, <2>3, <2>5 DEF NoFile
<1>5. ASSUME OneRun(cur') PROVE latest' = latest
  <2>1. PICK f : f = cur'[0]
    OBVIOUS
  <2>2. f.whole /\ latest' = f /\ \A t \in Task : cur'[t] = f
    BY <1>1, <1>5, <2>1, ZeroIsATask DEF OneRun
  <2>3. f # NoFile
    BY <2>2 DEF NoFile
  <2>4. \A t \in Task : IF bak[t] # NoFile THEN bak[t] = f ELSE cur[t] = f
    BY <1>3, <2>2, <2>3
  <2>5. f \in Held
    BY <2>2, <2>4, ZeroIsATask DEF Held
  <2>6. latest # NoFile /\ latest.whole /\ \A t \in Task : latest \in {cur[t], bak[t]}
    BY <2>5 DEF AllInv, SInv, HeldIsLatest, IInv, LatestWhole, LatestKept
  <2>7. ASSUME f # latest PROVE FALSE
    <3>1. \A t \in Task : cur[t] = latest
      BY <2>4, <2>6, <2>7
    <3>. QED
      BY <1>1, <2>6, <3>1, ZeroIsATask DEF Loadable
  <2>. QED
    BY <2>2, <2>7
<1>. QED
  BY <1>1, <1>4, <1>5

\* The memory of a program that ends is gone, its files are not.
LEMMA ExitsStored == ASSUME AllInv, Exits PROVE SInv'
  BY ZeroIsATask DEF AllInv, SInv, Exits, Down, disk, HeldIsLatest, MemoryGone, Held

\* A step that leaves the files alone, and the tasks up.
LEMMA SameFiles ==
  ASSUME AllInv, UNCHANGED <<cur, bak, latest>>, pc'[0] # "down"
  PROVE  SInv'
  BY DEF AllInv, SInv, HeldIsLatest, MemoryGone, Held

\* No step makes the files of all tasks one set that is not known as the last.
LEMMA StepStored == ASSUME AllInv, [Next]_vars, IInv', Sound' PROVE SInv'
<1> USE ZeroIsATask
<1>0. Next => /\ Advance => mem[0].time < MaxTime
              /\ StartNew => \A t \in Task : cur[t] = NoFile /\ bak[t] = NoFile
              /\ \A t \in Task : ~RenameFails(t) /\ ~FinishWriteShort(t)
  BY NoLapse DEF AllInv, IInv, Basic
<1>1. CASE Advance \/ GoOn \/ BeginWrite \/ Gather
  <2>1. UNCHANGED <<cur, bak, latest>> /\ pc'[0] # "down"
    BY <1>1 DEF Advance, GoOn, BeginWrite, Gather, Scheduling, disk
  <2>. QED
    BY <2>1, SameFiles
<1>2. CASE Issue \/ OwnDone \/ Complete
  <2>1. pc \in [Task -> {"down", "run", "check", "backup", "renamed", "issue", "wait", "open",
                         "file", "own", "notify", "poll", "done"}]
    BY DEF AllInv, IInv, TypeOK
  <2>2. UNCHANGED <<cur, bak, latest>> /\ pc'[0] # "down"
    BY <1>2, <2>1 DEF Issue, OwnDone, StartNext, Complete, Signalled, disk
  <2>. QED
    BY <2>2, SameFiles
<1>3. CASE EndRead \/ EndWrite
  <2>1. Exits \/ (UNCHANGED <<cur, bak, latest>> /\ pc'[0] # "down")
    BY <1>3 DEF EndRead, EndWrite, disk
  <2>. QED
    BY <2>1, SameFiles, ExitsStored
<1>4. ASSUME NEW t \in Task, Rename(t) PROVE SInv'
  <2>1. pc[t] = "backup" /\ pc' = [pc EXCEPT ![t] = "renamed"] /\ latest' = latest
    BY <1>4 DEF Rename
  <2>2. pc'[0] # "down"
    BY <2>1 DEF AllInv, IInv, TypeOK, Together, InPart
  <2>3. ASSUME NEW s \in Task, NEW f \in {cur'[s], bak'[s]}, f.whole
        PROVE  f \in {cur[s], bak[s]}
    <3>1. CASE cur[t] = NoFile
      BY <1>4, <2>3, <3>1 DEF Rename
    <3>2. CASE cur[t] # NoFile
      <4>1. bak' = [bak EXCEPT ![t] = cur[t]] /\ cur' = [cur EXCEPT ![t] = NoFile]
        BY <1>4, <3>2 DEF Rename
      <4>2. f # NoFile
        BY <2>3 DEF NoFile
      <4>. QED
        BY <2>3, <4>1, <4>2 DEF AllInv, IInv, TypeOK
    <3>. QED
      BY <3>1, <3>2
  <2>4. Held' \subseteq Held
    BY <2>3, NothingGained
  <2>. QED
    BY <2>1, <2>2, <2>4 DEF AllInv, SInv, HeldIsLatest, MemoryGone
<1>5. ASSUME NEW t \in Task, Poll(t) PROVE SInv'
  <2>1. pc[0] \in {"file", "poll"} /\ UNCHANGED <<cur, bak, latest>>
    BY <1>5 DEF Poll, disk
  <2>2. pc'[0] = pc[0]
    BY <1>5 DEF Poll, AllInv, IInv, TypeOK
  <2>. QED
    BY <2>1, <2>2, SameFiles
<1>6. ASSUME NEW t \in Task, OpenWrite(t) PROVE SInv'
  <2>1. /\ cur' = [cur EXCEPT ![t] = Partial(mem[t])] /\ UNCHANGED <<bak, latest>>
        /\ pc[t] = "open" /\ pc' = [pc EXCEPT ![t] = "file"]
    BY <1>6 DEF OpenWrite
  <2>2. pc'[0] # "down"
    BY <2>1 DEF AllInv, IInv, TypeOK, Together, InPart
  <2>3. ASSUME NEW s \in Task, NEW f \in {cur'[s], bak'[s]}, f.whole
        PROVE  f \in {cur[s], bak[s]}
    <3>1. f # Partial(mem[t])
      BY <2>3 DEF Partial
    <3>. QED
      BY <2>1, <2>3, <3>1 DEF AllInv, IInv, TypeOK
  <2>4. Held' \subseteq Held
    BY <2>3, NothingGained
  <2>. QED
    BY <2>1, <2>2, <2>4 DEF AllInv, SInv, HeldIsLatest, MemoryGone
<1>7. ASSUME NEW t \in Task, OpenRead(t) PROVE SInv'
  <2>1. Exits \/ (pc[t] = "open" /\ pc' = [pc EXCEPT ![t] = "file"] /\ UNCHANGED <<cur, bak, latest>>)
    BY <1>7 DEF OpenRead, disk
  <2>2. Exits \/ (UNCHANGED <<cur, bak, latest>> /\ pc'[0] # "down")
    BY <2>1 DEF AllInv, IInv, TypeOK, Together, InPart
  <2>. QED
    BY <2>2, SameFiles, ExitsStored
<1>8. ASSUME NEW t \in Task, FinishWrite(t) PROVE SInv'
  <2>1. HeldIsLatest'
    BY <1>8, FinishWriteHeld
  <2>2. pc[t] = "file" /\ pc' = [pc EXCEPT ![t] = IF t = 0 THEN "own" ELSE "notify"]
    BY <1>8 DEF FinishWrite, Closed
  <2>3. pc'[0] # "down"
    BY <2>2 DEF AllInv, IInv, TypeOK, Together, InPart
  <2>. QED
    BY <2>1, <2>3 DEF SInv, MemoryGone
<1>9. ASSUME NEW t \in Task, FinishRead(t) PROVE SInv'
  <2>1. \/ Exits
        \/ /\ pc[t] = "file" /\ UNCHANGED <<cur, bak, latest>>
           /\ pc' = [pc EXCEPT ![t] = IF t = 0 THEN "own" ELSE "notify"]
    BY <1>9 DEF FinishRead, Closed, disk
  <2>2. Exits \/ (UNCHANGED <<cur, bak, latest>> /\ pc'[0] # "down")
    BY <2>1 DEF AllInv, IInv, TypeOK, Together, InPart
  <2>. QED
    BY <2>2, SameFiles, ExitsStored
<1>10. CASE Crash
  BY <1>10, ExitsStored DEF Crash
<1>11. CASE Resume \/ StartNew
  <2>1. UNCHANGED <<cur, bak, latest>> /\ pc'[0] # "down"
    BY <1>11 DEF Resume, StartNew, Scheduling, disk
  <2>. QED
    BY <2>1, SameFiles
<1>12. CASE Recover
  <2>1. UNCHANGED <<pc, mem>>
    BY <1>12 DEF Recover
  <2>. QED
    BY <1>12, <2>1, RecoverHeld DEF AllInv, SInv, MemoryGone
<1>13. CASE Clean
  <2>1. UNCHANGED <<pc, mem>> /\ cur'[0] = NoFile /\ bak'[0] = NoFile
    BY <1>13 DEF Clean
  <2>2. Held' = {}
    BY <2>1 DEF Held, NoFile
  <2>. QED
    BY <2>1, <2>2 DEF AllInv, SInv, HeldIsLatest, MemoryGone
<1>14. CASE UNCHANGED vars
  BY <1>14 DEF vars, AllInv, SInv, HeldIsLatest, MemoryGone, Held
<1>. QED
  BY <1>0, <1>1, <1>2, <1>3, <1>4, <1>5, <1>6, <1>7, <1>8, <1>9, <1>10, <1>11, <1>12, <1>13,
     <1>14
  DEF Next, Work

\* All invariants hold as long as nothing went wrong unnoticed.
LEMMA StoredInvariance == Spec => [](Sound => AllInv)
<1>1. Init => (Sound => SInv)
  BY InitStored
<1>2. ASSUME Basic, Promise, Sound => SInv, Promise', [Next]_vars
      PROVE  (Sound => SInv)'
  <2>1. SUFFICES ASSUME Sound' PROVE SInv'
    OBVIOUS
  <2>2. Sound
    <3>1. CASE Next
      BY <1>2, <2>1, <3>1, NoLapse
    <3>2. CASE UNCHANGED vars
      BY <2>1, <3>2 DEF vars, Sound
    <3>. QED
      BY <1>2, <3>1, <3>2
  <2>. QED
    BY <1>2, <2>1, <2>2, StepStored DEF Promise, AllInv
<1>3. (Sound => AllInv) <=> Promise /\ (Sound => SInv)
  BY DEF AllInv, Promise
<1>. QED
  BY <1>1, <1>2, <1>3, Invariance, BasicInvariance, PTL DEF Spec

-----------------------------------------------------------------------------
(* The steps of the checkpoint.                                            *)

\* A step between two of the checkpoint.
LEMMA QuietStep ==
  ASSUME Sound, Sound', StoredIsLatest, StoredIsLatest', latest' = latest, Working' <=> Working,
         Working => mem'[0] = mem[0]
  PROVE  UNCHANGED Abstract!vars
<1>1. Working' = Working
  BY DEF Working
<1>2. Stored' = Stored
  BY DEF StoredIsLatest, LatestTime
<1>. QED
  BY <1>1, <1>2 DEF Abstract!vars, Sound

\* A step of tasks that write, or that read: they go on doing so.
LEMMA GoesOn ==
  ASSUME AllInv, Sound, Sound', StoredIsLatest, StoredIsLatest', latest' = latest,
         UNCHANGED modus,
         pc[0] \in Saving \cup Filing, pc'[0] \in Saving \cup Filing,
         modus = "write" => mem'[0] = mem[0]
  PROVE  UNCHANGED Abstract!vars
<1>1. CASE modus = "write"
  <2>1. Working /\ Working'
    BY <1>1 DEF Working, Up, Saving, Filing, Early, Late
  <2>. QED
    BY <1>1, <2>1, QuietStep
<1>2. CASE modus # "write"
  <2>1. modus = "read" /\ modus' = "read"
    BY <1>2 DEF AllInv, IInv, TypeOK
  <2>2. pc[0] \notin {"run", "check"} /\ pc'[0] \notin {"run", "check"}
    BY DEF Saving, Filing, Early, Late
  <2>3. ~Working /\ ~Working'
    BY <2>1, <2>2, ZeroIsATask DEF Working
  <2>. QED
    BY <2>3, QuietStep
<1>. QED
  BY <1>1, <1>2

\* A step that ends the program: it dies, or it was not working yet.
LEMMA ExitsCheckpoint ==
  ASSUME AllInv, Sound, Sound', StoredIsLatest, StoredIsLatest', Exits
  PROVE  Abstract!Die \/ UNCHANGED Abstract!vars
<1>1. pc'[0] = "down" /\ UNCHANGED <<cur, bak, latest>>
  BY ZeroIsATask DEF Exits, Down, disk
<1>2. Working' = FALSE
  BY <1>1 DEF Working, Up
<1>3. Stored' = Stored
  BY <1>1 DEF StoredIsLatest, LatestTime
<1>. QED
  BY <1>2, <1>3 DEF Abstract!Die, Abstract!vars, Working, Sound

\* Two whole files of one time and one run are the same.
LEMMA SameFile ==
  ASSUME NEW f \in File, NEW g \in File, f.whole, g.whole, f.time = g.time, f.by = g.by
  PROVE  f = g
<1>1. f = [time |-> f.time, by |-> f.by, whole |-> TRUE]
  BY DEF File
<1>2. g = [time |-> g.time, by |-> g.by, whole |-> TRUE]
  BY DEF File
<1>. QED
  BY <1>1, <1>2

\* The set is read: the run goes on where the saved state is.
LEMMA EndReadCheckpoint ==
  ASSUME AllInv, Sound, Sound', StoredIsLatest, StoredIsLatest', EndRead, SameTime
  PROVE  Abstract!Resume
<1> USE ZeroIsATask
<1>1. /\ \A t \in Task : pc[t] = "done"
      /\ modus = "read" /\ modus' = "read" /\ pc' = [t \in Task |-> "run"]
      /\ UNCHANGED <<mem, cur, bak, latest>>
  BY DEF EndRead, All, disk
<1>2. ASSUME NEW t \in Task
      PROVE  cur[t].whole /\ mem[t].time = cur[t].time
  <2>1. cur[t].whole /\ mem[t] = [time |-> cur[t].time, by |-> cur[t].by]
    BY <1>1 DEF AllInv, IInv, TInv, ReadWhole, ReadState, Late
  <2>. QED
    BY <2>1
<1>3. \A t \in Task : cur[t] = cur[0]
  <2>1. ASSUME NEW t \in Task PROVE cur[t] = cur[0]
    <3>1. mem[t].time = cur[t].time /\ mem[0].time = cur[0].time /\ mem[t].time = mem[0].time
      BY <1>2 DEF SameTime
    <3>2. cur[t].by = cur[0].by
      BY <1>2, <3>1 DEF AllInv, TInv, FilesAgree, Agree
    <3>3. cur[t] \in File /\ cur[0] \in File /\ cur[t].whole /\ cur[0].whole
      BY <1>2 DEF AllInv, IInv, TypeOK
    <3>4. cur[t].time = cur[0].time
      BY <3>1
    <3>. QED
      BY <3>2, <3>3, <3>4, SameFile
  <2>. QED
    BY <2>1
<1>4. cur[0] \in Held
  BY <1>2, <1>3 DEF Held
<1>5. latest # NoFile /\ cur[0] = latest /\ latest.time \in Nat
  BY <1>2, <1>4 DEF AllInv, SInv, HeldIsLatest, IInv, LatestWhole, TypeOK, File
<1>6. Stored = latest.time /\ Stored' = latest.time /\ mem'[0].time = latest.time
  BY <1>1, <1>2, <1>5 DEF StoredIsLatest, LatestTime
<1>7. ~Working /\ Working'
  BY <1>1 DEF Working, Up
<1>. QED
  BY <1>5, <1>6, <1>7 DEF Abstract!Resume, Sound

\* The last file of a set is closed: the state is saved.
LEMMA FinishWriteCheckpoint ==
  ASSUME AllInv, Sound, Sound', StoredIsLatest, StoredIsLatest', NEW t \in Task,
         FinishWrite(t)
  PROVE  Abstract!Save \/ UNCHANGED Abstract!vars
<1> USE ZeroIsATask
<1>1. /\ pc[t] = "file" /\ modus = "write" /\ modus' = "write" /\ UNCHANGED mem
      /\ cur' = [cur EXCEPT ![t] = Whole(mem[t])]
      /\ latest' = IF \A s \in Task : cur'[s] = Whole(mem[s]) THEN cur'[t] ELSE latest
      /\ pc' = [pc EXCEPT ![t] = IF t = 0 THEN "own" ELSE "notify"]
  BY DEF FinishWrite, Closed
<1>2. pc[0] # "down" /\ pc'[0] # "down"
  BY <1>1 DEF AllInv, IInv, TypeOK, Together, InPart
<1>3. Working /\ Working'
  BY <1>1, <1>2 DEF Working, Up
<1>4. CASE latest' = latest
  BY <1>1, <1>3, <1>4, QuietStep
<1>5. CASE latest' # latest
  <2>1. latest' = Whole(mem[t])
    BY <1>1, <1>5
  <2>2. mem[t] = mem[0]
    BY <1>1 DEF AllInv, IInv, SameState
  <2>3. Stored' = mem[0].time
    BY <2>1, <2>2 DEF StoredIsLatest, LatestTime, Whole, NoFile
  <2>. QED
    BY <1>1, <1>3, <2>3 DEF Abstract!Save, Sound
<1>. QED
  BY <1>4, <1>5

\* A run begins where nothing is stored.
LEMMA StartNewCheckpoint ==
  ASSUME AllInv, Sound, Sound', StoredIsLatest, StoredIsLatest', StartNew,
         \A t \in Task : cur[t] = NoFile /\ bak[t] = NoFile
  PROVE  Abstract!StartNew
<1> USE ZeroIsATask
<1>1. /\ pc[0] = "down" /\ pc' = [t \in Task |-> "run"]
      /\ UNCHANGED <<modus, mem, cur, bak, latest>>
  BY DEF StartNew, Up
<1>2. Held = {}
  BY DEF Held, NoFile
<1>3. Stored = -1
  BY <1>2 DEF Stored
<1>4. Stored' = Stored
  BY <1>1 DEF StoredIsLatest, LatestTime
<1>5. modus = "read" /\ mem[0].time = 0
  BY <1>1 DEF AllInv, IInv, Together, SInv, MemoryGone
<1>6. ~Working /\ Working'
  BY <1>1, <1>5 DEF Working, Up
<1>. QED
  BY <1>1, <1>3, <1>4, <1>5, <1>6 DEF Abstract!StartNew, Sound

\* Every step behind which nothing has gone wrong is one of the checkpoint, or none.
LEMMA SoundCheckpoint ==
  ASSUME AllInv, AllInv', Sound, Sound', StoredIsLatest, StoredIsLatest', [Next]_vars
  PROVE  [Abstract!Next]_(Abstract!vars)
<1> USE ZeroIsATask
<1>lapse. Next => /\ Advance => mem[0].time < MaxTime
                  /\ StartNew => \A t \in Task : cur[t] = NoFile /\ bak[t] = NoFile
                  /\ \A t \in Task : ~RenameFails(t) /\ ~FinishWriteShort(t)
  BY NoLapse DEF AllInv, IInv, Basic
<1>0. pc \in [Task -> {"down", "run", "check", "backup", "renamed", "issue", "wait", "open",
                       "file", "own", "notify", "poll", "done"}]
  BY DEF AllInv, IInv, TypeOK
<1>1. CASE Advance
  <2>1. /\ \A t \in Task : pc[t] = "run" /\ pc'[t] = "check"
        /\ UNCHANGED <<modus, latest>> /\ mem'[0].time = mem[0].time + 1
    BY <1>1, <1>lapse DEF Advance, Elapsed, All, Next, Work
  <2>2. modus = "read"
    BY <2>1 DEF AllInv, IInv, Together
  <2>3. Working /\ Working'
    BY <2>1, <2>2 DEF Working, Up
  <2>4. Stored' = Stored
    BY <2>1 DEF StoredIsLatest, LatestTime
  <2>. QED
    BY <2>1, <2>3, <2>4 DEF Abstract!Next, Abstract!Advance, Sound
<1>2. CASE GoOn \/ BeginWrite
  <2>1. /\ \A t \in Task : pc[t] = "check" /\ pc'[t] \in {"run", "backup"}
        /\ modus' = "write" \/ (modus' = modus /\ \A t \in Task : pc'[t] = "run")
        /\ UNCHANGED <<mem, latest>>
    BY <1>2 DEF GoOn, BeginWrite, All, disk
  <2>2. modus = "read"
    BY <2>1 DEF AllInv, IInv, Together
  <2>3. Working /\ Working'
    BY <2>1, <2>2 DEF Working, Up
  <2>. QED
    BY <2>1, <2>3, QuietStep
<1>3. CASE Gather \/ Issue \/ OwnDone \/ Complete
  <2>1. UNCHANGED <<modus, mem, latest>>
    BY <1>3 DEF Gather, Issue, OwnDone, Complete, disk
  <2>2. pc[0] \in Saving \cup Filing /\ pc'[0] \in Saving \cup Filing
    BY <1>0, <1>3
    DEF Gather, Scheduling, All, Issue, OwnDone, StartNext, Complete, Signalled, Saving, Filing,
        Early, Late
  <2>. QED
    BY <2>1, <2>2, GoesOn
<1>4. ASSUME NEW t \in Task, Rename(t) \/ Poll(t) \/ OpenWrite(t)
      PROVE  UNCHANGED Abstract!vars
  <2>1. UNCHANGED <<modus, mem, latest>>
    BY <1>4 DEF Rename, Poll, OpenWrite, disk
  <2>2. pc[0] \in Saving \cup Filing
    <3>1. pc[t] \in {"backup", "notify", "open"}
      BY <1>4 DEF Rename, Poll, OpenWrite
    <3>. QED
      BY <1>0, <3>1
      DEF AllInv, IInv, Together, InPart, Saving, Filing, Early, Late
  <2>3. pc'[0] \in Saving \cup Filing
    <3>1. \/ pc' = [pc EXCEPT ![t] = "renamed"] \/ pc' = [pc EXCEPT ![t] = "file"]
          \/ pc'[0] = pc[0]
      BY <1>0, <1>4 DEF Rename, Poll, OpenWrite
    <3>. QED
      BY <1>0, <2>2, <3>1 DEF Saving, Filing
  <2>. QED
    BY <2>1, <2>2, <2>3, GoesOn
<1>5. ASSUME NEW t \in Task, OpenRead(t) \/ FinishRead(t)
      PROVE  Abstract!Next \/ UNCHANGED Abstract!vars
  <2>1. CASE Exits
    BY <2>1, ExitsCheckpoint DEF Abstract!Next
  <2>2. CASE ~Exits
    <3>1. /\ pc[t] \in {"open", "file"} /\ modus = "read" /\ UNCHANGED <<modus, latest>>
          /\ pc' = [pc EXCEPT ![t] = "file"] \/ pc' = [pc EXCEPT ![t] = "notify"]
               \/ pc' = [pc EXCEPT ![t] = "own"]
      BY <1>5, <2>2 DEF OpenRead, FinishRead, Closed, disk
    <3>2. pc[0] \in Saving \cup Filing
      BY <1>0, <3>1 DEF AllInv, IInv, Together, InPart, Saving, Filing, Early, Late
    <3>3. pc'[0] \in Saving \cup Filing
      BY <1>0, <3>1, <3>2 DEF Saving, Filing, Early, Late
    <3>. QED
      BY <3>1, <3>2, <3>3, GoesOn
  <2>. QED
    BY <2>1, <2>2
<1>6. ASSUME NEW t \in Task, FinishWrite(t)
      PROVE  Abstract!Next \/ UNCHANGED Abstract!vars
  BY <1>6, FinishWriteCheckpoint DEF Abstract!Next
<1>7. CASE EndRead
  <2>1. CASE SameTime
    BY <1>7, <2>1, EndReadCheckpoint DEF Abstract!Next
  <2>2. CASE ~SameTime
    BY <1>7, <2>2, ExitsCheckpoint DEF EndRead, Abstract!Next
  <2>. QED
    BY <2>1, <2>2
<1>8. CASE EndWrite
  <2>1. CASE leaving
    BY <1>8, <2>1, ExitsCheckpoint DEF EndWrite, Abstract!Next
  <2>2. CASE ~leaving
    <3>1. /\ \A t \in Task : pc[t] = "done" /\ pc'[t] = "run"
          /\ modus = "write" /\ UNCHANGED <<mem, latest>>
      BY <1>8, <2>2 DEF EndWrite, All, disk
    <3>2. Working /\ Working'
      BY <3>1 DEF Working, Up
    <3>. QED
      BY <3>1, <3>2, QuietStep
  <2>. QED
    BY <2>1, <2>2
<1>9. CASE Crash
  BY <1>9, ExitsCheckpoint DEF Crash, Abstract!Next
<1>10. CASE Resume
  <2>1. pc[0] = "down" /\ pc'[0] = "issue" /\ UNCHANGED <<modus, mem, latest>>
    BY <1>10 DEF Resume, Up, Scheduling, disk
  <2>2. modus = "read"
    BY <2>1 DEF AllInv, IInv, Together
  <2>3. ~Working /\ ~Working'
    BY <2>1, <2>2 DEF Working, Up
  <2>. QED
    BY <2>1, <2>3, QuietStep
<1>11. CASE StartNew
  BY <1>11, <1>lapse, StartNewCheckpoint DEF Abstract!Next, Next
<1>12. CASE Recover \/ Clean
  <2>1. pc[0] = "down" /\ pc' = pc /\ (latest' = NoFile \/ latest' = latest)
    BY <1>12, RecoverHeld DEF Recover, Clean, Up
  <2>2. Working = FALSE /\ Working' = FALSE
    BY <2>1 DEF Working, Up
  <2>3. CASE latest' = latest
    BY <2>2, <2>3, QuietStep
  <2>4. CASE latest' = NoFile
    <3>1. Stored' = -1
      BY <2>4 DEF StoredIsLatest, LatestTime
    <3>. QED
      BY <2>2, <3>1 DEF Abstract!Next, Abstract!Forget, Sound
  <2>. QED
    BY <2>1, <2>3, <2>4
<1>13. CASE UNCHANGED vars
  BY <1>13 DEF vars, Abstract!vars, Working, Up, Stored, Held, Sound
<1>. QED
  BY <1>1, <1>2, <1>3, <1>4, <1>5, <1>6, <1>7, <1>8, <1>9, <1>10, <1>11, <1>12, <1>13, <1>lapse
  DEF Next, Work

\* Every other step is a lapse.
LEMMA StepCheckpoint ==
  ASSUME Basic, Sound => AllInv, (Sound => AllInv)', Sound => StoredIsLatest,
         (Sound => StoredIsLatest)', [Next]_vars
  PROVE  [Abstract!Next]_(Abstract!vars)
<1>1. CASE ~Sound'
  BY <1>1 DEF Abstract!Next, Abstract!Lapse
<1>2. CASE Sound'
  <2>1. CASE Next
    <3>1. Sound
      BY <1>2, <2>1, NoLapse
    <3>. QED
      BY <1>2, <3>1, SoundCheckpoint
  <2>2. CASE UNCHANGED vars
    BY <2>2 DEF vars, Abstract!vars, Working, Up, Stored, Held, Sound
  <2>. QED
    BY <2>1, <2>2
<1>. QED
  BY <1>1, <1>2

\* The restart files implement a checkpoint that is saved at once, wherever the
\* program dies and whatever the user renames: a run that is resumed goes on
\* at the last state saved, and only the user makes that state disappear - or a
\* lapse, a rename or a close that failed unnoticed, or another run that was
\* begun over the files or taken past its end.
THEOREM FilesImplementCheckpoint == Spec => ImplementsCheckpoint
<1>1. Init => Abstract!Init
  <2>1. SUFFICES ASSUME Init PROVE Abstract!Init
    OBVIOUS
  <2>2. Working = FALSE
    BY <2>1, ZeroIsATask DEF Init, Working, Up
  <2>3. Held = {}
    BY <2>1, ZeroIsATask DEF Init, Held, NoFile
  <2>4. Sound = TRUE
    BY <2>1 DEF Init, Sound
  <2>. QED
    BY <2>2, <2>3, <2>4 DEF Abstract!Init, Stored
<1>2. Basic /\ (Sound => AllInv) /\ (Sound => AllInv)' /\ (Sound => StoredIsLatest)
        /\ (Sound => StoredIsLatest)' /\ [Next]_vars
        => [Abstract!Next]_(Abstract!vars)
  BY StepCheckpoint
<1>3. (Sound => AllInv) => (Sound => StoredIsLatest)
  BY StoredSet
<1>. QED
  BY <1>1, <1>2, <1>3, StoredInvariance, BasicInvariance, PTL
  DEF Spec, ImplementsCheckpoint, Abstract!Spec
=============================================================================
