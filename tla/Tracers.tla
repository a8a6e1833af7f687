------------------------------- MODULE Tracers -------------------------------
(***************************************************************************)
(* What the fork of Gadget-4 adds to the main loop of the simulation       *)
(* (src/gadget4/src/main/run.cc): massless tracers of the potential, which *)
(* every step measures, gathers on rank 0 and shifts onto the anchors'     *)
(* centre of mass, and the points where the program is interrupted and     *)
(* restarted.  The call of galotfa between the shift and the next step is  *)
(* the module Monitor.                                                     *)
(*                                                                         *)
(* A call that all ranks must enter (a reduction, a broadcast followed by  *)
(* one, the domain decomposition) is one step of all ranks; MPI_Send and   *)
(* MPI_Recv meet, which is the least that MPI promises.  Positions have    *)
(* one coordinate and anchors have equal masses.  Tracers start at rest    *)
(* and feel no monopole force (gwalk.cc), so only the shift moves them.    *)
(***************************************************************************)
EXTENDS Integers, FiniteSets, SequencesExt

CONSTANTS
  NumRanks,      \* number of processes; rank 0 writes
  Tracer,        \* the ids of the tracers
  StartPos,      \* their positions in the initial conditions
  Anchor,        \* the anchors, by their distance from their centre of mass
  StartGalaxy,   \* where that centre is in the initial conditions
  Drift,         \* how far it may move in a step
  PotOutStep, RecenterSize, RecenterThreshold,   \* parameters of the same name
  MaxLoops,      \* bound of the recentring loop, 25 in the code
  MaxSteps,      \* the step that reaches the final time
  MaxLives,      \* bound: how often the program is started
  Garbage,       \* a position read from memory that was never written
  NaN            \* zero divided by zero

Rank == 0 .. NumRanks - 1
Index == 0 .. Cardinality(Tracer) + Cardinality(Anchor) - 1
INT_MAX == 2147483647

ASSUME RanksAssumption == NumRanks \in Nat \ {0}
ASSUME StepsAssumption ==
  {PotOutStep, MaxLoops, MaxLives} \subseteq Nat \ {0} /\ MaxSteps \in Nat
ASSUME TracerAssumption ==
  /\ IsFiniteSet(Tracer) /\ IsFiniteSet(Anchor)
  /\ Tracer \subseteq Nat
  /\ \A s, t \in Tracer : t - s \in -Cardinality(Tracer) + 1 .. Cardinality(Tracer) - 1
ASSUME PlacesAssumption ==
  /\ StartPos \in [Tracer -> Int]
  /\ {StartGalaxy, RecenterSize} \cup Anchor \cup Drift \subseteq Int
  /\ MapThenSumSet(LAMBDA a : a, Anchor) = 0
  /\ Garbage \notin Int /\ NaN \notin Int

VARIABLES
  step,        \* All.NumCurrentTiStep of every rank
  pc, at,      \* where every rank is
  last,        \* the main loop is left, the block after it runs
  home, anchorHome,   \* the rank that holds each particle
  pos,         \* the tracers' positions
  galaxy,      \* the anchors' centre of mass
  initPos, first,     \* initPos and firstIDofPotTracer of every rank
  center,      \* centerOfMass of every rank
  root,        \* the global arrays of rank 0 and how far they are filled
  file, opened,       \* the outputs in the tracer file; open in this life?
  up, lives,   \* whether the program runs, how often it was started
  disk         \* the last restart file

particles == <<home, anchorHome, galaxy>>
output == <<file, opened>>
life == <<up, lives, disk>>
vars == <<step, pc, at, last, particles, pos, initPos, first, center, root, output, life>>

-----------------------------------------------------------------------------
Nowhere == <<0, 0>>
NoFile == [step |-> -1]

\* What a death leaves of a tracer file that is open, of which nothing is known:
\* the code never flushes it and leaves closing it to the end of the process.
Torn == <<[step |-> -1, rows |-> {}, num |-> 0]>>
All(place) == up /\ \A r \in Rank : pc[r] = place

Own(r) == {t \in Tracer : home[t] = r}
Distance(x, y) == IF x < y THEN y - x ELSE x - y

\* The variables of run() when the program starts.
Fresh ==
  [pc      |-> [r \in Rank |-> "loop"],
   at      |-> [r \in Rank |-> Nowhere],
   initPos |-> [r \in Rank |-> [k \in Index |-> Garbage]],
   first   |-> [r \in Rank |-> INT_MAX],
   center  |-> [r \in Rank |-> 0],
   root    |-> [offset |-> 0, size |-> 0, pot |-> [k \in Index |-> Garbage],
                pos |-> [k \in Index |-> Garbage], ids |-> [k \in Index |-> Garbage]]]

Init ==
  /\ pc = Fresh.pc /\ at = Fresh.at /\ initPos = Fresh.initPos
  /\ first = Fresh.first /\ center = Fresh.center /\ root = Fresh.root
  /\ last = FALSE /\ opened = FALSE
  /\ step = [r \in Rank |-> 0]
  /\ home \in [Tracer -> Rank]
  /\ anchorHome \in [Anchor -> Rank]
  /\ pos = StartPos /\ galaxy = StartGalaxy
  /\ file = <<>>
  /\ up = TRUE /\ lives = 1 /\ disk = NoFile

-----------------------------------------------------------------------------
(* Measuring and gathering.                                                *)

\* What a rank reports of its tracers, in the order of its particles: the
\* ids, and for each a coordinate and a potential of this step.
LocalIDs(r) == SetToSeq(Own(r))
LocalData(r) == [k \in DOMAIN LocalIDs(r) |-> <<LocalIDs(r)[k], step[r]>>]

\* Fill an array from a position on.
Filled(array, from, data) ==
  [k \in Index |-> IF k - from + 1 \in DOMAIN data THEN data[k - from + 1] ELSE array[k]]

\* Rank 0 starts with its own tracers.
RootCopied ==
  [offset |-> Len(LocalIDs(0))', size |-> root.size,
   pot |-> Filled(root.pot, 0, LocalData(0)'),
   pos |-> Filled(root.pos, 0, LocalData(0)'),
   ids |-> Filled(root.ids, 0, LocalIDs(0)')]

\* The next synchronization point: forces and potentials are computed, the
\* particles may change their ranks, and every rank collects its tracers.
Advance ==
  /\ All("loop")
  /\ last' = (step[0] >= MaxSteps)
  /\ \E d \in Drift : galaxy' = galaxy + d
  /\ home' \in [Tracer -> Rank]
  /\ anchorHome' \in [Anchor -> Rank]
  /\ UNCHANGED <<step, pos, initPos, first, center, output, life>>
  /\ IF step[0] % PotOutStep = 0
     THEN /\ pc' = [r \in Rank |-> IF NumRanks = 1 THEN "write" ELSE "gather"]
          /\ at' = [r \in Rank |-> <<IF r = 0 THEN 1 ELSE r, 1>>]
          /\ root' = RootCopied
     ELSE /\ pc' = [r \in Rank |-> "center"]
          /\ at' = [r \in Rank |-> <<1, 0>>]
          /\ UNCHANGED root

\* The order of the messages between a rank and rank 0.
SendOrder == <<"size", "pot", "pos", "ids">>
RecvOrder == <<"size", "pot", "pos", "ids">>

\* Where a rank is when the potentials are out.
AfterOutput(r) ==
  [pc |-> IF step[r] = 0 THEN "first" ELSE "center", at |-> <<1, 0>>]

\* Mutated form of RootNext: rank 0 waits for a rank too many.
RootNextTooFar(i, part) ==
  CASE part < Len(RecvOrder) -> [pc |-> "gather", at |-> <<i, part + 1>>]
    [] part = Len(RecvOrder) /\ i < NumRanks -> [pc |-> "gather", at |-> <<i + 1, 1>>]
    [] OTHER -> [pc |-> "write", at |-> Nowhere]

\* The end of a message for rank 0: the next array or rank, or the writing.
RootNext(i, part) ==
  CASE part < Len(RecvOrder) -> [pc |-> "gather", at |-> <<i, part + 1>>]
    [] part = Len(RecvOrder) /\ i < NumRanks - 1 -> [pc |-> "gather", at |-> <<i + 1, 1>>]
    [] OTHER -> [pc |-> "write", at |-> Nowhere]

\* Mutated form of NextOffset: every rank's data go behind those of rank 0.
NextOffsetForgotten == root.offset

\* Where the data of the rank after the present one go.
NextOffset == root.offset + root.size

\* What rank 0 has after a message.
Received(i, what) ==
  CASE what = "size" -> [root EXCEPT !.size = Len(LocalIDs(i))]
    [] what = "pot" -> [root EXCEPT !.pot = Filled(@, root.offset, LocalData(i))]
    [] what = "pos" -> [root EXCEPT !.pos = Filled(@, root.offset, LocalData(i))]
    [] what = "ids" -> [root EXCEPT !.ids = Filled(@, root.offset, LocalIDs(i)),
                                    !.offset = NextOffset]

\* Rank i sends an array to rank 0, which waits for it.
Transfer(i) ==
  LET part == at[0][2]
      sent == at[i][2]
      next == IF sent < Len(SendOrder) THEN [pc |-> "gather", at |-> <<i, sent + 1>>]
                                       ELSE AfterOutput(i)
  IN  /\ up /\ pc[0] = "gather" /\ pc[i] = "gather"
      /\ at[0][1] = i
      /\ SendOrder[sent] = RecvOrder[part]
      /\ root' = Received(i, RecvOrder[part])
      /\ pc' = [pc EXCEPT ![0] = RootNext(i, part).pc, ![i] = next.pc]
      /\ at' = [at EXCEPT ![0] = RootNext(i, part).at, ![i] = next.at]
      /\ UNCHANGED <<step, last, particles, pos, initPos, first, center, output, life>>

\* Rank 0 writes what it has into a group of the file, which the first call
\* in a life of the program creates anew, whatever it was.  The file is what
\* the HDF5 library holds, on the disk or not, as long as the process lives.
Output ==
  [step |-> step[0],
   rows |-> {[id |-> root.ids[k], pos |-> root.pos[k], pot |-> root.pot[k]] :
               k \in 0 .. root.offset - 1},
   num  |-> root.offset]

Write ==
  /\ up /\ pc[0] = "write"
  /\ file' = (IF opened THEN file ELSE <<>>) \o <<Output>>
  /\ opened' = TRUE
  /\ pc' = [pc EXCEPT ![0] = AfterOutput(0).pc]
  /\ at' = [at EXCEPT ![0] = AfterOutput(0).at]
  /\ UNCHANGED <<step, last, particles, pos, initPos, first, center, root, life>>

-----------------------------------------------------------------------------
(* The backup of the initial positions, at step 0.                         *)

\* The smallest id of a tracer, and the rank's own tracers in its copy.
ReduceFirst ==
  LET low == Min({INT_MAX} \cup UNION {Own(r) : r \in Rank})
  IN  /\ All("first")
      /\ first' = [r \in Rank |-> low]
      /\ initPos' = [r \in Rank |-> [k \in Index |->
                      IF low + k \in Own(r) THEN pos[low + k] ELSE 0]]
      /\ pc' = [r \in Rank |-> "sum"]
      /\ UNCHANGED <<step, at, last, particles, pos, center, root, output, life>>

\* Mutated form of SumInit: every rank keeps the tracers it had.
SumInitForgotten ==
  /\ All("sum")
  /\ pc' = [r \in Rank |-> "center"]
  /\ UNCHANGED <<step, at, last, particles, pos, initPos, first, center, root, output, life>>

\* The copies are added up, and every rank has all of them.
SumInit ==
  /\ All("sum")
  /\ initPos' = [r \in Rank |-> [k \in Index |->
                  MapThenSumSet(LAMBDA s : initPos[s][k], Rank)]]
  /\ pc' = [r \in Rank |-> "center"]
  /\ UNCHANGED <<step, at, last, particles, pos, first, center, root, output, life>>

-----------------------------------------------------------------------------
(* Recentring.                                                             *)

Factor(n) == IF n = 0 THEN 100 ELSE 1

\* The anchors of rank r within the region around the previous centre.
Near(r) ==
  {galaxy + a : a \in {b \in Anchor :
     /\ anchorHome[b] = r
     /\ center[r] # NaN
     /\ Distance(galaxy + b, center[r]) < RecenterSize * Factor(step[r])}}

\* Mutated form of Mean: the sums are not reduced over the ranks.
MeanOfOwn(r) ==
  IF Near(r) = {} THEN NaN
  ELSE MapThenSumSet(LAMBDA x : x, Near(r)) \div Cardinality(Near(r))

\* The centre of mass of all ranks' anchors, as rank r has it.
Mean(r) ==
  LET all == UNION {Near(s) : s \in Rank}
  IN  IF all = {} THEN NaN
      ELSE MapThenSumSet(LAMBDA x : x, all) \div Cardinality(all)

Converged(r) ==
  /\ center[r] # NaN /\ Mean(r) # NaN
  /\ (Mean(r) - center[r]) * (Mean(r) - center[r]) < RecenterThreshold

Leaves(r) == Converged(r) \/ at[r][1] = MaxLoops

\* A backed up position plus the centre.
Shifted(r, t) ==
  LET k == t - first[r]
  IN  IF k \notin Index \/ Mean(r) = NaN THEN Garbage
      ELSE IF initPos[r][k] = Garbage THEN Garbage ELSE initPos[r][k] + Mean(r)

\* Behind the shift: the loop goes on to the check; the block after the loop,
\* which repeats its body, to the end.
Onward == IF last THEN "end" ELSE "check"

\* The main loop counts its steps.
Counted(r) == IF Leaves(r) /\ ~last THEN step[r] + 1 ELSE step[r]

\* A round: reduction, division, test; the ranks that leave the loop shift
\* their tracers and count the step, unless it was the last.
Recenter ==
  /\ All("center")
  /\ \A r \in Rank : at[r] = at[0]
  /\ center' = [r \in Rank |-> Mean(r)]
  /\ pc' = [r \in Rank |-> IF Leaves(r) THEN Onward ELSE "center"]
  /\ at' = [r \in Rank |-> IF Leaves(r) THEN Nowhere ELSE <<at[r][1] + 1, 0>>]
  /\ pos' = [t \in Tracer |-> IF Leaves(home[t]) THEN Shifted(home[t], t) ELSE pos[t]]
  /\ step' = [r \in Rank |-> Counted(r)]
  /\ UNCHANGED <<last, particles, initPos, first, root, output, life>>

-----------------------------------------------------------------------------
(* Interruption and restart.                                               *)

\* What a restart file holds: the particles and the global data, and none of
\* the variables of run().
RestartFile ==
  [step |-> step[0], home |-> home, anchorHome |-> anchorHome, pos |-> pos,
   galaxy |-> galaxy]

\* The initial conditions, for a program that has no restart file.
InitialFile ==
  [step |-> 0, home |-> home, anchorHome |-> anchorHome, pos |-> StartPos,
   galaxy |-> StartGalaxy]

\* The program is down: its memory is lost, and what the next start will find
\* is what it reads from a file and its fresh variables.
Down(saved) ==
  LET start == IF saved = NoFile THEN InitialFile ELSE saved
  IN  /\ up' = FALSE
      /\ step' = [r \in Rank |-> start.step]
      /\ home' = start.home /\ anchorHome' = start.anchorHome
      /\ pos' = start.pos /\ galaxy' = start.galaxy
      /\ pc' = Fresh.pc /\ at' = Fresh.at /\ initPos' = Fresh.initPos
      /\ first' = Fresh.first /\ center' = Fresh.center /\ root' = Fresh.root
      /\ last' = FALSE /\ opened' = FALSE
      /\ UNCHANGED lives

\* After a step: go on, with or without a restart file ...
Check ==
  /\ All("check")
  /\ disk' \in {disk, RestartFile}
  /\ pc' = Fresh.pc
  /\ UNCHANGED <<step, at, last, particles, pos, initPos, first, center, root, output,
                 up, lives>>

\* ... or write one and stop (a stop file, or the limit of the CPU time): exit()
\* runs the handler of HDF5 that closes the tracer file.
Stop == All("check") /\ disk' = RestartFile /\ Down(RestartFile) /\ UNCHANGED file

\* After the last step a restart file is written in any case.
End ==
  /\ All("end")
  /\ disk' = RestartFile
  /\ pc' = [r \in Rank |-> "done"]
  /\ UNCHANGED <<step, at, last, particles, pos, initPos, first, center, root, output, up, lives>>

\* What a death leaves of the tracer file, the middle of a write included.
AfterDeath == IF opened \/ pc[0] = "write" THEN Torn ELSE file

\* The program dies anywhere, and is started again.
Crash == up /\ ~All("done") /\ UNCHANGED disk /\ Down(disk) /\ file' = AfterDeath

Restart ==
  /\ ~up /\ lives < MaxLives
  /\ up' = TRUE /\ lives' = lives + 1
  /\ UNCHANGED <<step, pc, at, last, particles, pos, initPos, first, center, root, output, disk>>

Step ==
  \/ Advance \/ Write \/ ReduceFirst \/ SumInit \/ Recenter \/ Check \/ Stop \/ End
  \/ \E i \in Rank \ {0} : Transfer(i)

Next == Step \/ Crash \/ Restart

\* A running rank takes its next step; nobody has to start the program again.
Spec == Init /\ [][Next]_vars
FairSpec == Spec /\ WF_vars(Step)

-----------------------------------------------------------------------------
Ids == Tracer \cup {Garbage}
\* A step is over, and the ranks shifted their tracers.
Shift == All("check") \/ All("end") \/ All("done")

\* Tracers keep their initial places relative to the anchors' centre of mass
\* (src/README.md: "tracers are rigidly attached").
RigidlyAttached ==
  Shift => \A t \in Tracer : pos[t] = StartPos[t] + galaxy

\* The same for a program that took the backup itself: recentring follows a
\* moving galaxy, on every rank, whoever holds the particles.
AttachedSinceBackup ==
  (\A r \in Rank : first[r] # INT_MAX) => RigidlyAttached

\* Ranks leave the recentring loop in the same round, with the same centre,
\* so that their next collective calls match.
RecentreTogether ==
  \A r \in Rank : pc[r] \in {"center", "check", "end"} /\ pc[0] \in {"center", "check", "end"}
                    => pc[r] = pc[0] /\ at[r] = at[0] /\ center[r] = center[0]

\* In the file of a running program, and in what it leaves when it stops or dies
\* before its first output, an output has every tracer once, each with its own
\* coordinate and potential of that step, whatever rank it came from.  A death
\* later leaves a file of which nothing is known, which no life goes on with
\* (run.cc 1194-1277).
OutputsComplete ==
  /\ opened => file # Torn
  /\ file # Torn =>
       \A n \in DOMAIN file :
         /\ file[n].num = Cardinality(Tracer)
         /\ file[n].rows = {[id |-> t, pos |-> <<t, file[n].step>>, pot |-> <<t, file[n].step>>] :
                              t \in Tracer}

\* A step ends, unless the program dies: no rank waits for ever for a message
\* or in the recentring loop.
StepsEnd == All("loop") ~> (Shift \/ ~up)
=============================================================================
