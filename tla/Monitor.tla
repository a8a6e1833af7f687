------------------------------- MODULE Monitor -------------------------------
(***************************************************************************)
(* monitor::run_with on every MPI rank (src/src/engine/monitor.cpp) and    *)
(* the collective calls it makes through the calculator                    *)
(* (src/src/engine/calculator.cpp).                                        *)
(*                                                                         *)
(* The simulation calls run_with once per synchronized time step on every  *)
(* rank.  A rank extracts its target particles, recentres (a loop of       *)
(* MPI_Allreduce whose length EACH RANK decides from its own copy of the   *)
(* centre), runs the model analysis (a list of MPI_Allreduce, one of them  *)
(* conditional), the root pushes one row per model file, everybody meets   *)
(* in the MPI_Bcast of save(), releases its buffers and counts the step.   *)
(*                                                                         *)
(* An MPI_Allreduce lets nobody leave before everybody has entered it; the *)
(* MPI_Bcast lets the root leave at once, so the root may run ahead.  The  *)
(* local computation that follows an Allreduce touches only the state of   *)
(* its own rank, so it is taken together with the reduction, on all ranks. *)
(***************************************************************************)
EXTENDS Naturals, Sequences

CONSTANTS
  Rank,          \* the processes of MPI_COMM_WORLD
  Root,          \* the one that owns the output files (rank 0)
  Calls,         \* how many synchronized time steps the simulation makes
  Period,        \* the period of every analysis module that is switched on
  NumSets,       \* number of target sets, one model file each
  Sites,         \* the Allreduce sites the options select in call_md_module
  MaxIter,       \* Global/max_iter
  Method,        \* Pre/recenter_method: "com" or "density"
  Center,        \* positions the centre may take
  Offset,        \* pixel offsets the reduced density image may yield
  Moved(_, _),   \* Moved(c, d): the centre c moved by the pixel offset d
  Close(_, _),   \* Close(c, d): norm(c - d) is within convergence_threshold
  Memory         \* what the memory of a fresh calculator may hold as centre

ASSUME RankAssumption == Root \in Rank
ASSUME CallsAssumption == Calls \in Nat
ASSUME PeriodAssumption ==
  /\ DOMAIN Period \subseteq {"md", "ptc", "orb", "grp"}
  /\ \A m \in DOMAIN Period : Period[m] \in Nat \ {0}
ASSUME SetsAssumption == NumSets \in Nat \ {0}
\* para::check switches md_sbar on whenever md_bar_radius is on
ASSUME SitesAssumption ==
  /\ Sites \in Seq({"axis", "sbar", "sbuckle", "an", "radius", "dispersion"})
  /\ \A k \in DOMAIN Sites :
        Sites[k] = "radius" => \E j \in 1 .. k - 1 : Sites[j] = "sbar"
ASSUME CenterAssumption ==
  /\ MaxIter \in Nat \ {0}
  /\ Method \in {"com", "density"}
  /\ Memory \subseteq Center
  /\ Memory # {}
  /\ \A c \in Center, d \in Offset : Moved(c, d) \in Center
  /\ \A c, d \in Center : Close(c, d) \in BOOLEAN

VARIABLES
  step,      \* monitor::step of every rank
  pc,        \* where every rank is: outside run_with or in a collective call
  idx,       \* which collective call: <<iteration, 0>> or <<set, site>>
  center,    \* calculator::system_center of every rank
  sel,       \* the centre around which id_for_model was last selected
  strong,    \* whether s_bar reached bar_threshold in the current set
  held,      \* the modules whose index arrays are allocated
  ptcReady,  \* whether the root has created the particle datasets
  rows       \* the rows the root has pushed into every model file

vars == <<step, pc, idx, center, sel, strong, held, ptcReady, rows>>

-----------------------------------------------------------------------------
On == DOMAIN Period

\* need_ana_model, need_ana_particle, need_log_orbit, need_ana_group
Need(m, s) == m \in On /\ s % Period[m] = 0
NeedAna(s) == \E m \in On : Need(m, s)

\* The modules extractor() allocates index arrays for (none for groups).
Extracted(s) == {m \in {"md", "ptc", "orb"} : Need(m, s)}

Nowhere == <<0, 0>>

\* bar_radius is called only when the bar of this set is strong enough.
NextSite(k, bar) ==
  IF k < Len(Sites) /\ Sites[k + 1] = "radius" /\ ~bar THEN k + 2 ELSE k + 1

\* Where inject_data goes once the analysis is over: save() on every rank,
\* which for the others than the root is the Bcast alone.
Saving(r) == IF r = Root THEN "save" ELSE "bcast"

\* The first collective call of inject_data at step s.
Injected(r, s) == IF NeedAna(s) THEN "pre" ELSE Saving(r)
InjectedIdx(s) == IF NeedAna(s) THEN <<1, 0>> ELSE Nowhere

\* Where call_pre_module returns to.
InModel(s) == Need("md", s) /\ Sites # <<>>
AfterPre(r) == IF InModel(step[r]) THEN "model" ELSE Saving(r)
AfterPreIdx(r) == IF InModel(step[r]) THEN <<1, 1>> ELSE Nowhere

-----------------------------------------------------------------------------
Init ==
  /\ step = [r \in Rank |-> 0]
  /\ pc = [r \in Rank |-> "caller"]
  /\ idx = [r \in Rank |-> Nowhere]
  /\ center \in [Rank -> Memory]
  /\ sel = center
  /\ strong = [r \in Rank |-> FALSE]
  /\ held = [r \in Rank |-> {}]
  /\ ptcReady = FALSE
  /\ rows = [i \in 1 .. NumSets |-> <<>>]

\* Every rank found the same bytes where its calculator was allocated.
InitSame == Init /\ \A p, q \in Rank : center[p] = center[q]

\* Mutated form of Selection: the particles of the first step are kept.
SelectionOnce(r) == IF step[r] = 0 THEN [sel EXCEPT ![r] = center[r]] ELSE sel

\* extractor() selects around the centre the calculator holds right now,
\* that of the previous analysis or, at first, what its memory held.
Selection(r) ==
  IF Need("md", step[r]) THEN [sel EXCEPT ![r] = center[r]] ELSE sel

\* The simulation hands over one time step: extractor(), then either the
\* reduction of the particle numbers (first step only) or inject_data().
RunWith(r) ==
  /\ pc[r] = "caller"
  /\ step[r] < Calls
  /\ held' = [held EXCEPT ![r] = @ \cup Extracted(step[r])]
  /\ sel' = Selection(r)
  /\ IF step[r] = 0 /\ "ptc" \in On
       THEN /\ pc' = [pc EXCEPT ![r] = "particle"]
            /\ idx' = [idx EXCEPT ![r] = Nowhere]
       ELSE /\ pc' = [pc EXCEPT ![r] = Injected(r, step[r])]
            /\ idx' = [idx EXCEPT ![r] = InjectedIdx(step[r])]
  /\ UNCHANGED <<step, center, strong, ptcReady, rows>>

\* Every rank waits in the same Allreduce.
AllAt(where, i) == \A r \in Rank : pc[r] = where /\ idx[r] = i

\* The particle numbers are summed and the root creates the datasets.
ReduceParticle ==
  /\ AllAt("particle", Nowhere)
  /\ ptcReady' = TRUE
  /\ pc' = [r \in Rank |-> Injected(r, step[r])]
  /\ idx' = [r \in Rank |-> InjectedIdx(step[r])]
  /\ UNCHANGED <<step, center, sel, strong, held, rows>>

\* Mutated form of Recentred: the local sums are not added up over the ranks.
RecentredLocally(k) == [Rank -> Center]

\* The centres an iteration may end with.  The anchors are selected once, so
\* their centre of mass is the same in every iteration and on every rank; the
\* densest pixel is the same pixel of every rank's own window.
Recentred(k) ==
  IF Method = "com"
    THEN {[r \in Rank |-> c] : c \in IF k = 1 THEN Center ELSE {center[Root]}}
    ELSE {[r \in Rank |-> Moved(center[r], d)] : d \in Offset}

\* One iteration of the recentring loop: the reduction, then every rank
\* compares its new centre with its own old one and leaves the loop or not.
ReducePre(k) ==
  /\ AllAt("pre", <<k, 0>>)
  /\ center' \in Recentred(k)
  /\ LET done(r) == k = MaxIter \/ Close(center[r], center'[r])
     IN  /\ pc' = [r \in Rank |-> IF done(r) THEN AfterPre(r) ELSE "pre"]
         /\ idx' = [r \in Rank |-> IF done(r) THEN AfterPreIdx(r)
                                              ELSE <<k + 1, 0>>]
  /\ UNCHANGED <<step, sel, strong, held, ptcReady, rows>>

\* One Allreduce of the model analysis of set i.
ReduceModel(i, k) ==
  /\ AllAt("model", <<i, k>>)
  /\ strong' \in IF Sites[k] = "sbar"
                   THEN {[r \in Rank |-> bar] : bar \in BOOLEAN}
                   ELSE {strong}
  /\ LET next(r) == NextSite(k, strong'[r])
         over(r) == next(r) > Len(Sites)
     IN  /\ pc' = [r \in Rank |->
                     IF over(r) /\ i = NumSets THEN Saving(r) ELSE "model"]
         /\ idx' = [r \in Rank |->
                     IF ~over(r) THEN <<i, next(r)>>
                     ELSE IF i < NumSets THEN <<i + 1, 1>> ELSE Nowhere]
  /\ UNCHANGED <<step, center, sel, held, ptcReady, rows>>

Row == [step |-> step[Root], center |-> center[Root], sel |-> sel[Root]]

\* save() on the root: one row per model file, then into the Bcast.
Save ==
  /\ pc[Root] = "save"
  /\ rows' = IF Need("md", step[Root])
               THEN [i \in 1 .. NumSets |-> Append(rows[i], Row)]
               ELSE rows
  /\ pc' = [pc EXCEPT ![Root] = "bcast"]
  /\ UNCHANGED <<step, idx, center, sel, strong, held, ptcReady>>

\* Mutated form of Broadcast: save() without its MPI_Bcast.
NoBroadcast(r) == TRUE

\* The root has entered the Bcast that rank r waits in.
Broadcast(r) ==
  \/ r = Root
  \/ step[r] < step[Root]
  \/ step[r] = step[Root] /\ pc[Root] = "bcast"

\* Mutated forms of Return: ++step before release_once(), and ++step twice.
ReturnCountingFirst(r) ==
  /\ pc[r] = "bcast"
  /\ Broadcast(r)
  /\ step' = [step EXCEPT ![r] = @ + 1]
  /\ held' = [held EXCEPT ![r] = @ \ Extracted(step'[r])]
  /\ pc' = [pc EXCEPT ![r] = "caller"]
  /\ UNCHANGED <<idx, center, sel, strong, ptcReady, rows>>
ReturnCountingTwice(r) ==
  /\ pc[r] = "bcast"
  /\ Broadcast(r)
  /\ held' = [held EXCEPT ![r] = @ \ Extracted(step[r])]
  /\ step' = [step EXCEPT ![r] = @ + 2]
  /\ pc' = [pc EXCEPT ![r] = "caller"]
  /\ UNCHANGED <<idx, center, sel, strong, ptcReady, rows>>

\* Leave the Bcast of save(), release_once(), ++step.  The return code that
\* is broadcast is always 0, so the early return of run_with is never taken.
Return(r) ==
  /\ pc[r] = "bcast"
  /\ Broadcast(r)
  /\ held' = [held EXCEPT ![r] = @ \ Extracted(step[r])]
  /\ step' = [step EXCEPT ![r] = @ + 1]
  /\ pc' = [pc EXCEPT ![r] = "caller"]
  /\ UNCHANGED <<idx, center, sel, strong, ptcReady, rows>>

\* The simulation is over: the destructor of the static monitor.
Stop(r) ==
  /\ pc[r] = "caller"
  /\ step[r] = Calls
  /\ pc' = [pc EXCEPT ![r] = "stopped"]
  /\ UNCHANGED <<step, idx, center, sel, strong, held, ptcReady, rows>>

Finished == (\A r \in Rank : pc[r] = "stopped") /\ UNCHANGED vars

Reduce ==
  \/ ReduceParticle
  \/ \E k \in 1 .. MaxIter : ReducePre(k)
  \/ \E i \in 1 .. NumSets, k \in 1 .. Len(Sites) : ReduceModel(i, k)

Next ==
  \/ \E r \in Rank : RunWith(r) \/ Return(r) \/ Stop(r)
  \/ Reduce
  \/ Save
  \/ Finished

\* Whatever the memory held (the code does not initialise system_center).
Spec == Init /\ [][Next]_vars

\* The memory held the same bytes on every rank, for instance zeroed pages.
SpecSame == InitSame /\ [][Next]_vars

\* Every rank keeps running and MPI completes what everybody has entered.
Fairness ==
  /\ \A r \in Rank : WF_vars(RunWith(r)) /\ WF_vars(Return(r)) /\ WF_vars(Stop(r))
  /\ WF_vars(Reduce)
  /\ WF_vars(Save)

FairSpecSame == SpecSame /\ Fairness
-----------------------------------------------------------------------------
Places == {"caller", "particle", "pre", "model", "save", "bcast", "stopped"}
RowType == [step : Nat, center : Center, sel : Center]

\* The shape of the state of every rank and of the model files.
TypeOK ==
  /\ step \in [Rank -> 0 .. Calls]
  /\ pc \in [Rank -> Places]
  /\ idx \in [Rank -> Nat \X Nat]
  /\ center \in [Rank -> Center]
  /\ sel \in [Rank -> Center]
  /\ strong \in [Rank -> BOOLEAN]
  /\ held \in [Rank -> SUBSET {"md", "ptc", "orb"}]
  /\ ptcReady \in BOOLEAN
  /\ rows \in [1 .. NumSets -> Seq(RowType)]

\* Rank r waits in an MPI_Allreduce.
Waiting(r) == pc[r] \in {"particle", "pre", "model"}

\* Rank q has yet to reach the collective call that p waits in: it has not
\* been called for that step, or it is in the Bcast of an earlier step.
YetToCome(p, q) ==
  \/ pc[q] = "caller" /\ step[q] <= step[p]
  \/ pc[q] = "bcast" /\ step[q] < step[p]

\* While a rank waits in an Allreduce, every other rank waits in that very
\* same one or has yet to come: no two ranks ever pair different collective
\* calls, although each decides alone how often it iterates (calculator.cpp
\* 266-291, 294-335) and whether it measures the bar (392-410).
CollectivesMatch ==
  \A p, q \in Rank :
    Waiting(p) =>
      \/ step[q] = step[p] /\ pc[q] = pc[p] /\ idx[q] = idx[p]
      \/ YetToCome(p, q)

\* All ranks subtract the same centre from their particles, so that what the
\* Allreduces of call_md_module add up is expressed in one frame
\* (calculator.cpp 369-372).
OneFrame ==
  \A p, q \in Rank :
    pc[p] = "model" /\ pc[q] = "model" => center[p] = center[q]

\* No rank comes back from a step of the model analysis before its row is in
\* every model file, and no step has two rows: save() and its Bcast order the
\* root's writes before everybody's return (monitor.cpp 179-305, 556).
RowsBeforeReturn ==
  \A i \in 1 .. NumSets :
    /\ \A r \in Rank, s \in 0 .. Calls :
         Need("md", s) /\ s < step[r] => \E k \in DOMAIN rows[i] : rows[i][k].step = s
    /\ \A k, l \in DOMAIN rows[i] : k < l => rows[i][k].step < rows[i][l].step

\* Between two calls no index array is allocated and all counters of selected
\* particles are zero: release_once() asks the same need_ana_* as extractor()
\* did, so it must run before ++step (monitor.cpp 563-566, 591-633).
NoBufferOutlivesTheCall ==
  \A r \in Rank : pc[r] \in {"caller", "stopped"} => held[r] = {}

\* The rows of a model file are about particles selected around the centre of
\* the analysis BEFORE, not around the one stored in the row: extractor() runs
\* at monitor.cpp 538, the recentring at 555, although README.md:331 has the
\* origin aligned to the centre.  Every analysis recentres, also one of another
\* module between two rows, of which the rows keep no centre.
SelectedAroundThePreviousCenter ==
  \A i \in 1 .. NumSets : \A k \in 2 .. Len(rows[i]) :
    (\A s \in rows[i][k - 1].step + 1 .. rows[i][k].step - 1 : ~NeedAna(s)) =>
      rows[i][k].sel = rows[i][k - 1].center

\* No rank enters an analysis step while another is still analysing an earlier
\* one; the root may leave others behind only across steps without analysis.
NobodyOvertakesAnAnalysis ==
  [][\A p, q \in Rank :
       Waiting(p) /\ step[q]' > step[q] => step[q] < step[p]]_vars

\* Every call of run_with returns (no rank hangs in a collective call).
EveryCallReturns ==
  \A r \in Rank : (pc[r] \notin {"caller", "stopped"}) ~> (pc[r] = "caller")

=============================================================================
