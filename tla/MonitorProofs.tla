---------------------------- MODULE MonitorProofs ----------------------------
(***************************************************************************)
(* Proofs about Monitor, for any number of ranks, steps, target sets,      *)
(* Allreduce sites and iterations, any periods and any geometry of the     *)
(* centres.                                                                *)
(***************************************************************************)
EXTENDS Monitor, TLAPS

-----------------------------------------------------------------------------
(***************************************************************************)
(* The inductive invariants, each a strengthening of one that TLC checks.  *)
(***************************************************************************)

\* A rank inside a call still has that call to count; a stopped one has none.
StepsCounted ==
  \A r \in Rank :
    /\ pc[r] \notin {"caller", "stopped"} => step[r] < Calls
    /\ pc[r] = "stopped" => step[r] = Calls

TypeInv == TypeOK /\ StepsCounted

\* What is allocated inside a call is what that call's release_once() frees.
BuffersInv ==
  \A r \in Rank :
    held[r] \subseteq
      IF pc[r] \in {"caller", "stopped"} THEN {} ELSE Extracted(step[r])

\* The steps the root has broadcast the end of are those before this one.
Broadcasted == step[Root] + (IF pc[Root] = "bcast" THEN 1 ELSE 0)

\* A model file holds the rows of the analysis steps before b: all of them, no
\* others, in order and once each.
RowsUpTo(file, b) ==
  /\ \A s \in 0 .. Calls :
       Need("md", s) /\ s < b => \E k \in DOMAIN file : file[k].step = s
  /\ \A k \in DOMAIN file : file[k].step < b
  /\ \A k, l \in DOMAIN file : k < l => file[k].step < file[l].step

\* The rows are exactly those of the steps that were broadcast, in order, and
\* nobody is past these steps.
RowsInv ==
  /\ \A r \in Rank : pc[r] = "save" => r = Root
  /\ \A r \in Rank : step[r] <= Broadcasted
  /\ \A i \in 1 .. NumSets : RowsUpTo(rows[i], Broadcasted)

\* Rank r has left the last Allreduce of step s behind.
Past(r, s) ==
  \/ step[r] > s
  \/ step[r] = s /\ pc[r] \in {"save", "bcast"}

\* Rank r waits in the first Allreduce of its step.
AtFirst(r) ==
  IF step[r] = 0 /\ "ptc" \in On
    THEN pc[r] = "particle" /\ idx[r] = Nowhere
    ELSE pc[r] = "pre" /\ idx[r] = <<1, 0>>

\* All ranks hold the same centre and the same verdict on the bar, so they
\* leave a step of analysis together; those that wait, wait in one place, and
\* it is the first one as long as somebody is missing.
TogetherInv ==
  /\ \A p, q \in Rank : center[p] = center[q] /\ strong[p] = strong[q]
  /\ \A p, q \in Rank, s \in 0 .. Calls :
       NeedAna(s) /\ Past(p, s) => Past(q, s)
  /\ \A p \in Rank : Waiting(p) => NeedAna(step[p])
  /\ \A p, q \in Rank :
       Waiting(p) /\ Waiting(q) =>
         step[p] = step[q] /\ pc[p] = pc[q] /\ idx[p] = idx[q]
  /\ \A p, q \in Rank : Waiting(p) /\ ~Waiting(q) => AtFirst(p)

-----------------------------------------------------------------------------
(***************************************************************************)
(* Type correctness.                                                       *)
(***************************************************************************)

\* A place of the control and the index that goes with it have their types.
LEMMA PlaceTypes ==
  ASSUME NEW r \in Rank, NEW s \in Nat
  PROVE  /\ Saving(r) \in Places
         /\ Injected(r, s) \in Places
         /\ InjectedIdx(s) \in Nat \X Nat
         /\ AfterPre(r) \in Places
         /\ AfterPreIdx(r) \in Nat \X Nat
         /\ Nowhere \in Nat \X Nat
BY DEF Saving, Injected, InjectedIdx, AfterPre, AfterPreIdx, Nowhere, Places

\* Whatever a recentring iteration yields is a centre on every rank.
LEMMA RecentredTypes ==
  ASSUME TypeOK, NEW k \in Nat, NEW c \in Recentred(k)
  PROVE  c \in [Rank -> Center]
<1>1. CASE Method = "com"
  <2>1. center[Root] \in Center
    BY RankAssumption DEF TypeOK
  <2>2. QED
    BY <1>1, <2>1 DEF Recentred
<1>2. CASE Method # "com"
  <2>1. \A r \in Rank, d \in Offset : Moved(center[r], d) \in Center
    BY CenterAssumption DEF TypeOK
  <2>2. PICK d \in Offset : c = [r \in Rank |-> Moved(center[r], d)]
    BY <1>2 DEF Recentred
  <2>3. QED
    BY <2>1, <2>2
<1>3. QED
  BY <1>1, <1>2

\* The initial state is typed.
LEMMA InitTypes == Init => TypeOK
<1>1. SUFFICES ASSUME Init PROVE TypeOK
  OBVIOUS
<1>2. step \in [Rank -> 0 .. Calls]
  BY <1>1, CallsAssumption DEF Init
<1>3. pc \in [Rank -> Places]
  BY <1>1 DEF Init, Places
<1>4. idx \in [Rank -> Nat \X Nat]
  BY <1>1 DEF Init, Nowhere
<1>5. center \in [Rank -> Center] /\ sel \in [Rank -> Center]
  BY <1>1, CenterAssumption DEF Init
<1>6. rows \in [1 .. NumSets -> Seq(RowType)]
  <2>1. <<>> \in Seq(RowType)
    OBVIOUS
  <2>2. QED
    BY <1>1, <2>1 DEF Init
<1>7. QED
  BY <1>1, <1>2, <1>3, <1>4, <1>5, <1>6 DEF Init, TypeOK

\* Entering run_with keeps the types.
LEMMA RunWithTypes ==
  ASSUME TypeOK, NEW r \in Rank, RunWith(r)
  PROVE  TypeOK'
<1>1. step[r] \in Nat
  BY DEF TypeOK
<1>2. held' \in [Rank -> SUBSET {"md", "ptc", "orb"}]
  BY DEF RunWith, TypeOK, Extracted
<1>3. sel' \in [Rank -> Center]
  BY DEF RunWith, Selection, TypeOK
<1>4. pc' \in [Rank -> Places] /\ idx' \in [Rank -> Nat \X Nat]
  <2>1. "particle" \in Places
    BY DEF Places
  <2>2. /\ Injected(r, step[r]) \in Places
        /\ InjectedIdx(step[r]) \in Nat \X Nat
        /\ Nowhere \in Nat \X Nat
    BY <1>1, PlaceTypes
  <2>3. /\ \E w \in Places : pc' = [pc EXCEPT ![r] = w]
        /\ \E i \in Nat \X Nat : idx' = [idx EXCEPT ![r] = i]
    BY <2>1, <2>2 DEF RunWith
  <2>4. QED
    BY <2>3 DEF TypeOK
<1>5. QED
  BY <1>2, <1>3, <1>4 DEF RunWith, TypeOK

\* Completing an Allreduce keeps the types.
LEMMA ReduceParticleTypes ==
  ASSUME TypeOK, ReduceParticle
  PROVE  TypeOK'
<1>1. \A r \in Rank : step[r] \in Nat
  BY DEF TypeOK
<1>2. pc' \in [Rank -> Places] /\ idx' \in [Rank -> Nat \X Nat]
  BY <1>1, PlaceTypes DEF ReduceParticle
<1>3. QED
  BY <1>2 DEF ReduceParticle, TypeOK

LEMMA ReducePreTypes ==
  ASSUME TypeOK, NEW k \in 1 .. MaxIter, ReducePre(k)
  PROVE  TypeOK'
<1>1. center' \in [Rank -> Center]
  BY RecentredTypes DEF ReducePre
<1>2. pc' \in [Rank -> Places] /\ idx' \in [Rank -> Nat \X Nat]
  <2>1. "pre" \in Places /\ <<k + 1, 0>> \in Nat \X Nat
    BY DEF Places
  <2>2. \A r \in Rank : AfterPre(r) \in Places /\ AfterPreIdx(r) \in Nat \X Nat
    BY PlaceTypes DEF TypeOK
  <2>3. QED
    BY <2>1, <2>2 DEF ReducePre
<1>3. QED
  BY <1>1, <1>2 DEF ReducePre, TypeOK

LEMMA ReduceModelTypes ==
  ASSUME TypeOK, NEW i \in 1 .. NumSets, NEW k \in 1 .. Len(Sites),
         ReduceModel(i, k)
  PROVE  TypeOK'
<1>1. strong' \in [Rank -> BOOLEAN]
  BY DEF ReduceModel, TypeOK
<1>2. \A b \in BOOLEAN : NextSite(k, b) \in Nat
  BY DEF NextSite
<1>3. pc' \in [Rank -> Places] /\ idx' \in [Rank -> Nat \X Nat]
  <2>1. "model" \in Places /\ \A r \in Rank : Saving(r) \in Places
    BY PlaceTypes DEF Places
  <2>2. pc' \in [Rank -> Places]
    BY <2>1 DEF ReduceModel
  <2>3. \A r \in Rank : <<i, NextSite(k, strong'[r])>> \in Nat \X Nat
    BY <1>1, <1>2
  <2>4. <<i + 1, 1>> \in Nat \X Nat /\ Nowhere \in Nat \X Nat
    BY DEF Nowhere
  <2>5. idx' \in [Rank -> Nat \X Nat]
    BY <2>3, <2>4 DEF ReduceModel
  <2>6. QED
    BY <2>2, <2>5
<1>4. QED
  BY <1>1, <1>3 DEF ReduceModel, TypeOK

\* The row is typed and so are the files it is pushed into.
LEMMA SaveTypes ==
  ASSUME TypeOK, Save
  PROVE  TypeOK'
<1>1. Row \in RowType
  BY RankAssumption, CallsAssumption DEF TypeOK, Row, RowType
<1>2. rows' \in [1 .. NumSets -> Seq(RowType)]
  <2>1. \A i \in 1 .. NumSets : Append(rows[i], Row) \in Seq(RowType)
    <3>1. \A i \in 1 .. NumSets : rows[i] \in Seq(RowType)
      BY DEF TypeOK
    <3>2. QED
      BY <1>1, <3>1
  <2>2. QED
    BY <2>1 DEF Save, TypeOK
<1>3. pc' \in [Rank -> Places]
  BY RankAssumption DEF Save, TypeOK, Places
<1>4. QED
  BY <1>2, <1>3 DEF Save, TypeOK

\* The Bcast is followed by ++step, which stays within the calls.
LEMMA ReturnTypes ==
  ASSUME TypeInv, NEW r \in Rank, Return(r)
  PROVE  TypeOK'
<1>1. step' \in [Rank -> 0 .. Calls]
  <2>1. step \in [Rank -> 0 .. Calls]
    BY DEF TypeInv, TypeOK
  <2>2. step[r] < Calls
    BY DEF Return, TypeInv, StepsCounted
  <2>3. step[r] + 1 \in 0 .. Calls
    BY <2>1, <2>2, CallsAssumption
  <2>4. QED
    BY <2>1, <2>3 DEF Return
<1>2. pc' \in [Rank -> Places]
  BY DEF Return, TypeInv, TypeOK, Places
<1>3. held' \in [Rank -> SUBSET {"md", "ptc", "orb"}]
  BY DEF Return, TypeInv, TypeOK
<1>4. QED
  BY <1>1, <1>2, <1>3 DEF Return, TypeInv, TypeOK

\* The destructor changes the place of the rank only.
LEMMA StopTypes ==
  ASSUME TypeOK, NEW r \in Rank, Stop(r)
  PROVE  TypeOK'
BY DEF Stop, TypeOK, Places

\* The steps stay counted: an Allreduce is entered and left inside a call.
LEMMA StepsCountedKept ==
  ASSUME TypeInv, [Next]_vars
  PROVE  StepsCounted'
<1>1. CASE \E r \in Rank : RunWith(r)
  <2>1. PICK r \in Rank : RunWith(r)
    BY <1>1
  <2>2. step' = step /\ step[r] < Calls
    BY <2>1 DEF RunWith
  <2>3. pc'[r] # "stopped" /\ \A q \in Rank \ {r} : pc'[q] = pc[q]
    BY <2>1 DEF RunWith, TypeInv, TypeOK, Injected, Saving
  <2>4. QED
    BY <2>2, <2>3 DEF TypeInv, StepsCounted
<1>2. CASE \E r \in Rank : Return(r)
  BY <1>2, CallsAssumption DEF Return, TypeInv, TypeOK, StepsCounted
<1>3. CASE \E r \in Rank : Stop(r)
  BY <1>3, CallsAssumption DEF Stop, TypeInv, TypeOK, StepsCounted
<1>4. CASE Reduce
  <2>1. \A r \in Rank : step[r] < Calls
    BY <1>4 DEF Reduce, ReduceParticle, ReducePre, ReduceModel, AllAt,
                TypeInv, StepsCounted
  <2>2. step' = step /\ \A r \in Rank : pc'[r] # "stopped"
    BY <1>4 DEF Reduce, ReduceParticle, ReducePre, ReduceModel,
                Injected, AfterPre, Saving
  <2>3. QED
    BY <2>1, <2>2 DEF StepsCounted
<1>5. CASE Save
  BY <1>5 DEF Save, TypeInv, TypeOK, StepsCounted
<1>6. CASE UNCHANGED vars
  BY <1>6 DEF vars, TypeInv, StepsCounted
<1>7. QED
  BY <1>1, <1>2, <1>3, <1>4, <1>5, <1>6 DEF Next, Finished

\* The type invariant with the counted steps is inductive.
LEMMA TypeInvStep == TypeInv /\ [Next]_vars => TypeInv'
<1>1. SUFFICES ASSUME TypeInv, [Next]_vars PROVE TypeOK'
  BY StepsCountedKept DEF TypeInv
<1>2. TypeOK
  BY <1>1 DEF TypeInv
<1>3. CASE \E r \in Rank : RunWith(r) \/ Return(r) \/ Stop(r)
  BY <1>1, <1>2, <1>3, RunWithTypes, ReturnTypes, StopTypes
<1>4. CASE Reduce
  BY <1>2, <1>4, ReduceParticleTypes, ReducePreTypes, ReduceModelTypes
     DEF Reduce
<1>5. CASE Save
  BY <1>2, <1>5, SaveTypes
<1>6. CASE UNCHANGED vars
  BY <1>2, <1>6 DEF vars, TypeOK
<1>7. QED
  BY <1>1, <1>3, <1>4, <1>5, <1>6 DEF Next, Finished

\* TypeInv holds throughout, whatever memory the calculators were given.
LEMMA TypeInvHolds == Spec => []TypeInv
<1>1. Init => StepsCounted
  BY DEF Init, StepsCounted
<1>2. Init => TypeInv
  BY <1>1, InitTypes DEF TypeInv
<1>3. QED
  BY <1>2, TypeInvStep, PTL DEF Spec

\* Every rank's state keeps its shape and ++step never passes the number of
\* calls the simulation makes.
THEOREM TypeCorrect == Spec => []TypeOK
<1>1. TypeInv => TypeOK
  BY DEF TypeInv
<1>2. QED
  BY <1>1, TypeInvHolds, PTL

-----------------------------------------------------------------------------
(***************************************************************************)
(* Buffers.                                                                *)
(***************************************************************************)

\* What a call allocates is what that call releases.
LEMMA BuffersInvStep == TypeInv /\ BuffersInv /\ [Next]_vars => BuffersInv'
<1>1. SUFFICES ASSUME TypeOK, BuffersInv, [Next]_vars PROVE BuffersInv'
  BY DEF TypeInv
<1>2. CASE \E r \in Rank : RunWith(r)
  <2>1. PICK r \in Rank : RunWith(r)
    BY <1>2
  <2>2. held'[r] \subseteq Extracted(step'[r])
    BY <1>1, <2>1 DEF RunWith, TypeOK, BuffersInv
  <2>3. pc'[r] \notin {"caller", "stopped"}
    BY <1>1, <2>1 DEF RunWith, TypeOK, Injected, Saving
  <2>4. \A q \in Rank \ {r} :
          held'[q] = held[q] /\ pc'[q] = pc[q] /\ step'[q] = step[q]
    BY <1>1, <2>1 DEF RunWith, TypeOK
  <2>5. QED
    BY <1>1, <2>2, <2>3, <2>4 DEF BuffersInv, Extracted, Need, On
<1>3. CASE \E r \in Rank : Return(r)
  <2>1. PICK r \in Rank : Return(r)
    BY <1>3
  <2>2. held'[r] = {}
    BY <1>1, <2>1 DEF Return, TypeOK, BuffersInv
  <2>3. \A q \in Rank \ {r} :
          held'[q] = held[q] /\ pc'[q] = pc[q] /\ step'[q] = step[q]
    BY <1>1, <2>1 DEF Return, TypeOK
  <2>4. QED
    BY <1>1, <2>2, <2>3 DEF BuffersInv, Extracted, Need, On
<1>4. CASE \E r \in Rank : Stop(r)
  BY <1>1, <1>4 DEF Stop, TypeOK, BuffersInv, Extracted, Need, On
<1>5. CASE Reduce
  <2>1. held' = held /\ step' = step
    BY <1>5 DEF Reduce, ReduceParticle, ReducePre, ReduceModel
  <2>2. \A r \in Rank : /\ pc[r] \notin {"caller", "stopped"}
                        /\ pc'[r] \notin {"caller", "stopped"}
    BY <1>5 DEF Reduce, ReduceParticle, ReducePre, ReduceModel, AllAt,
                Injected, AfterPre, Saving
  <2>3. QED
    BY <1>1, <2>1, <2>2 DEF BuffersInv, Extracted, Need, On
<1>6. CASE Save
  BY <1>1, <1>6 DEF Save, TypeOK, BuffersInv, Extracted, Need, On
<1>7. CASE UNCHANGED vars
  BY <1>1, <1>7 DEF vars, BuffersInv, Extracted, Need, On
<1>8. QED
  BY <1>1, <1>2, <1>3, <1>4, <1>5, <1>6, <1>7 DEF Next, Finished

\* No index array survives the call of run_with that allocated it: between
\* two calls nothing is allocated, so extractor() never allocates over a live
\* array and never adds to an old counter.
THEOREM BuffersReleased == Spec => []NoBufferOutlivesTheCall
<1>1. Init => BuffersInv
  BY DEF Init, BuffersInv
<1>2. Spec => []BuffersInv
  BY <1>1, BuffersInvStep, TypeInvHolds, PTL DEF Spec
<1>3. BuffersInv => NoBufferOutlivesTheCall
  BY DEF BuffersInv, NoBufferOutlivesTheCall
<1>4. QED
  BY <1>2, <1>3, PTL

-----------------------------------------------------------------------------
(***************************************************************************)
(* Rows.                                                                   *)
(***************************************************************************)

\* Every row of a file has the number of its step.
LEMMA StepOfRow ==
  ASSUME NEW file \in Seq(RowType), NEW k \in DOMAIN file
  PROVE  file[k].step \in Nat
<1>1. file[k] \in RowType
  OBVIOUS
<1>2. QED
  BY <1>1 DEF RowType

\* The row of step b, appended to those of the steps before b, completes them.
LEMMA RowAppended ==
  ASSUME NEW file \in Seq(RowType), NEW row \in RowType, NEW b \in Nat,
         row.step = b, RowsUpTo(file, b)
  PROVE  RowsUpTo(Append(file, row), b + 1)
<1> DEFINE new == Append(file, row)
<1>1. /\ DOMAIN file = 1 .. Len(file) /\ DOMAIN new = 1 .. Len(file) + 1
      /\ Len(file) \in Nat
      /\ \A k \in 1 .. Len(file) : new[k] = file[k]
      /\ new[Len(file) + 1] = row
  OBVIOUS
<1>2. \A k \in DOMAIN file : file[k].step \in Nat /\ file[k].step < b
  BY StepOfRow DEF RowsUpTo
<1>3. ASSUME NEW s \in 0 .. Calls, Need("md", s), s < b + 1
      PROVE  \E k \in DOMAIN new : new[k].step = s
  <2>1. CASE s < b
    BY <1>1, <1>3, <2>1 DEF RowsUpTo
  <2>2. CASE s = b
    BY <1>1, <2>2
  <2>3. QED
    BY <1>3, <2>1, <2>2, CallsAssumption
<1>4. \A k \in DOMAIN new : new[k].step < b + 1
  BY <1>1, <1>2
<1>5. ASSUME NEW k \in DOMAIN new, NEW l \in DOMAIN new, k < l
      PROVE  new[k].step < new[l].step
  <2>1. k \in DOMAIN file
    BY <1>1, <1>5
  <2>2. CASE l \in DOMAIN file
    BY <1>1, <1>5, <2>1, <2>2 DEF RowsUpTo
  <2>3. CASE l = Len(file) + 1
    BY <1>1, <1>2, <2>1, <2>3
  <2>4. QED
    BY <1>1, <2>2, <2>3
<1>6. QED
  BY <1>3, <1>4, <1>5 DEF RowsUpTo

\* A step without model analysis needs no row.
LEMMA RowNotNeeded ==
  ASSUME NEW file \in Seq(RowType), NEW b \in Nat, ~Need("md", b),
         RowsUpTo(file, b)
  PROVE  RowsUpTo(file, b + 1)
<1>1. \A k \in DOMAIN file : file[k].step \in Nat
  BY StepOfRow
<1>2. \A s \in 0 .. Calls : Need("md", s) /\ s < b + 1 => s < b
  BY CallsAssumption
<1>3. QED
  BY <1>1, <1>2 DEF RowsUpTo

\* The rows and the root's place keep up with what was broadcast.
LEMMA RowsInvStep == TypeInv /\ RowsInv /\ [Next]_vars => RowsInv'
<1>1. SUFFICES ASSUME TypeOK, RowsInv, [Next]_vars PROVE RowsInv'
  BY DEF TypeInv
<1>2. /\ \A r \in Rank : step[r] \in Nat
      /\ Broadcasted \in Nat
      /\ \A i \in 1 .. NumSets : rows[i] \in Seq(RowType)
  <2>1. \A r \in Rank : step[r] \in Nat
    BY <1>1, CallsAssumption DEF TypeOK
  <2>2. Broadcasted \in Nat
    BY <2>1, RankAssumption DEF Broadcasted
  <2>3. QED
    BY <1>1, <2>1, <2>2 DEF TypeOK
<1>3. \A i \in 1 .. NumSets : RowsUpTo(rows[i], Broadcasted)
  BY <1>1 DEF RowsInv
<1>4. SUFFICES
        /\ \A r \in Rank : pc'[r] = "save" => r = Root
        /\ \A r \in Rank : step'[r] <= Broadcasted'
        /\ \A i \in 1 .. NumSets : RowsUpTo(rows'[i], Broadcasted')
  BY DEF RowsInv
<1>5. CASE \E r \in Rank : RunWith(r)
  <2>1. PICK r \in Rank : RunWith(r)
    BY <1>5
  <2>2. step' = step /\ rows' = rows
    BY <2>1 DEF RunWith
  <2>3. \A q \in Rank : /\ pc'[q] = "save" => q = Root
                        /\ q = Root => (pc[q] = "bcast" <=> pc'[q] = "bcast")
    BY <1>1, <2>1 DEF RunWith, TypeOK, RowsInv, Injected, Saving
  <2>4. Broadcasted' = Broadcasted
    BY <2>2, <2>3, RankAssumption DEF Broadcasted
  <2>5. QED
    BY <1>1, <1>3, <2>2, <2>3, <2>4 DEF RowsInv
<1>6. CASE \E r \in Rank : Return(r)
  <2>1. PICK r \in Rank : Return(r)
    BY <1>6
  <2>2. rows' = rows /\ \A q \in Rank : pc'[q] = "save" => q = Root
    BY <1>1, <2>1 DEF Return, TypeOK, RowsInv
  <2>3. step'[r] <= Broadcasted
    <3>1. step'[r] = step[r] + 1
      BY <1>1, <2>1 DEF Return, TypeOK
    <3>2. CASE r = Root
      BY <1>2, <2>1, <3>1, <3>2 DEF Return, Broadcasted
    <3>3. CASE step[r] < step[Root]
      BY <1>2, <3>1, <3>3, RankAssumption DEF Broadcasted
    <3>4. CASE step[r] = step[Root] /\ pc[Root] = "bcast"
      BY <1>2, <3>1, <3>4 DEF Broadcasted
    <3>5. QED
      BY <2>1, <3>2, <3>3, <3>4 DEF Return, Broadcast
  <2>4. Broadcasted' = Broadcasted
    BY <1>1, <1>2, <2>1, RankAssumption DEF Return, TypeOK, Broadcasted
  <2>5. \A q \in Rank : step'[q] <= Broadcasted
    BY <1>1, <2>1, <2>3 DEF Return, TypeOK, RowsInv
  <2>6. QED
    BY <1>3, <2>2, <2>4, <2>5
<1>7. CASE \E r \in Rank : Stop(r)
  <2>1. PICK r \in Rank : Stop(r)
    BY <1>7
  <2>2. step' = step /\ rows' = rows
    BY <2>1 DEF Stop
  <2>3. \A q \in Rank : /\ pc'[q] = "save" => q = Root
                        /\ pc[q] = "bcast" <=> pc'[q] = "bcast"
    BY <1>1, <2>1 DEF Stop, TypeOK, RowsInv
  <2>4. Broadcasted' = Broadcasted
    BY <2>2, <2>3, RankAssumption DEF Broadcasted
  <2>5. QED
    BY <1>1, <1>3, <2>2, <2>3, <2>4 DEF RowsInv
<1>8. CASE Reduce
  <2>1. step' = step /\ rows' = rows
    BY <1>8 DEF Reduce, ReduceParticle, ReducePre, ReduceModel
  <2>2. \A q \in Rank : /\ pc'[q] = "save" => q = Root
                        /\ pc[q] # "bcast"
                        /\ q = Root => pc'[q] # "bcast"
    BY <1>8 DEF Reduce, ReduceParticle, ReducePre, ReduceModel, AllAt,
                Injected, AfterPre, Saving
  <2>3. Broadcasted' = Broadcasted
    BY <2>1, <2>2, RankAssumption DEF Broadcasted
  <2>4. QED
    BY <1>1, <1>3, <2>1, <2>2, <2>3 DEF RowsInv
<1>9. CASE Save
  <2>1. /\ Broadcasted = step[Root]
        /\ Broadcasted' = step[Root] + 1
        /\ step' = step
    BY <1>1, <1>9, RankAssumption DEF Save, TypeOK, Broadcasted
  <2>2. \A q \in Rank : pc'[q] = "save" => q = Root
    BY <1>1, <1>9, RankAssumption DEF Save, TypeOK, RowsInv
  <2>3. \A q \in Rank : step'[q] <= Broadcasted'
    BY <1>1, <1>2, <2>1, RankAssumption DEF RowsInv
  <2>4. ASSUME NEW i \in 1 .. NumSets
        PROVE  RowsUpTo(rows'[i], Broadcasted')
    <3>1. CASE Need("md", step[Root])
      <4>1. Row \in RowType /\ Row.step = step[Root]
        BY <1>1, <1>2, RankAssumption DEF TypeOK, Row, RowType
      <4>2. rows'[i] = Append(rows[i], Row)
        BY <1>9, <3>1 DEF Save
      <4>3. RowsUpTo(Append(rows[i], Row), step[Root] + 1)
        BY <1>2, <1>3, <2>1, <4>1, RowAppended
      <4>4. QED
        BY <2>1, <4>2, <4>3
    <3>2. CASE ~Need("md", step[Root])
      <4>1. rows'[i] = rows[i]
        BY <1>9, <3>2 DEF Save
      <4>2. RowsUpTo(rows[i], step[Root] + 1)
        BY <1>2, <1>3, <2>1, <3>2, RowNotNeeded
      <4>3. QED
        BY <2>1, <4>1, <4>2
    <3>3. QED
      BY <3>1, <3>2
  <2>5. QED
    BY <2>2, <2>3, <2>4
<1>10. CASE UNCHANGED vars
  BY <1>1, <1>3, <1>10 DEF vars, RowsInv, Broadcasted
<1>11. QED
  BY <1>1, <1>5, <1>6, <1>7, <1>8, <1>9, <1>10 DEF Next, Finished

\* RowsInv holds throughout, whatever memory the calculators were given.
LEMMA RowsInvHolds == Spec => []RowsInv
<1>1. Init => RowsInv
  <2>1. SUFFICES ASSUME Init PROVE RowsInv
    OBVIOUS
  <2>2. Broadcasted = 0
    BY <2>1, RankAssumption DEF Init, Broadcasted
  <2>3. \A i \in 1 .. NumSets : rows[i] = <<>>
    BY <2>1 DEF Init
  <2>4. \A r \in Rank : pc[r] = "caller" /\ step[r] = 0
    BY <2>1 DEF Init
  <2>5. \A i \in 1 .. NumSets : RowsUpTo(rows[i], 0)
    BY <2>3 DEF RowsUpTo
  <2>6. QED
    BY <2>2, <2>4, <2>5 DEF RowsInv
<1>2. QED
  BY <1>1, RowsInvStep, TypeInvHolds, PTL DEF Spec

\* A rank that comes back from a step of the model analysis finds its row in
\* every model file, in the order of the steps and once only, however far the
\* ranks run apart.
THEOREM RowsPrecedeReturns == Spec => []RowsBeforeReturn
<1>1. TypeInv /\ RowsInv => RowsBeforeReturn
  <2>1. SUFFICES ASSUME TypeOK, RowsInv PROVE RowsBeforeReturn
    BY DEF TypeInv
  <2>2. \A r \in Rank : step[r] \in Nat
    BY <2>1, CallsAssumption DEF TypeOK
  <2>3. Broadcasted \in Nat
    BY <2>2, RankAssumption DEF Broadcasted
  <2>4. \A r \in Rank, s \in 0 .. Calls : s < step[r] => s < Broadcasted
    BY <2>1, <2>2, <2>3, CallsAssumption DEF RowsInv
  <2>5. QED
    BY <2>1, <2>4 DEF RowsInv, RowsUpTo, RowsBeforeReturn
<1>2. QED
  BY <1>1, TypeInvHolds, RowsInvHolds, PTL

-----------------------------------------------------------------------------
(***************************************************************************)
(* Collective calls.                                                       *)
(***************************************************************************)

\* Ranks that wait in an Allreduce are in the same step.
LEMMA WaitersShareTheStep ==
  ASSUME TypeOK, TogetherInv
  PROVE  \A p, q \in Rank : Waiting(p) /\ Waiting(q) => step[p] = step[q]
BY DEF TogetherInv

\* A step on which all ranks leave an Allreduce for the same place, or for the
\* end of the analysis, keeps them together.
LEMMA MoveTogether ==
  ASSUME TypeOK, TogetherInv, step' = step,
         \A p \in Rank : Waiting(p),
         \A p, q \in Rank : center'[p] = center'[q] /\ strong'[p] = strong'[q],
         \/ \A p \in Rank : pc'[p] \in {"save", "bcast"}
         \/ /\ \A p \in Rank : pc'[p] \in {"pre", "model"}
            /\ \A p, q \in Rank : pc'[p] = pc'[q] /\ idx'[p] = idx'[q]
  PROVE  TogetherInv'
<1>1. \A p, q \in Rank : step'[p] = step'[q]
  BY WaitersShareTheStep
<1>2. \A p \in Rank : NeedAna(step'[p])
  BY DEF TogetherInv
<1>3. \A p, q \in Rank, s \in 0 .. Calls : Past(p, s)' => Past(q, s)'
  BY <1>1 DEF Past
<1>4. \A p \in Rank : Waiting(p)' => NeedAna(step[p])'
  BY <1>2 DEF NeedAna, Need, On
<1>5. \A p, q \in Rank :
        Waiting(p)' /\ Waiting(q)' =>
          step'[p] = step'[q] /\ pc'[p] = pc'[q] /\ idx'[p] = idx'[q]
  BY <1>1 DEF Waiting
<1>6. \A p, q \in Rank : Waiting(p)' => Waiting(q)'
  BY DEF Waiting
<1>7. QED
  BY <1>3, <1>4, <1>5, <1>6 DEF TogetherInv

\* A rank that is outside the Allreduces before and after its step, and has
\* the same analyses behind it, leaves the others where they are.
LEMMA MoveAlone ==
  ASSUME TypeOK, TogetherInv, NEW r \in Rank,
         UNCHANGED <<center, strong, idx>>,
         \A p \in Rank \ {r} : step'[p] = step[p] /\ pc'[p] = pc[p],
         ~Waiting(r), ~Waiting(r)',
         \A s \in 0 .. Calls : Past(r, s)' <=> Past(r, s)
  PROVE  TogetherInv'
<1>1. \A p \in Rank, s \in 0 .. Calls : Past(p, s)' <=> Past(p, s)
  BY DEF Past
<1>2. \A p \in Rank : Waiting(p)' <=> Waiting(p)
  BY DEF Waiting
<1>3. \A p \in Rank : Waiting(p) => step'[p] = step[p] /\ pc'[p] = pc[p]
  OBVIOUS
<1>4. \A p \in Rank : Waiting(p)' => NeedAna(step[p])'
  <2>1. \A p \in Rank : Waiting(p)' => NeedAna(step'[p])
    BY <1>2, <1>3 DEF TogetherInv
  <2>2. QED
    BY <2>1 DEF NeedAna, Need, On
<1>5. \A p \in Rank : Waiting(p) /\ AtFirst(p) => AtFirst(p)'
  BY <1>3 DEF AtFirst, On
<1>6. \A p, q \in Rank, s \in 0 .. Calls :
        NeedAna(s) /\ Past(p, s)' => Past(q, s)'
  BY <1>1 DEF TogetherInv
<1>7. \A p, q \in Rank :
        Waiting(p)' /\ Waiting(q)' =>
          step'[p] = step'[q] /\ pc'[p] = pc'[q] /\ idx'[p] = idx'[q]
  BY <1>2, <1>3 DEF TogetherInv
<1>8. \A p, q \in Rank : Waiting(p)' /\ ~Waiting(q)' => AtFirst(p)'
  BY <1>2, <1>5 DEF TogetherInv
<1>9. \A p, q \in Rank : center'[p] = center'[q] /\ strong'[p] = strong'[q]
  BY DEF TogetherInv
<1>10. QED
  BY <1>4, <1>6, <1>7, <1>8, <1>9 DEF TogetherInv

\* The first step is analysed whenever the particle module is on.
LEMMA ParticleStepIsAnalysed == "ptc" \in On => NeedAna(0)
<1>1. SUFFICES ASSUME "ptc" \in On PROVE Need("ptc", 0)
  BY DEF NeedAna
<1>2. Period["ptc"] \in Nat \ {0}
  BY <1>1, PeriodAssumption DEF On
<1>3. 0 % Period["ptc"] = 0
  BY <1>2
<1>4. QED
  BY <1>1, <1>3 DEF Need

\* A rank that enters run_with joins the others in the first Allreduce of the
\* step, or passes a step that has none.
LEMMA RunWithTogether ==
  ASSUME TypeInv, TogetherInv, NEW r \in Rank, RunWith(r)
  PROVE  TogetherInv'
<1>1. /\ UNCHANGED <<step, center, strong>>
      /\ pc[r] = "caller" /\ step[r] \in 0 .. Calls
      /\ \A p \in Rank : step[p] \in 0 .. Calls /\ step[p] \in Nat
      /\ \A p \in Rank \ {r} : pc'[p] = pc[p] /\ idx'[p] = idx[p]
  BY CallsAssumption DEF RunWith, TypeInv, TypeOK
<1>2. ~Waiting(r)
  BY <1>1 DEF Waiting
<1>3. \/ ~NeedAna(step[r]) /\ pc'[r] \in {"save", "bcast"}
      \/ NeedAna(step[r]) /\ pc'[r] \in {"particle", "pre"} /\ AtFirst(r)'
  <2>1. CASE step[r] = 0 /\ "ptc" \in On
    BY <2>1, ParticleStepIsAnalysed DEF RunWith, TypeInv, TypeOK, AtFirst, On
  <2>2. CASE ~(step[r] = 0 /\ "ptc" \in On)
    BY <2>2 DEF RunWith, TypeInv, TypeOK, AtFirst, On, Injected, InjectedIdx,
                Saving
  <2>3. QED
    BY <2>1, <2>2
<1>4. \A p \in Rank, s \in 0 .. Calls :
        NeedAna(s) => (Past(p, s)' <=> Past(p, s))
  BY <1>1, <1>3 DEF Past
<1>5. \A p, q \in Rank, s \in 0 .. Calls :
        NeedAna(s) /\ Past(p, s)' => Past(q, s)'
  BY <1>4 DEF TogetherInv
<1>6. \A p \in Rank : Waiting(p)' => NeedAna(step[p])
  BY <1>1, <1>3 DEF TogetherInv, Waiting
<1>7. \A p \in Rank : Waiting(p)' => AtFirst(p)'
  <2>1. \A p \in Rank \ {r} : Waiting(p)' <=> Waiting(p)
    BY <1>1 DEF Waiting
  <2>2. \A p \in Rank \ {r} : Waiting(p) => AtFirst(p)
    BY <1>2 DEF TogetherInv
  <2>3. \A p \in Rank \ {r} : AtFirst(p) => AtFirst(p)'
    BY <1>1 DEF AtFirst, On
  <2>4. Waiting(r)' => AtFirst(r)'
    BY <1>3 DEF Waiting
  <2>5. QED
    BY <2>1, <2>2, <2>3, <2>4
<1>8. \A p \in Rank : Waiting(p)' => ~Past(p, step[p])
  <2>1. \A p \in Rank : Waiting(p) => ~Past(p, step[p])
    BY <1>1 DEF Waiting, Past
  <2>2. ~Past(r, step[r])
    BY <1>1 DEF Past
  <2>3. QED
    BY <1>1, <2>1, <2>2 DEF Waiting
<1>9. ASSUME NEW p \in Rank, NEW q \in Rank, Waiting(p)', Waiting(q)'
      PROVE  step[p] <= step[q]
  <2>1. SUFFICES ASSUME step[p] > step[q] PROVE FALSE
    BY <1>1
  <2>2. Past(p, step[q])
    BY <2>1 DEF Past
  <2>3. NeedAna(step[q])
    BY <1>6, <1>9
  <2>4. Past(q, step[q])
    BY <1>1, <2>2, <2>3 DEF TogetherInv
  <2>5. QED
    BY <1>8, <1>9, <2>4
<1>10. \A p, q \in Rank : Waiting(p)' /\ Waiting(q)' => step[p] = step[q]
  BY <1>1, <1>9
<1>11. \A p, q \in Rank :
         Waiting(p)' /\ Waiting(q)' => pc'[p] = pc'[q] /\ idx'[p] = idx'[q]
  BY <1>1, <1>7, <1>10 DEF AtFirst, On
<1>12. \A p \in Rank : Waiting(p)' => NeedAna(step[p])'
  BY <1>1, <1>6 DEF NeedAna, Need, On
<1>13. \A p, q \in Rank : center'[p] = center'[q] /\ strong'[p] = strong'[q]
  BY <1>1 DEF TogetherInv
<1>14. QED
  BY <1>1, <1>5, <1>7, <1>10, <1>11, <1>12, <1>13 DEF TogetherInv

\* The particle numbers are reduced once, on the way into the first analysis.
LEMMA ReduceParticleTogether ==
  ASSUME TypeInv, TogetherInv, ReduceParticle
  PROVE  TogetherInv'
<1>1. UNCHANGED <<step, center, strong>>
  BY DEF ReduceParticle
<1>2. \A p \in Rank : Waiting(p)
  BY DEF ReduceParticle, AllAt, Waiting
<1>3. \A p \in Rank : NeedAna(step[p])
  BY <1>2 DEF TogetherInv
<1>4. \A p \in Rank : pc'[p] = "pre" /\ idx'[p] = <<1, 0>>
  BY <1>3 DEF ReduceParticle, Injected, InjectedIdx
<1>5. QED
  BY <1>1, <1>2, <1>4, MoveTogether DEF TypeInv, TogetherInv

\* Every iteration yields one centre for all ranks when they started with one.
LEMMA RecentredTogether ==
  ASSUME TogetherInv, NEW k \in Nat, NEW c \in Recentred(k),
         NEW p \in Rank, NEW q \in Rank
  PROVE  c[p] = c[q]
<1>1. CASE Method = "com"
  BY <1>1 DEF Recentred
<1>2. CASE Method # "com"
  BY <1>2 DEF Recentred, TogetherInv
<1>3. QED
  BY <1>1, <1>2

\* Each rank compares its own centres, and they all decide the same.
LEMMA ReducePreTogether ==
  ASSUME TypeInv, TogetherInv, NEW k \in 1 .. MaxIter, ReducePre(k)
  PROVE  TogetherInv'
<1> DEFINE done(r) == k = MaxIter \/ Close(center[r], center'[r])
<1>1. step' = step /\ strong' = strong
  BY DEF ReducePre
<1>2. \A p \in Rank : Waiting(p)
  BY DEF ReducePre, AllAt, Waiting
<1>3. \A p, q \in Rank : center[p] = center[q] /\ center'[p] = center'[q]
  BY RecentredTogether DEF ReducePre, TogetherInv
<1>4. \A p, q \in Rank : step[p] = step[q] /\ strong'[p] = strong'[q]
  BY <1>1, <1>2, WaitersShareTheStep DEF TypeInv, TogetherInv
<1>5. \A r \in Rank :
        /\ pc'[r] = IF done(r) THEN AfterPre(r) ELSE "pre"
        /\ idx'[r] = IF done(r) THEN AfterPreIdx(r) ELSE <<k + 1, 0>>
  BY DEF ReducePre
<1>6. \/ \A p \in Rank : pc'[p] \in {"save", "bcast"}
      \/ /\ \A p \in Rank : pc'[p] \in {"pre", "model"}
         /\ \A p, q \in Rank : pc'[p] = pc'[q] /\ idx'[p] = idx'[q]
  <2>1. CASE \E r \in Rank : done(r)
    <3>1. \A r \in Rank : done(r)
      BY <1>3, <2>1
    <3>2. \A r \in Rank : pc'[r] = AfterPre(r) /\ idx'[r] = AfterPreIdx(r)
      BY <1>5, <3>1
    <3>3. \A p, q \in Rank : InModel(step[p]) <=> InModel(step[q])
      BY <1>4
    <3>4. QED
      BY <3>2, <3>3 DEF AfterPre, AfterPreIdx, Saving
  <2>2. CASE ~\E r \in Rank : done(r)
    BY <1>5, <2>2
  <2>3. QED
    BY <2>1, <2>2
<1>7. QED
  BY <1>1, <1>2, <1>3, <1>4, <1>6, MoveTogether DEF TypeInv

\* Each rank decides from its own s_bar whether to measure the bar's length,
\* and they all decide the same.
LEMMA ReduceModelTogether ==
  ASSUME TypeInv, TogetherInv, NEW i \in 1 .. NumSets,
         NEW k \in 1 .. Len(Sites), ReduceModel(i, k)
  PROVE  TogetherInv'
<1> DEFINE next(r) == NextSite(k, strong'[r])
           over(r) == next(r) > Len(Sites)
<1>1. step' = step /\ center' = center
  BY DEF ReduceModel
<1>2. \A p \in Rank : Waiting(p)
  BY DEF ReduceModel, AllAt, Waiting
<1>3. \A p, q \in Rank : center'[p] = center'[q] /\ strong'[p] = strong'[q]
  BY <1>1 DEF ReduceModel, TogetherInv
<1>4. \A p, q \in Rank : next(p) = next(q) /\ (over(p) <=> over(q))
  BY <1>3
<1>5. \A r \in Rank :
        /\ pc'[r] = IF over(r) /\ i = NumSets THEN Saving(r) ELSE "model"
        /\ idx'[r] = IF ~over(r) THEN <<i, next(r)>>
                     ELSE IF i < NumSets THEN <<i + 1, 1>> ELSE Nowhere
  BY DEF ReduceModel
<1>6. \/ \A p \in Rank : pc'[p] \in {"save", "bcast"}
      \/ /\ \A p \in Rank : pc'[p] \in {"pre", "model"}
         /\ \A p, q \in Rank : pc'[p] = pc'[q] /\ idx'[p] = idx'[q]
  <2>1. CASE i = NumSets /\ \E r \in Rank : over(r)
    <3>1. \A r \in Rank : over(r)
      BY <1>4, <2>1
    <3>2. \A r \in Rank : pc'[r] = Saving(r)
      BY <1>5, <2>1, <3>1
    <3>3. QED
      BY <3>2 DEF Saving
  <2>2. CASE ~(i = NumSets /\ \E r \in Rank : over(r))
    <3>1. \A r \in Rank : pc'[r] = "model"
      BY <1>5, <2>2
    <3>2. \A p, q \in Rank : idx'[p] = idx'[q]
      BY <1>4, <1>5
    <3>3. QED
      BY <3>1, <3>2
  <2>3. QED
    BY <2>1, <2>2
<1>7. QED
  BY <1>1, <1>2, <1>3, <1>6, MoveTogether DEF TypeInv

\* A rank that returns has the same analyses behind it as in the Bcast.
LEMMA ReturnTogether ==
  ASSUME TypeInv, TogetherInv, NEW r \in Rank, Return(r)
  PROVE  TogetherInv'
<1>1. step[r] \in Nat /\ step'[r] = step[r] + 1
  BY CallsAssumption DEF Return, TypeInv, TypeOK
<1>2. pc[r] = "bcast" /\ pc'[r] = "caller"
  BY DEF Return, TypeInv, TypeOK
<1>3. \A s \in 0 .. Calls : Past(r, s)' <=> Past(r, s)
  BY <1>1, <1>2, CallsAssumption DEF Past
<1>4. \A p \in Rank \ {r} : step'[p] = step[p] /\ pc'[p] = pc[p]
  BY DEF Return, TypeInv, TypeOK
<1>5. ~Waiting(r) /\ ~Waiting(r)'
  BY <1>2 DEF Waiting
<1>6. UNCHANGED <<center, strong, idx>>
  BY DEF Return
<1>7. QED
  BY <1>3, <1>4, <1>5, <1>6, MoveAlone DEF TypeInv

\* TogetherInv is inductive.
LEMMA TogetherInvStep == TypeInv /\ TogetherInv /\ [Next]_vars => TogetherInv'
<1>1. SUFFICES ASSUME TypeInv, TogetherInv, [Next]_vars PROVE TogetherInv'
  OBVIOUS
<1>2. CASE \E r \in Rank : RunWith(r)
  BY <1>1, <1>2, RunWithTogether
<1>3. CASE \E r \in Rank : Return(r)
  BY <1>1, <1>3, ReturnTogether
<1>4. CASE \E r \in Rank : Stop(r)
  <2>1. PICK r \in Rank : Stop(r)
    BY <1>4
  <2>2. /\ UNCHANGED <<step, center, strong, idx>>
        /\ pc[r] = "caller" /\ pc'[r] = "stopped"
        /\ \A p \in Rank \ {r} : pc'[p] = pc[p]
    BY <1>1, <2>1 DEF Stop, TypeInv, TypeOK
  <2>3. \A s \in 0 .. Calls : Past(r, s)' <=> Past(r, s)
    BY <2>2 DEF Past
  <2>4. ~Waiting(r) /\ ~Waiting(r)'
    BY <2>2 DEF Waiting
  <2>5. QED
    BY <1>1, <2>2, <2>3, <2>4, MoveAlone DEF TypeInv
<1>5. CASE Reduce
  BY <1>1, <1>5, ReduceParticleTogether, ReducePreTogether,
     ReduceModelTogether DEF Reduce
<1>6. CASE Save
  <2>1. /\ UNCHANGED <<step, center, strong, idx>>
        /\ pc[Root] = "save" /\ pc'[Root] = "bcast"
        /\ \A p \in Rank \ {Root} : pc'[p] = pc[p]
    BY <1>1, <1>6, RankAssumption DEF Save, TypeInv, TypeOK
  <2>2. \A s \in 0 .. Calls : Past(Root, s)' <=> Past(Root, s)
    BY <2>1 DEF Past
  <2>3. ~Waiting(Root) /\ ~Waiting(Root)'
    BY <2>1 DEF Waiting
  <2>4. QED
    BY <1>1, <2>1, <2>2, <2>3, RankAssumption, MoveAlone DEF TypeInv
<1>7. CASE UNCHANGED vars
  BY <1>1, <1>7 DEF vars, TogetherInv, Past, Waiting, AtFirst, NeedAna, Need, On
<1>8. QED
  BY <1>1, <1>2, <1>3, <1>4, <1>5, <1>6, <1>7 DEF Next, Finished

\* TogetherInv holds throughout when the calculators start from one centre.
LEMMA TogetherInvHolds == SpecSame => [](TypeInv /\ RowsInv /\ TogetherInv)
<1>1. InitSame => TogetherInv
  BY DEF InitSame, Init, TogetherInv, Past, Waiting
<1>2. InitSame => Init
  BY DEF InitSame
<1>3. SpecSame => Spec
  BY <1>2, PTL DEF SpecSame, Spec
<1>4. QED
  BY <1>1, <1>3, TogetherInvStep, TypeInvHolds, RowsInvHolds, PTL DEF SpecSame

\* The ranks that have left, when somebody waits, are still on their way.
LEMMA TogetherMatch == TypeInv /\ RowsInv /\ TogetherInv => CollectivesMatch
<1>1. SUFFICES ASSUME TypeInv, RowsInv, TogetherInv,
                      NEW p \in Rank, NEW q \in Rank, Waiting(p)
               PROVE  \/ step[q] = step[p] /\ pc[q] = pc[p] /\ idx[q] = idx[p]
                      \/ YetToCome(p, q)
  BY DEF CollectivesMatch
<1>2. \A r \in Rank : step[r] \in Nat /\ step[r] \in 0 .. Calls
  BY <1>1, CallsAssumption DEF TypeInv, TypeOK
<1>3. CASE Waiting(q)
  BY <1>1, <1>3 DEF TogetherInv
<1>4. CASE ~Waiting(q)
  <2>1. ~Past(p, step[p]) /\ NeedAna(step[p])
    BY <1>1, <1>2 DEF Past, Waiting, TogetherInv
  <2>2. ~Past(q, step[p])
    BY <1>1, <1>2, <2>1 DEF TogetherInv
  <2>3. /\ step[q] <= step[p]
        /\ pc[q] \in {"save", "bcast"} => step[q] < step[p]
    BY <1>2, <2>2 DEF Past
  <2>4. pc[q] \in {"caller", "save", "bcast", "stopped"}
    BY <1>1, <1>4 DEF Waiting, TypeInv, TypeOK, Places
  <2>5. pc[q] # "save"
    <3>1. SUFFICES ASSUME pc[q] = "save" PROVE FALSE
      OBVIOUS
    <3>2. q = Root /\ step[p] <= Broadcasted
      BY <1>1, <3>1 DEF RowsInv
    <3>3. Broadcasted = step[q]
      BY <1>2, <3>1, <3>2 DEF Broadcasted
    <3>4. QED
      BY <1>2, <2>3, <3>1, <3>2, <3>3
  <2>6. pc[q] # "stopped"
    <3>1. step[p] < Calls
      BY <1>1 DEF Waiting, TypeInv, StepsCounted
    <3>2. pc[q] = "stopped" => step[q] = Calls
      BY <1>1 DEF TypeInv, StepsCounted
    <3>3. QED
      BY <1>2, <2>3, <3>1, <3>2, CallsAssumption
  <2>7. QED
    BY <2>3, <2>4, <2>5, <2>6 DEF YetToCome
<1>5. QED
  BY <1>3, <1>4

\* When the calculators start from one centre, no two ranks ever wait in
\* different Allreduces, and who is missing is still to come: the decisions
\* each rank takes alone never part them.
THEOREM CollectivesAgree == SpecSame => []CollectivesMatch
BY TogetherInvHolds, TogetherMatch, PTL

\* When the calculators start from one centre, all ranks subtract the same one
\* in the model analysis, by either method of recentring.
THEOREM FrameShared == SpecSame => []OneFrame
<1>1. TogetherInv => OneFrame
  BY DEF TogetherInv, OneFrame
<1>2. QED
  BY <1>1, TogetherInvHolds, PTL

\* No rank is counted past a step that another one is still analysing.
THEOREM NoOvertaking == SpecSame => NobodyOvertakesAnAnalysis
<1>1. TypeInv /\ CollectivesMatch /\ [Next]_vars =>
        [\A p, q \in Rank :
           Waiting(p) /\ step[q]' > step[q] => step[q] < step[p]]_vars
  <2>1. SUFFICES ASSUME TypeInv, CollectivesMatch, [Next]_vars,
                        NEW p \in Rank, NEW q \in Rank,
                        Waiting(p), step'[q] > step[q]
                 PROVE  step[q] < step[p]
    OBVIOUS
  <2>2. \A r \in Rank : step[r] \in Nat
    BY <2>1, CallsAssumption DEF TypeInv, TypeOK
  <2>3. PICK r \in Rank : Return(r)
    <3>1. step' # step
      BY <2>1, <2>2
    <3>2. QED
      BY <2>1, <3>1 DEF Next, RunWith, Stop, Reduce, ReduceParticle, ReducePre,
                        ReduceModel, Save, Finished, vars
  <2>4. q = r
    BY <2>1, <2>2, <2>3 DEF Return, TypeInv, TypeOK
  <2>5. pc[q] = "bcast"
    BY <2>3, <2>4 DEF Return
  <2>6. QED
    BY <2>1, <2>5 DEF CollectivesMatch, Waiting, YetToCome
<1>2. QED
  BY <1>1, TogetherInvHolds, TogetherMatch, PTL
     DEF SpecSame, NobodyOvertakesAnAnalysis

-----------------------------------------------------------------------------
(***************************************************************************)
(* The selection.                                                          *)
(***************************************************************************)

LastRow(i) == rows[i][Len(rows[i])]

\* No step between the last row of file i and step b was analysed.
Quiet(i, b) == \A s \in Nat : LastRow(i).step < s /\ s < b => ~NeedAna(s)

\* Between two analyses the root holds the centre of the last row; inside a
\* call that writes a row it has selected around it.
CenterKept(i) ==
  rows[i] # <<>> =>
    /\ pc[Root] \in {"caller", "stopped"} /\ Quiet(i, step[Root]) =>
         center[Root] = LastRow(i).center
    /\ pc[Root] = "bcast" /\ Quiet(i, step[Root] + 1) =>
         center[Root] = LastRow(i).center
    /\ /\ pc[Root] \in {"particle", "save"}
       /\ ~NeedAna(step[Root])
       /\ Quiet(i, step[Root])
       => center[Root] = LastRow(i).center
    /\ /\ pc[Root] \in {"particle", "pre", "model", "save"}
       /\ Need("md", step[Root])
       /\ Quiet(i, step[Root])
       => sel[Root] = LastRow(i).center

SelectionInv ==
  /\ SelectedAroundThePreviousCenter
  /\ pc[Root] \in {"pre", "model"} => NeedAna(step[Root])
  /\ \A i \in 1 .. NumSets : CenterKept(i)

\* Nothing is said of the files and of the root's state but by these variables.
LEMMA RootUntouched ==
  ASSUME SelectionInv,
         UNCHANGED <<rows, step[Root], pc[Root], center[Root], sel[Root]>>
  PROVE  SelectionInv'
<1>1. SelectedAroundThePreviousCenter'
  BY DEF SelectionInv, SelectedAroundThePreviousCenter, NeedAna, Need, On
<1>2. \A i \in 1 .. NumSets : CenterKept(i)'
  BY DEF SelectionInv, CenterKept, Quiet, LastRow, NeedAna, Need, On
<1>3. QED
  BY <1>1, <1>2 DEF SelectionInv, NeedAna, Need, On

\* As long as no row is written, the rows stay about what they were.
LEMMA RootMoves ==
  ASSUME SelectionInv, rows' = rows,
         pc'[Root] \in {"pre", "model"} => NeedAna(step'[Root]),
         \A i \in 1 .. NumSets : CenterKept(i)'
  PROVE  SelectionInv'
<1>1. SelectedAroundThePreviousCenter'
  BY DEF SelectionInv, SelectedAroundThePreviousCenter, NeedAna, Need, On
<1>2. QED
  BY <1>1 DEF SelectionInv, NeedAna, Need, On

\* extractor() selects around the centre held since the last analysis.
LEMMA RunWithSelects ==
  ASSUME TypeInv, SelectionInv, RunWith(Root)
  PROVE  SelectionInv'
<1>1. /\ pc[Root] = "caller"
      /\ UNCHANGED <<step, center, rows>>
      /\ Need("md", step[Root]) => sel'[Root] = center[Root]
  BY RankAssumption DEF RunWith, Selection, TypeInv, TypeOK
<1>2. /\ pc'[Root] \in {"particle", "pre", "save"}
      /\ pc'[Root] = "pre" => NeedAna(step[Root])
  BY RankAssumption DEF RunWith, Injected, Saving, TypeInv, TypeOK
<1>3. ASSUME NEW i \in 1 .. NumSets
      PROVE  CenterKept(i)'
  <2>1. /\ LastRow(i)' = LastRow(i)
        /\ \A b \in Nat : Quiet(i, b)' <=> Quiet(i, b)
    BY <1>1 DEF LastRow, Quiet, NeedAna, Need, On
  <2>2. rows[i] # <<>> /\ Quiet(i, step[Root]) =>
          center[Root] = LastRow(i).center
    BY <1>1 DEF SelectionInv, CenterKept
  <2>3. rows[i] # <<>> /\ Quiet(i, step[Root])' =>
          center[Root] = LastRow(i).center
    BY <1>1, <2>2 DEF LastRow, Quiet, NeedAna, Need, On
  <2>4. QED
    BY <1>1, <1>2, <2>1, <2>3 DEF CenterKept, Need, On
<1>4. QED
  BY <1>1, <1>2, <1>3, RootMoves DEF NeedAna, Need, On

\* An Allreduce moves the centre only in a step that is analysed, and never
\* the selection.
LEMMA ReduceSelects ==
  ASSUME TypeInv, SelectionInv, Reduce
  PROVE  SelectionInv'
<1>1. UNCHANGED <<step, sel, rows>>
  BY DEF Reduce, ReduceParticle, ReducePre, ReduceModel
<1>2. /\ pc[Root] \in {"particle", "pre", "model"}
      /\ pc'[Root] \in {"pre", "model", "save"}
  BY RankAssumption DEF Reduce, ReduceParticle, ReducePre, ReduceModel, AllAt,
     Injected, AfterPre, Saving
<1>3. ~NeedAna(step[Root]) => pc'[Root] = "save" /\ center' = center
                              /\ pc[Root] = "particle"
  <2>1. SUFFICES ASSUME ~NeedAna(step[Root])
                 PROVE  pc'[Root] = "save" /\ center' = center
                        /\ pc[Root] = "particle"
    OBVIOUS
  <2>2. pc[Root] = "particle"
    BY <1>2, <2>1 DEF SelectionInv
  <2>3. ReduceParticle
    BY <2>2, RankAssumption DEF Reduce, ReducePre, ReduceModel, AllAt
  <2>4. QED
    BY <2>1, <2>2, <2>3, RankAssumption DEF ReduceParticle, Injected, Saving
<1>4. NeedAna(step'[Root]) <=> NeedAna(step[Root])
  BY <1>1
<1>5. ASSUME NEW i \in 1 .. NumSets
      PROVE  CenterKept(i)'
  <2>1. /\ LastRow(i)' = LastRow(i)
        /\ Quiet(i, step[Root])' <=> Quiet(i, step[Root])
    BY <1>1 DEF LastRow, Quiet, NeedAna, Need, On
  <2>2. CenterKept(i)
    BY DEF SelectionInv
  <2>3. NeedAna(step[Root])' <=> NeedAna(step[Root])
    BY <1>1 DEF NeedAna, Need, On
  <2>4. QED
    BY <1>1, <1>2, <1>3, <2>1, <2>2, <2>3 DEF CenterKept, Need, On
<1>6. pc'[Root] \in {"pre", "model"} => NeedAna(step'[Root])
  BY <1>2, <1>3, <1>4
<1>7. QED
  BY <1>1, <1>5, <1>6, RootMoves


\* A row appended is the last one; those before stay where they are.
LEMMA RowsOfAppend ==
  ASSUME NEW file \in Seq(RowType), NEW row \in RowType, NEW new,
         new = Append(file, row), NEW k \in 2 .. Len(new)
  PROVE  \/ /\ k \in 2 .. Len(file)
            /\ new[k] = file[k] /\ new[k - 1] = file[k - 1]
         \/ /\ file # <<>>
            /\ new[k] = row /\ new[k - 1] = file[Len(file)]
<1>1. /\ Len(file) \in Nat /\ Len(new) = Len(file) + 1
      /\ \A j \in 1 .. Len(file) : new[j] = file[j]
      /\ new[Len(file) + 1] = row
  OBVIOUS
<1>2. k \in Nat /\ 2 <= k /\ k <= Len(file) + 1
  BY <1>1
<1>3. CASE k <= Len(file)
  <2>1. k \in 1 .. Len(file) /\ k - 1 \in 1 .. Len(file)
    BY <1>1, <1>2, <1>3
  <2>2. QED
    BY <1>1, <1>2, <1>3, <2>1
<1>4. CASE k = Len(file) + 1
  <2>1. k - 1 = Len(file) /\ Len(file) \in 1 .. Len(file)
    BY <1>1, <1>2, <1>4
  <2>2. file # <<>>
    BY <1>2, <1>4
  <2>3. QED
    BY <1>1, <1>4, <2>1, <2>2
<1>5. QED
  BY <1>1, <1>2, <1>3, <1>4

\* The row pushed is about the selection of this step; without a row, the
\* centre is still that of the last one or the step was analysed.
LEMMA SaveSelects ==
  ASSUME TypeInv, RowsInv, SelectionInv, Save
  PROVE  SelectionInv'
<1>1. /\ pc[Root] = "save" /\ pc'[Root] = "bcast"
      /\ UNCHANGED <<step, center, sel>>
      /\ step[Root] \in Nat
      /\ Broadcasted = step[Root]
  BY RankAssumption, CallsAssumption DEF Save, TypeInv, TypeOK, Broadcasted
<1>2. \A i \in 1 .. NumSets : rows[i] \in Seq(RowType)
  BY DEF TypeInv, TypeOK
<1>3. ASSUME NEW i \in 1 .. NumSets, rows[i] # <<>>
      PROVE  LastRow(i).step \in Nat /\ LastRow(i).step < step[Root]
  <2>1. Len(rows[i]) \in DOMAIN rows[i]
    BY <1>2, <1>3
  <2>2. QED
    BY <1>1, <1>2, <2>1, StepOfRow DEF RowsInv, RowsUpTo, LastRow
<1>4. Row \in RowType
  BY RankAssumption, CallsAssumption DEF TypeInv, TypeOK, Row, RowType
<1>5. CASE ~Need("md", step[Root])
  <2>1. rows' = rows
    BY <1>5 DEF Save
  <2>2. ASSUME NEW i \in 1 .. NumSets, rows[i] # <<>>, Quiet(i, step[Root] + 1)
        PROVE  center[Root] = LastRow(i).center
    <3>1. ~NeedAna(step[Root])
      BY <1>1, <1>3, <2>2 DEF Quiet
    <3>2. Quiet(i, step[Root])
      BY <1>1, <1>3, <2>2 DEF Quiet
    <3>3. QED
      BY <1>1, <2>2, <3>1, <3>2 DEF SelectionInv, CenterKept
  <2>3. ASSUME NEW i \in 1 .. NumSets
        PROVE  CenterKept(i)'
    <3>1. /\ LastRow(i)' = LastRow(i)
          /\ Quiet(i, step[Root] + 1)' <=> Quiet(i, step[Root] + 1)
      BY <1>1, <2>1 DEF LastRow, Quiet, NeedAna, Need, On
    <3>2. QED
      BY <1>1, <2>1, <2>2, <3>1 DEF CenterKept
  <2>4. QED
    BY <1>1, <2>1, <2>3, RootMoves
<1>6. CASE Need("md", step[Root])
  <2>1. \A i \in 1 .. NumSets : rows'[i] = Append(rows[i], Row)
    BY <1>6 DEF Save
  <2>2. /\ Row.step = step[Root]
        /\ Row.center = center[Root]
        /\ Row.sel = sel[Root]
    BY DEF Row
  <2>3. ASSUME NEW i \in 1 .. NumSets
        PROVE  LastRow(i)' = Row
    BY <1>2, <2>1 DEF LastRow
  <2>4. ASSUME NEW i \in 1 .. NumSets
        PROVE  CenterKept(i)'
    BY <1>1, <2>2, <2>3 DEF CenterKept
  <2>5. ASSUME NEW i \in 1 .. NumSets, NEW k \in 2 .. Len(rows'[i]),
               \A s \in rows'[i][k - 1].step + 1 .. rows'[i][k].step - 1 :
                 ~NeedAna(s)
        PROVE  rows'[i][k].sel = rows'[i][k - 1].center
    <3>1. \/ /\ k \in 2 .. Len(rows[i])
             /\ rows'[i][k] = rows[i][k] /\ rows'[i][k - 1] = rows[i][k - 1]
          \/ /\ rows[i] # <<>>
             /\ rows'[i][k] = Row /\ rows'[i][k - 1] = LastRow(i)
      <4>1. rows[i] \in Seq(RowType) /\ rows'[i] = Append(rows[i], Row)
        BY <1>2, <2>1
      <4>2. k \in 2 .. Len(rows'[i])
        BY <2>5
      <4>3. QED
        BY <1>4, <4>1, <4>2, RowsOfAppend, SMT DEF LastRow
    <3>2. CASE /\ k \in 2 .. Len(rows[i])
               /\ rows'[i][k] = rows[i][k] /\ rows'[i][k - 1] = rows[i][k - 1]
      BY <2>5, <3>2 DEF SelectionInv, SelectedAroundThePreviousCenter
    <3>3. CASE /\ rows[i] # <<>>
               /\ rows'[i][k] = Row /\ rows'[i][k - 1] = LastRow(i)
      <4>1. \A s \in LastRow(i).step + 1 .. step[Root] - 1 : ~NeedAna(s)
        BY <2>2, <2>5, <3>3
      <4>2. Quiet(i, step[Root])
        BY <1>1, <1>3, <3>3, <4>1 DEF Quiet
      <4>3. QED
        BY <1>1, <1>6, <2>2, <3>3, <4>2 DEF SelectionInv, CenterKept
    <3>4. QED
      BY <3>1, <3>2, <3>3
  <2>6. SelectedAroundThePreviousCenter'
    BY <2>5 DEF SelectedAroundThePreviousCenter, NeedAna, Need, On
  <2>7. QED
    BY <1>1, <2>4, <2>6 DEF SelectionInv
<1>7. QED
  BY <1>5, <1>6

\* The root takes the centre into the next step.
LEMMA ReturnSelects ==
  ASSUME TypeInv, SelectionInv, Return(Root)
  PROVE  SelectionInv'
<1>1. /\ pc[Root] = "bcast" /\ pc'[Root] = "caller"
      /\ step'[Root] = step[Root] + 1
      /\ UNCHANGED <<center, sel, rows>>
  BY RankAssumption DEF Return, TypeInv, TypeOK
<1>2. ASSUME NEW i \in 1 .. NumSets
      PROVE  CenterKept(i)'
  <2>1. /\ LastRow(i)' = LastRow(i)
        /\ Quiet(i, step[Root])' <=> Quiet(i, step[Root] + 1)
    BY <1>1 DEF LastRow, Quiet, NeedAna, Need, On
  <2>2. QED
    BY <1>1, <2>1 DEF SelectionInv, CenterKept
<1>3. QED
  BY <1>1, <1>2, RootMoves

\* The destructor leaves everything as it is.
LEMMA StopSelects ==
  ASSUME TypeInv, SelectionInv, Stop(Root)
  PROVE  SelectionInv'
<1>1. /\ pc[Root] = "caller" /\ pc'[Root] = "stopped"
      /\ UNCHANGED <<step, center, sel, rows>>
  BY RankAssumption DEF Stop, TypeInv, TypeOK
<1>2. ASSUME NEW i \in 1 .. NumSets
      PROVE  CenterKept(i)'
  <2>1. /\ LastRow(i)' = LastRow(i)
        /\ Quiet(i, step[Root])' <=> Quiet(i, step[Root])
    BY <1>1 DEF LastRow, Quiet, NeedAna, Need, On
  <2>2. QED
    BY <1>1, <2>1 DEF SelectionInv, CenterKept
<1>3. QED
  BY <1>1, <1>2, RootMoves

\* SelectionInv is inductive.
LEMMA SelectionInvStep ==
  TypeInv /\ RowsInv /\ SelectionInv /\ [Next]_vars => SelectionInv'
<1>1. SUFFICES ASSUME TypeInv, RowsInv, SelectionInv, [Next]_vars
               PROVE  SelectionInv'
  OBVIOUS
<1>2. CASE \E r \in Rank : RunWith(r) \/ Return(r) \/ Stop(r)
  <2>1. PICK r \in Rank : RunWith(r) \/ Return(r) \/ Stop(r)
    BY <1>2
  <2>2. CASE r = Root
    BY <1>1, <2>1, <2>2, RunWithSelects, ReturnSelects, StopSelects
  <2>3. CASE r # Root
    <3>1. UNCHANGED <<rows, step[Root], pc[Root], center[Root], sel[Root]>>
      BY <1>1, <2>1, <2>3, RankAssumption
         DEF RunWith, Return, Stop, Selection, TypeInv, TypeOK
    <3>2. QED
      BY <1>1, <3>1, RootUntouched
  <2>4. QED
    BY <2>2, <2>3
<1>3. CASE Reduce
  BY <1>1, <1>3, ReduceSelects
<1>4. CASE Save
  BY <1>1, <1>4, SaveSelects
<1>5. CASE UNCHANGED vars
  BY <1>1, <1>5, RootUntouched DEF vars
<1>6. QED
  BY <1>1, <1>2, <1>3, <1>4, <1>5 DEF Next, Finished

\* The rows of a model file are about the particles around the centre of the
\* row before, whenever no other module analysed a step in between: whatever
\* the memory of the calculators was and however the ranks interleave.
THEOREM SelectionLags == Spec => []SelectedAroundThePreviousCenter
<1>1. Init => SelectionInv
  <2>1. SUFFICES ASSUME Init PROVE SelectionInv
    OBVIOUS
  <2>2. pc[Root] = "caller" /\ \A i \in 1 .. NumSets : rows[i] = <<>>
    BY <2>1, RankAssumption DEF Init
  <2>3. SelectedAroundThePreviousCenter
    BY <2>2 DEF SelectedAroundThePreviousCenter
  <2>4. QED
    BY <2>2, <2>3 DEF SelectionInv, CenterKept
<1>2. SelectionInv => SelectedAroundThePreviousCenter
  BY DEF SelectionInv
<1>3. QED
  BY <1>1, <1>2, SelectionInvStep, TypeInvHolds, RowsInvHolds, PTL DEF Spec
=============================================================================
