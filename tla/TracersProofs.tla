---------------------------- MODULE TracersProofs ----------------------------
(***************************************************************************)
(* Proofs about Tracers, for any number of ranks, any tracers and anchors, *)
(* any drift of the galaxy and any number of rounds, steps and restarts;   *)
(* that tracers stay attached, for any drift that keeps the anchors within *)
(* the region around their last centre.                                    *)
(***************************************************************************)
EXTENDS Tracers, Recursion, FiniteSetTheorems, TLAPS

-----------------------------------------------------------------------------
(***************************************************************************)
(* The inductive invariant.                                                *)
(***************************************************************************)

\* Every rank is somewhere.
Places == DOMAIN pc = Rank /\ DOMAIN at = Rank

\* Where ranks are that have yet to enter the first round of recentring.
Entry == <<1, 0>>

\* All ranks hold one centre.  They come to the first round one by one, and
\* from then on they are together: in the later rounds, and after the loop.
Together ==
  /\ Places
  /\ \A r \in Rank : center[r] = center[0]
  /\ \A r \in Rank : pc[r] \in {"first", "sum"} => at[r] = Entry
  /\ \A r, s \in Rank :
       pc[r] = "center" /\ at[r] # Entry => pc[s] = "center" /\ at[s] = at[r]
  /\ \A r, s \in Rank :
       pc[r] \in {"check", "end"} => pc[s] = pc[r] /\ at[s] = Nowhere

\* The rank that writes is one of the ranks.
LEMMA RootIsARank == 0 \in Rank
BY RanksAssumption DEF Rank

\* The invariant says of the ranks in the same round what it has to.
LEMMA TogetherSuffices == Together => RecentreTogether
<1>1. SUFFICES ASSUME Together, NEW r \in Rank,
                      pc[r] \in {"center", "check", "end"},
                      pc[0] \in {"center", "check", "end"}
               PROVE  pc[r] = pc[0] /\ at[r] = at[0] /\ center[r] = center[0]
  BY DEF RecentreTogether
<1>2. CASE pc[r] \in {"check", "end"} \/ pc[0] \in {"check", "end"}
  BY <1>1, <1>2, RootIsARank DEF Together
<1>3. CASE pc[r] = "center" /\ pc[0] = "center"
  BY <1>1, <1>3, RootIsARank DEF Together
<1>4. QED
  BY <1>1, <1>2, <1>3

-----------------------------------------------------------------------------
(***************************************************************************)
(* The steps.                                                              *)
(***************************************************************************)

\* A program that starts, or one that is down, is in front of the main loop.
LEMMA FreshTogether ==
  ASSUME pc' = Fresh.pc, at' = Fresh.at, center' = Fresh.center
  PROVE  Together'
<1>1. /\ pc' = [r \in Rank |-> "loop"]
      /\ at' = [r \in Rank |-> Nowhere]
      /\ center' = [r \in Rank |-> 0]
  BY DEF Fresh
<1>2. QED
  BY <1>1, RootIsARank DEF Together, Places

\* The step begins on all ranks, and each goes to gather or to recentre.
LEMMA AdvanceTogether ==
  ASSUME Together, Advance
  PROVE  Together'
<1>1. /\ center' = center
      /\ DOMAIN pc' = Rank /\ DOMAIN at' = Rank
  BY DEF Advance
<1>2. \/ \A r \in Rank : pc'[r] \in {"write", "gather"}
      \/ \A r \in Rank : pc'[r] = "center" /\ at'[r] = Entry
  BY DEF Advance, Entry
<1>3. QED
  BY <1>1, <1>2 DEF Together, Places

\* A rank that is done with the output goes on to the entry of a later call.
LEMMA Leaving ==
  ASSUME NEW r
  PROVE  AfterOutput(r).pc \in {"first", "center"} /\ AfterOutput(r).at = Entry
BY DEF AfterOutput, Entry

\* While rank 0 gathers nobody is past the entry of the first round.
LEMMA TransferTogether ==
  ASSUME Together, NEW i \in Rank \ {0}, Transfer(i)
  PROVE  Together'
<1>1. /\ center' = center
      /\ pc[0] = "gather" /\ pc[i] = "gather"
      /\ \A r \in Rank \ {0, i} : pc'[r] = pc[r] /\ at'[r] = at[r]
      /\ DOMAIN pc' = Rank /\ DOMAIN at' = Rank
  BY DEF Transfer, Together, Places
<1>2. pc'[0] \in {"gather", "write"}
  BY RootIsARank DEF Transfer, Together, Places, RootNext
<1>3. pc'[i] = "gather" \/ (pc'[i] \in {"first", "center"} /\ at'[i] = Entry)
  BY Leaving DEF Transfer, Together, Places
<1>4. \A r \in Rank : pc[r] \notin {"check", "end"}
  BY <1>1, RootIsARank DEF Together
<1>5. \A r \in Rank : pc[r] = "center" => at[r] = Entry
  BY <1>1, RootIsARank DEF Together
<1>6. \A r \in Rank : /\ pc'[r] \notin {"check", "end"}
                      /\ pc'[r] \in {"first", "sum", "center"} => at'[r] = Entry
  BY <1>1, <1>2, <1>3, <1>4, <1>5 DEF Together
<1>7. QED
  BY <1>1, <1>6 DEF Together, Places

\* Nor while it writes.
LEMMA WriteTogether ==
  ASSUME Together, Write
  PROVE  Together'
<1>1. /\ center' = center
      /\ pc[0] = "write"
      /\ \A r \in Rank \ {0} : pc'[r] = pc[r] /\ at'[r] = at[r]
      /\ DOMAIN pc' = Rank /\ DOMAIN at' = Rank
  BY DEF Write, Together, Places
<1>2. pc'[0] \in {"first", "center"} /\ at'[0] = Entry
  BY Leaving, RootIsARank DEF Write, Together, Places
<1>3. \A r \in Rank : pc[r] \notin {"check", "end"}
  BY <1>1, RootIsARank DEF Together
<1>4. \A r \in Rank : pc[r] = "center" => at[r] = Entry
  BY <1>1, RootIsARank DEF Together
<1>5. \A r \in Rank : /\ pc'[r] \notin {"check", "end"}
                      /\ pc'[r] \in {"first", "sum", "center"} => at'[r] = Entry
  BY <1>1, <1>2, <1>3, <1>4 DEF Together
<1>6. QED
  BY <1>1, <1>5 DEF Together, Places

\* The backup is taken by all ranks, which then stand in front of the loop.
LEMMA BackupTogether ==
  ASSUME Together, ReduceFirst \/ SumInit
  PROVE  Together'
<1>1. UNCHANGED <<at, center>>
  BY DEF ReduceFirst, SumInit
<1>2. \A r \in Rank : pc[r] \in {"first", "sum"}
  BY DEF ReduceFirst, SumInit, All
<1>3. \/ pc' = [r \in Rank |-> "sum"]
      \/ pc' = [r \in Rank |-> "center"]
  BY DEF ReduceFirst, SumInit
<1>4. \A r \in Rank : at'[r] = Entry
  BY <1>1, <1>2 DEF Together
<1>5. QED
  BY <1>1, <1>3, <1>4 DEF Together, Places

\* All ranks reduce the same sums and compare them with the same old centre:
\* either all of them leave the loop or all go on to the same next round.
LEMMA RecenterTogether ==
  ASSUME Together, Recenter
  PROVE  Together'
<1>1. \A r \in Rank : at[r] = at[0] /\ center[r] = center[0]
  BY DEF Recenter, Together
<1>2. \A r \in Rank : Mean(r) = Mean(0)
  BY DEF Mean
<1>3. \A r \in Rank : Leaves(r) <=> Leaves(0)
  BY <1>1, <1>2 DEF Leaves, Converged
<1>4. /\ pc' = [r \in Rank |-> IF Leaves(r) THEN Onward ELSE "center"]
      /\ at' = [r \in Rank |-> IF Leaves(r) THEN Nowhere ELSE <<at[r][1] + 1, 0>>]
      /\ center' = [r \in Rank |-> Mean(r)]
  BY DEF Recenter
<1>5. \A r \in Rank : center'[r] = center'[0]
  BY <1>2, <1>4, RootIsARank
<1>6. CASE Leaves(0)
  <2>1. \A r \in Rank : pc'[r] = Onward /\ at'[r] = Nowhere
    BY <1>3, <1>4, <1>6
  <2>2. QED
    BY <1>4, <1>5, <2>1 DEF Together, Places, Onward
<1>7. CASE ~Leaves(0)
  <2>1. \A r \in Rank : pc'[r] = "center" /\ at'[r] = <<at[0][1] + 1, 0>>
    BY <1>1, <1>3, <1>4, <1>7
  <2>2. QED
    BY <1>4, <1>5, <2>1 DEF Together, Places
<1>8. QED
  BY <1>6, <1>7

\* What follows the loop is entered by all ranks at once as well.
LEMMA CheckTogether ==
  ASSUME Together, Check \/ End
  PROVE  Together'
<1>1. UNCHANGED <<at, center>>
  BY DEF Check, End
<1>2. pc' = [r \in Rank |-> "loop"] \/ pc' = [r \in Rank |-> "done"]
  BY DEF Check, End, Fresh
<1>3. QED
  BY <1>1, <1>2 DEF Together, Places

-----------------------------------------------------------------------------
(***************************************************************************)
(* The theorem.                                                            *)
(***************************************************************************)

\* Together is inductive.
LEMMA TogetherStep == Together /\ [Next]_vars => Together'
<1>1. SUFFICES ASSUME Together, [Next]_vars PROVE Together'
  OBVIOUS
<1>2. CASE Step /\ ~(Stop \/ End \/ Check)
  BY <1>1, <1>2, AdvanceTogether, WriteTogether, BackupTogether,
     RecenterTogether, TransferTogether DEF Step
<1>3. CASE Check \/ End
  BY <1>1, <1>3, CheckTogether
<1>4. CASE Stop \/ Crash
  BY <1>4, FreshTogether DEF Stop, Crash, Down
<1>5. CASE Restart
  BY <1>1, <1>5 DEF Restart, Together, Places
<1>6. CASE UNCHANGED vars
  BY <1>1, <1>6 DEF vars, Together, Places
<1>7. QED
  BY <1>1, <1>2, <1>3, <1>4, <1>5, <1>6 DEF Next

\* Nobody is past the main loop at first.
LEMMA InitTogether == Init => Together
<1>1. SUFFICES ASSUME Init PROVE Together
  OBVIOUS
<1>2. /\ pc = [r \in Rank |-> "loop"]
      /\ at = [r \in Rank |-> Nowhere]
      /\ center = [r \in Rank |-> 0]
  BY <1>1 DEF Init, Fresh
<1>3. QED
  BY <1>2, RootIsARank DEF Together, Places

\* The ranks, each deciding alone whether the centre has converged, leave the
\* recentring loop in the same round with the same centre, so that no rank
\* enters a reduction of the loop that another one has left.
THEOREM RanksRecentreTogether == Spec => []RecentreTogether
BY InitTogether, TogetherStep, TogetherSuffices, PTL DEF Spec

-----------------------------------------------------------------------------
(***************************************************************************)
(* What is gathered.                                                       *)
(***************************************************************************)

\* The tracers of a rank, and those of the ranks before it.
Of(where, i) == {t \in Tracer : where[t] = i}
Before(where, i) == {t \in Tracer : where[t] < i}

\* The arrays of rank 0 begin with the tracers of S, each once, with its own
\* coordinate and potential of step s.
Listed(arrays, s, S) ==
  /\ arrays.offset = Cardinality(S)
  /\ \A k \in 0 .. Cardinality(S) - 1 :
       /\ arrays.ids[k] \in S
       /\ arrays.pos[k] = <<arrays.ids[k], s>>
       /\ arrays.pot[k] = <<arrays.ids[k], s>>
  /\ \A t \in S : \E k \in 0 .. Cardinality(S) - 1 : arrays.ids[k] = t

\* Behind those of the ranks before i there is what rank i has sent so far: its
\* size, then an array of potentials, then one of coordinates.
Arrived(arrays, part, where, i, s) ==
  /\ Listed(arrays, s, Before(where, i))
  /\ part > 1 => arrays.size = Cardinality(Of(where, i))
  /\ part > 2 =>
       \A k \in 1 .. Cardinality(Of(where, i)) :
         arrays.pot[arrays.offset + k - 1] = <<SetToSeq(Of(where, i))[k], s>>
  /\ part > 3 =>
       \A k \in 1 .. Cardinality(Of(where, i)) :
         arrays.pos[arrays.offset + k - 1] = <<SetToSeq(Of(where, i))[k], s>>

\* The counts are numbers, and every subset of the tracers has one.
LEMMA Counts ==
  /\ Cardinality(Tracer) \in Nat /\ Cardinality(Anchor) \in Nat
  /\ \A S \in SUBSET Tracer :
       IsFiniteSet(S) /\ Cardinality(S) \in Nat /\ Cardinality(S) <= Cardinality(Tracer)
<1>1. IsFiniteSet(Tracer) /\ IsFiniteSet(Anchor)
  BY TracerAssumption
<1>2. ASSUME NEW S \in SUBSET Tracer
      PROVE  IsFiniteSet(S) /\ Cardinality(S) \in Nat /\ Cardinality(S) <= Cardinality(Tracer)
  BY <1>1, FS_Subset, FS_CardinalityType
<1>3. QED
  BY <1>1, <1>2, FS_CardinalityType

\* A rank lists its tracers once each.
LEMMA ListOf ==
  ASSUME NEW S, IsFiniteSet(S)
  PROVE  /\ Cardinality(S) \in Nat
         /\ SetToSeq(S) \in [1 .. Cardinality(S) -> S]
         /\ Len(SetToSeq(S)) = Cardinality(S)
         /\ \A x \in S : \E k \in 1 .. Cardinality(S) : SetToSeq(S)[k] = x
<1> DEFINE n == Cardinality(S)
<1>1. n \in Nat /\ ExistsBijection(1 .. n, S)
  BY FS_CardinalityType
<1>2. \E f \in [1 .. n -> S] : IsInjective(f)
  BY <1>1 DEF ExistsBijection, Bijection, Injection
<1>3. SetToSeq(S) \in [1 .. n -> S] /\ IsInjective(SetToSeq(S))
  BY <1>2 DEF SetToSeq
<1>4. SetToSeq(S) \in Injection(1 .. n, S)
  BY <1>3 DEF Injection
<1>5. Cardinality(1 .. n) = n
  BY <1>1, FS_Interval
<1>6. SetToSeq(S) \in Surjection(1 .. n, S)
  BY <1>4, <1>5, FS_Injection
<1>7. \A x \in S : \E k \in 1 .. n : SetToSeq(S)[k] = x
  BY <1>6 DEF Surjection
<1>8. Len(SetToSeq(S)) = n
  BY <1>1, <1>3
<1>9. QED
  BY <1>1, <1>3, <1>7, <1>8

\* Filling an array leaves what is before ...
LEMMA FilledBefore ==
  ASSUME NEW array, NEW data, NEW from \in Nat, from <= Cardinality(Tracer),
         DOMAIN data \subseteq Nat \ {0}, NEW k \in 0 .. from - 1
  PROVE  Filled(array, from, data)[k] = array[k]
<1>1. k \in Index /\ k - from + 1 \notin DOMAIN data
  BY Counts DEF Index
<1>2. QED
  BY <1>1 DEF Filled

\* ... and puts the data behind it.
LEMMA FilledBehind ==
  ASSUME NEW array, NEW data, NEW from \in Nat, NEW k \in DOMAIN data,
         k \in Nat \ {0}, from + k <= Cardinality(Tracer)
  PROVE  Filled(array, from, data)[from + k - 1] = data[k]
<1>1. from + k - 1 \in Index /\ (from + k - 1) - from + 1 = k
  BY Counts DEF Index
<1>2. QED
  BY <1>1 DEF Filled

\* The tracers of the ranks up to i are those before i and those of i.
LEMMA OneRankMore ==
  ASSUME NEW where \in [Tracer -> Rank], NEW i \in Rank
  PROVE  /\ Before(where, i + 1) = Before(where, i) \cup Of(where, i)
         /\ Cardinality(Before(where, i + 1)) =
              Cardinality(Before(where, i)) + Cardinality(Of(where, i))
         /\ Cardinality(Before(where, i + 1)) <= Cardinality(Tracer)
         /\ Cardinality(Before(where, i)) \in Nat /\ Cardinality(Of(where, i)) \in Nat
         /\ IsFiniteSet(Of(where, i))
<1>1. Before(where, i + 1) = Before(where, i) \cup Of(where, i)
  BY DEF Before, Of, Rank
<1>2. Before(where, i) \cap Of(where, i) = {}
  BY DEF Before, Of, Rank
<1>3. \A j : Before(where, j) \in SUBSET Tracer /\ Of(where, j) \in SUBSET Tracer
  BY DEF Before, Of
<1>4. /\ IsFiniteSet(Before(where, i)) /\ IsFiniteSet(Of(where, i))
      /\ Cardinality(Before(where, i)) \in Nat /\ Cardinality(Of(where, i)) \in Nat
      /\ Cardinality(Before(where, i + 1)) <= Cardinality(Tracer)
  BY <1>3, Counts
<1> DEFINE b == Cardinality(Before(where, i))
           n == Cardinality(Of(where, i))
<1>5. Cardinality(Before(where, i) \cup Of(where, i)) = b + n
  <2>1. Cardinality(Before(where, i) \cup Of(where, i)) = b + n - Cardinality({})
    BY <1>2, <1>4, FS_Union
  <2>2. Cardinality({}) = 0
    BY FS_EmptySet
  <2>3. QED
    BY <1>4, <2>1, <2>2
<1>6. Cardinality(Before(where, i + 1)) = b + n
  BY <1>1, <1>5
<1>7. QED
  BY <1>1, <1>4, <1>6

\* All tracers are before the number of ranks, none before 0.
LEMMA AllAreBefore ==
  ASSUME NEW where \in [Tracer -> Rank]
  PROVE  Before(where, NumRanks) = Tracer /\ Before(where, 0) = {}
BY RanksAssumption DEF Before, Rank


\* With the ids of rank i, the tracers of the ranks up to i are there.
LEMMA IdsArrive ==
  ASSUME NEW where \in [Tracer -> Rank], NEW i \in Rank, NEW s,
         NEW arrays, NEW new, Arrived(arrays, 4, where, i, s),
         new.offset = arrays.offset + arrays.size,
         new.pot = arrays.pot, new.pos = arrays.pos,
         new.ids = Filled(arrays.ids, arrays.offset, SetToSeq(Of(where, i)))
  PROVE  Listed(new, s, Before(where, i + 1))
<1> DEFINE b == Cardinality(Before(where, i))
           n == Cardinality(Of(where, i))
           list == SetToSeq(Of(where, i))
<1>1. /\ b \in Nat /\ n \in Nat
      /\ Cardinality(Before(where, i + 1)) = b + n /\ b + n <= Cardinality(Tracer)
      /\ Before(where, i + 1) = Before(where, i) \cup Of(where, i)
  BY OneRankMore
<1>2. /\ arrays.offset = b /\ arrays.size = n
      /\ \A k \in 0 .. b - 1 :
           /\ arrays.ids[k] \in Before(where, i)
           /\ arrays.pos[k] = <<arrays.ids[k], s>>
           /\ arrays.pot[k] = <<arrays.ids[k], s>>
      /\ \A t \in Before(where, i) : \E k \in 0 .. b - 1 : arrays.ids[k] = t
  BY DEF Arrived, Listed
<1>3. \A k \in 1 .. n : /\ arrays.pot[b + k - 1] = <<list[k], s>>
                        /\ arrays.pos[b + k - 1] = <<list[k], s>>
  BY <1>2 DEF Arrived
<1>4. /\ list \in [1 .. n -> Of(where, i)]
      /\ \A t \in Of(where, i) : \E k \in 1 .. n : list[k] = t
  BY OneRankMore, ListOf
<1>5. /\ \A k \in 0 .. b - 1 : new.ids[k] = arrays.ids[k]
      /\ \A k \in 1 .. n : new.ids[b + k - 1] = list[k]
  <2>1. DOMAIN list = 1 .. n /\ new.ids = Filled(arrays.ids, b, list)
    BY <1>2, <1>4
  <2>2. /\ b <= Cardinality(Tracer) /\ DOMAIN list \subseteq Nat \ {0}
        /\ \A k \in 1 .. n : k \in DOMAIN list /\ k \in Nat \ {0}
                            /\ b + k <= Cardinality(Tracer)
    BY <1>1, <2>1, Counts
  <2> HIDE DEF list, b, n
  <2>3. \A k \in 0 .. b - 1 : Filled(arrays.ids, b, list)[k] = arrays.ids[k]
    BY <1>1, <2>2, FilledBefore
  <2>4. \A k \in 1 .. n : Filled(arrays.ids, b, list)[b + k - 1] = list[k]
    BY <1>1, <2>2, FilledBehind
  <2>5. QED
    BY <2>1, <2>3, <2>4
<1>6. ASSUME NEW k \in 0 .. b + n - 1
      PROVE  /\ new.ids[k] \in Before(where, i + 1)
             /\ new.pos[k] = <<new.ids[k], s>>
             /\ new.pot[k] = <<new.ids[k], s>>
  <2>1. CASE k < b
    <3>1. k \in 0 .. b - 1
      BY <1>1, <2>1
    <3>2. QED
      BY <1>1, <1>2, <1>5, <3>1
  <2>2. CASE k >= b
    <3>1. PICK j \in 1 .. n : k = b + j - 1
      <4>1. k - b + 1 \in 1 .. n /\ k = b + (k - b + 1) - 1
        BY <1>1, <2>2
      <4>2. QED
        BY <4>1
    <3>2. new.ids[k] = list[j] /\ list[j] \in Of(where, i)
      BY <1>4, <1>5, <3>1
    <3>3. new.pos[k] = <<list[j], s>> /\ new.pot[k] = <<list[j], s>>
      BY <1>3, <3>1
    <3>4. QED
      BY <1>1, <3>2, <3>3
  <2>3. QED
    BY <1>1, <2>1, <2>2
<1>7. ASSUME NEW t \in Before(where, i + 1)
      PROVE  \E k \in 0 .. b + n - 1 : new.ids[k] = t
  <2>1. CASE t \in Before(where, i)
    <3>1. PICK k \in 0 .. b - 1 : arrays.ids[k] = t
      BY <1>2, <2>1
    <3>2. k \in 0 .. b + n - 1 /\ new.ids[k] = t
      BY <1>1, <1>5, <3>1
    <3>3. QED
      BY <3>2
  <2>2. CASE t \in Of(where, i)
    <3>1. PICK k \in 1 .. n : list[k] = t
      BY <1>4, <2>2
    <3>2. b + k - 1 \in 0 .. b + n - 1 /\ new.ids[b + k - 1] = t
      BY <1>1, <1>5, <3>1
    <3>3. QED
      BY <3>2
  <2>3. QED
    BY <1>1, <1>7, <2>1, <2>2
<1>8. QED
  BY <1>1, <1>2, <1>6, <1>7 DEF Listed

-----------------------------------------------------------------------------
(***************************************************************************)
(* The outputs.                                                            *)
(***************************************************************************)

\* An output of step s that has all tracers.
Complete(s) ==
  [step |-> s,
   rows |-> {[id |-> t, pos |-> <<t, s>>, pot |-> <<t, s>>] : t \in Tracer},
   num  |-> Cardinality(Tracer)]

\* Ranks count their steps together; so does what they are restarted from.
Stepping ==
  /\ step \in [Rank -> Nat] /\ \A r \in Rank : step[r] = step[0]
  /\ disk = NoFile \/ disk.step \in Nat

\* Where rank 0 is in the gathering tells what it has.
Gathering ==
  pc[0] = "gather" =>
    /\ home \in [Tracer -> Rank]
    /\ DOMAIN root = {"offset", "size", "pot", "pos", "ids"}
    /\ \E i \in Rank \ {0}, part \in 1 .. 4 :
         at[0] = <<i, part>> /\ Arrived(root, part, home, i, step[0])

Gathered == pc[0] = "write" => Listed(root, step[0], Tracer)

Outputs == {Complete(s) : s \in Nat}

\* A file is torn or has complete outputs, and no program writes to a torn one.
Filed == file \in Seq(Outputs) \/ (file = Torn /\ ~opened)

OutputInv == Together /\ Stepping /\ Gathering /\ Gathered /\ Filed

\* A file of complete outputs is what the property asks for.
LEMMA CompleteSuffices == OutputInv => OutputsComplete
<1>1. Torn \notin Seq(Outputs)
  <2>1. Torn[1].step = -1 /\ 1 \in DOMAIN Torn
    BY DEF Torn
  <2>2. \A o \in Outputs : o.step \in Nat
    BY DEF Outputs, Complete
  <2> HIDE DEF Torn
  <2>3. QED
    BY <2>1, <2>2
<1>2. ASSUME file \in Seq(Outputs), NEW n \in DOMAIN file
      PROVE  /\ file[n].num = Cardinality(Tracer)
             /\ file[n].rows = {[id |-> t, pos |-> <<t, file[n].step>>,
                                 pot |-> <<t, file[n].step>>] : t \in Tracer}
  <2>1. file[n] \in Outputs
    BY <1>2
  <2>2. PICK s \in Nat : file[n] = Complete(s)
    BY <2>1 DEF Outputs
  <2>3. QED
    BY <2>2 DEF Complete
<1>3. QED
  BY <1>1, <1>2 DEF OutputInv, Filed, OutputsComplete

\* Most steps leave the file alone.
LEMMA FiledStays == ASSUME Filed, UNCHANGED <<file, opened>> PROVE Filed'
<1>1. Torn' = Torn /\ Outputs' = Outputs
  BY DEF Torn, Outputs, Complete
<1>2. QED
  BY <1>1 DEF Filed

\* A step by which rank 0 neither comes to the gathering nor stays in it.
LEMMA NotGathering ==
  ASSUME OutputInv, Together', Stepping', Filed',
         pc'[0] \notin {"gather", "write"}
  PROVE  OutputInv'
BY DEF OutputInv, Gathering, Gathered

\* Rank 0 begins with its own tracers.
LEMMA AdvanceOutput ==
  ASSUME OutputInv, Advance
  PROVE  OutputInv'
<1>1. /\ UNCHANGED <<step, disk, file, opened>>
      /\ home' \in [Tracer -> Rank]
      /\ step[0] \in Nat /\ 0 \in Rank
  BY RootIsARank DEF Advance, OutputInv, Stepping, output, life
<1>2. Together' /\ Stepping' /\ Filed'
  BY <1>1, AdvanceTogether, FiledStays DEF OutputInv, Stepping
<1>3. CASE step[0] % PotOutStep # 0
  <2>1. pc'[0] = "center"
    BY <1>1, <1>3 DEF Advance
  <2>2. QED
    BY <1>1, <1>2, <2>1, NotGathering
<1>4. CASE step[0] % PotOutStep = 0
  <2> DEFINE list == SetToSeq(Of(home', 0))
             n == Cardinality(Of(home', 0))
             data == [k \in DOMAIN list |-> <<list[k], step[0]>>]
  <2>1. /\ pc'[0] = IF NumRanks = 1 THEN "write" ELSE "gather"
        /\ at'[0] = <<1, 1>>
        /\ root' = RootCopied
    BY <1>1, <1>4 DEF Advance
  <2>2. LocalIDs(0)' = list /\ LocalData(0)' = data
    BY <1>1 DEF LocalIDs, LocalData, Own, Of
  <2>3. /\ n \in Nat /\ list \in [1 .. n -> Of(home', 0)] /\ Len(list) = n
        /\ \A t \in Of(home', 0) : \E k \in 1 .. n : list[k] = t
        /\ n <= Cardinality(Tracer)
    BY <1>1, OneRankMore, ListOf, Counts DEF Of
  <2>4. root' = [offset |-> n, size |-> root.size,
                 pot |-> Filled(root.pot, 0, data),
                 pos |-> Filled(root.pos, 0, data),
                 ids |-> Filled(root.ids, 0, list)]
    BY <2>1, <2>2, <2>3 DEF RootCopied
  <2>5. DOMAIN root' = {"offset", "size", "pot", "pos", "ids"}
    BY <2>4
  <2>6. /\ root'.offset = n
        /\ \A k \in 1 .. n : /\ root'.ids[k - 1] = list[k]
                              /\ root'.pos[k - 1] = <<list[k], step[0]>>
                              /\ root'.pot[k - 1] = <<list[k], step[0]>>
    <3>1. DOMAIN list = 1 .. n /\ DOMAIN data = 1 .. n
      BY <2>3
    <3>2. \A k \in 1 .. n : /\ Filled(root.ids, 0, list)[0 + k - 1] = list[k]
                            /\ Filled(root.pos, 0, data)[0 + k - 1] = data[k]
                            /\ Filled(root.pot, 0, data)[0 + k - 1] = data[k]
      <4>1. 0 \in Nat /\ 0 + n <= Cardinality(Tracer)
        BY <2>3, Counts
      <4>2. ASSUME NEW k \in 1 .. n
            PROVE  /\ k \in DOMAIN list /\ k \in DOMAIN data
                   /\ k \in Nat \ {0} /\ 0 + k <= Cardinality(Tracer)
        BY <2>3, <3>1, Counts
      <4> HIDE DEF list, n, data
      <4>3. QED
        BY <4>1, <4>2, FilledBehind
    <3>3. \A k \in 1 .. n : data[k] = <<list[k], step[0]>> /\ 0 + k - 1 = k - 1
      BY <2>3, <3>1
    <3>4. QED
      BY <2>4, <3>2, <3>3
  <2>7. Before(home', 1) = Of(home', 0)
    BY <1>1, RanksAssumption DEF Before, Of, Rank
  <2>8. Listed(root', step'[0], Before(home', 1))
    <3>1. ASSUME NEW k \in 0 .. n - 1
          PROVE  /\ root'.ids[k] \in Of(home', 0)
                 /\ root'.pos[k] = <<root'.ids[k], step[0]>>
                 /\ root'.pot[k] = <<root'.ids[k], step[0]>>
      <4>1. k + 1 \in 1 .. n /\ (k + 1) - 1 = k
        BY <2>3
      <4>2. list[k + 1] \in Of(home', 0)
        BY <2>3, <4>1
      <4>3. QED
        BY <2>6, <4>1, <4>2
    <3>2. ASSUME NEW t \in Of(home', 0)
          PROVE  \E k \in 0 .. n - 1 : root'.ids[k] = t
      <4>1. PICK k \in 1 .. n : list[k] = t
        BY <2>3
      <4>2. k - 1 \in 0 .. n - 1 /\ root'.ids[k - 1] = t
        BY <2>3, <2>6, <4>1
      <4>3. QED
        BY <4>2
    <3>3. QED
      BY <1>1, <2>6, <2>7, <3>1, <3>2 DEF Listed
  <2>9. CASE NumRanks = 1
    <3>1. Before(home', 1) = Tracer
      BY <1>1, <2>9, AllAreBefore
    <3>2. QED
      BY <1>1, <1>2, <2>1, <2>8, <2>9, <3>1 DEF OutputInv, Gathering, Gathered
  <2>10. CASE NumRanks # 1
    <3>1. 1 \in Rank \ {0} /\ 1 \in 1 .. 4
      BY <2>10, RanksAssumption DEF Rank
    <3>2. Arrived(root', 1, home', 1, step'[0])
      BY <2>8 DEF Arrived
    <3>3. QED
      BY <1>1, <1>2, <2>1, <2>5, <2>10, <3>1, <3>2 DEF OutputInv, Gathering, Gathered
  <2>11. QED
    BY <2>9, <2>10
<1>5. QED
  BY <1>3, <1>4


\* What a rank sends of a list of tracers at step s.
DataOf(list, s) == [k \in DOMAIN list |-> <<list[k], s>>]

\* The data of a list of tracers fill the cells behind the first b ones.
LEMMA DataArrives ==
  ASSUME NEW b \in Nat, NEW n \in Nat, NEW list, NEW s, NEW array,
         DOMAIN list = 1 .. n, b + n <= Cardinality(Tracer)
  PROVE  /\ \A k \in 0 .. b - 1 : Filled(array, b, DataOf(list, s))[k] = array[k]
         /\ \A k \in b .. b + n - 1 :
              Filled(array, b, DataOf(list, s))[k] = <<list[k - b + 1], s>>
<1> DEFINE data == DataOf(list, s)
<1>1. /\ b <= Cardinality(Tracer) /\ DOMAIN data = 1 .. n
      /\ DOMAIN data \subseteq Nat \ {0}
      /\ \A k \in 1 .. n : data[k] = <<list[k], s>>
  BY Counts DEF DataOf
<1> HIDE DEF data
<1>2. ASSUME NEW k \in 0 .. b - 1
      PROVE  Filled(array, b, data)[k] = array[k]
  BY <1>1, FilledBefore
<1>3. ASSUME NEW k \in b .. b + n - 1
      PROVE  Filled(array, b, data)[k] = <<list[k - b + 1], s>>
  <2>1. k - b + 1 \in DOMAIN data /\ k - b + 1 \in 1 .. n /\ k \in Index
    BY <1>1, Counts DEF Index
  <2>2. Filled(array, b, data)[k] = data[k - b + 1]
    BY <2>1 DEF Filled
  <2>3. QED
    BY <1>1, <2>1, <2>2
<1>4. QED
  BY <1>2, <1>3 DEF data

\* A message of rank i brings what is next; the last one completes the rank.
LEMMA MessageArrives ==
  ASSUME home \in [Tracer -> Rank], NEW i \in Rank, NEW part \in 1 .. 4,
         DOMAIN root = {"offset", "size", "pot", "pos", "ids"}, step[i] = step[0],
         Arrived(root, part, home, i, step[0]), NEW new, new = Received(i, RecvOrder[part])
  PROVE  /\ DOMAIN new = {"offset", "size", "pot", "pos", "ids"}
         /\ part < 4 => Arrived(new, part + 1, home, i, step[0])
         /\ part = 4 => Listed(new, step[0], Before(home, i + 1))
<1> DEFINE b == Cardinality(Before(home, i))
           n == Cardinality(Of(home, i))
           list == SetToSeq(Of(home, i))
           data == [k \in DOMAIN list |-> <<list[k], step[0]>>]
<1>1. /\ b \in Nat /\ n \in Nat /\ Len(list) = n
      /\ LocalIDs(i) = list /\ LocalData(i) = data
  BY OneRankMore, ListOf DEF LocalIDs, LocalData, Own, Of
<1>2. DOMAIN list = 1 .. n /\ b + n <= Cardinality(Tracer)
  BY OneRankMore, ListOf
<1>3. /\ \A k \in 0 .. b - 1 : /\ Filled(root.pot, b, data)[k] = root.pot[k]
                              /\ Filled(root.pos, b, data)[k] = root.pos[k]
      /\ \A k \in 1 .. n :
           /\ Filled(root.pot, b, data)[b + k - 1] = <<list[k], step[0]>>
           /\ Filled(root.pos, b, data)[b + k - 1] = <<list[k], step[0]>>
  <2>1. b \in Nat /\ n \in Nat /\ data = DataOf(list, step[0])
    BY <1>1 DEF DataOf
  <2> HIDE DEF b, n, list, data
  <2>2. ASSUME NEW array
        PROVE  /\ \A k \in 0 .. b - 1 : Filled(array, b, data)[k] = array[k]
               /\ \A k \in 1 .. n :
                    Filled(array, b, data)[b + k - 1] = <<list[k], step[0]>>
    <3>1. DOMAIN list = 1 .. n /\ b + n <= Cardinality(Tracer)
      BY <1>2
    <3>2. \A k \in 0 .. b - 1 : Filled(array, b, DataOf(list, step[0]))[k] = array[k]
      BY <2>1, <3>1, DataArrives
    <3>3. \A k \in b .. b + n - 1 :
            Filled(array, b, DataOf(list, step[0]))[k] = <<list[k - b + 1], step[0]>>
      BY <2>1, <3>1, DataArrives
    <3>4. ASSUME NEW k \in 1 .. n
          PROVE  Filled(array, b, data)[b + k - 1] = <<list[k], step[0]>>
      <4>1. b + k - 1 \in b .. b + n - 1 /\ (b + k - 1) - b + 1 = k
        BY <2>1
      <4>2. QED
        BY <2>1, <3>3, <4>1
    <3>5. QED
      BY <2>1, <3>2, <3>4
  <2>3. QED
    BY <2>2
<1>4. /\ root.offset = b
      /\ \A k \in 0 .. b - 1 :
           /\ root.ids[k] \in Before(home, i)
           /\ root.pos[k] = <<root.ids[k], step[0]>>
           /\ root.pot[k] = <<root.ids[k], step[0]>>
      /\ \A t \in Before(home, i) : \E k \in 0 .. b - 1 : root.ids[k] = t
  BY DEF Arrived, Listed
<1>5. CASE part = 1
  <2>1. new = [root EXCEPT !.size = n]
    BY <1>1, <1>5 DEF Received, RecvOrder
  <2>2. /\ DOMAIN new = {"offset", "size", "pot", "pos", "ids"} /\ new.size = n
        /\ new.offset = root.offset /\ new.pot = root.pot /\ new.pos = root.pos
        /\ new.ids = root.ids
    BY <2>1
  <2>3. QED
    BY <1>4, <1>5, <2>2 DEF Arrived, Listed
<1>6. CASE part = 2
  <2>1. new = [root EXCEPT !.pot = Filled(root.pot, b, data)]
    BY <1>1, <1>4, <1>6 DEF Received, RecvOrder
  <2>2. /\ DOMAIN new = {"offset", "size", "pot", "pos", "ids"} /\ new.size = root.size
        /\ new.offset = b /\ new.pot = Filled(root.pot, b, data)
        /\ new.pos = root.pos /\ new.ids = root.ids
    BY <1>4, <2>1
  <2>3. /\ \A k \in 0 .. b - 1 : new.pot[k] = root.pot[k]
        /\ \A k \in 1 .. n : new.pot[b + k - 1] = <<list[k], step[0]>>
    BY <1>3, <2>2
  <2>4. QED
    BY <1>4, <1>6, <2>2, <2>3 DEF Arrived, Listed
<1>7. CASE part = 3
  <2>1. new = [root EXCEPT !.pos = Filled(root.pos, b, data)]
    BY <1>1, <1>4, <1>7 DEF Received, RecvOrder
  <2>2. /\ DOMAIN new = {"offset", "size", "pot", "pos", "ids"} /\ new.size = root.size
        /\ new.offset = b /\ new.pos = Filled(root.pos, b, data)
        /\ new.pot = root.pot /\ new.ids = root.ids
    BY <1>4, <2>1
  <2>3. /\ \A k \in 0 .. b - 1 : new.pos[k] = root.pos[k]
        /\ \A k \in 1 .. n : new.pos[b + k - 1] = <<list[k], step[0]>>
    BY <1>3, <2>2
  <2>4. QED
    BY <1>4, <1>7, <2>2, <2>3 DEF Arrived, Listed
<1>8. CASE part = 4
  <2>1. new = [root EXCEPT !.ids = Filled(root.ids, root.offset, list),
                           !.offset = root.offset + root.size]
    BY <1>1, <1>8 DEF Received, RecvOrder, NextOffset
  <2>2. /\ DOMAIN new = {"offset", "size", "pot", "pos", "ids"}
        /\ new.offset = root.offset + root.size
        /\ new.pos = root.pos /\ new.pot = root.pot
        /\ new.ids = Filled(root.ids, root.offset, list)
    BY <2>1
  <2>3. Listed(new, step[0], Before(home, i + 1))
    BY <1>8, <2>2, IdsArrive
  <2>4. QED
    BY <1>8, <2>2, <2>3
<1>9. QED
  BY <1>5, <1>6, <1>7, <1>8

\* Rank 0 goes through the ranks in their order, and has all of them behind the
\* last message.
LEMMA TransferOutput ==
  ASSUME OutputInv, NEW i \in Rank \ {0}, Transfer(i)
  PROVE  OutputInv'
<1>1. /\ UNCHANGED <<step, home, file, opened, disk>>
      /\ pc[0] = "gather" /\ at[0][1] = i
      /\ root' = Received(i, RecvOrder[at[0][2]])
      /\ pc'[0] = RootNext(i, at[0][2]).pc /\ at'[0] = RootNext(i, at[0][2]).at
  BY RootIsARank DEF Transfer, OutputInv, Together, Places, particles, output, life
<1>2. Together' /\ Stepping' /\ Filed'
  BY <1>1, TransferTogether, FiledStays DEF OutputInv, Stepping
<1>3. /\ home \in [Tracer -> Rank]
      /\ DOMAIN root = {"offset", "size", "pot", "pos", "ids"}
      /\ step[i] = step[0]
  BY <1>1 DEF OutputInv, Gathering, Stepping
<1>4. PICK part \in 1 .. 4 : at[0] = <<i, part>> /\ Arrived(root, part, home, i, step[0])
  BY <1>1 DEF OutputInv, Gathering
<1>5. /\ DOMAIN root' = {"offset", "size", "pot", "pos", "ids"}
      /\ part < 4 => Arrived(root', part + 1, home, i, step[0])
      /\ part = 4 => Listed(root', step[0], Before(home, i + 1))
  BY <1>1, <1>3, <1>4, MessageArrives
<1>6. CASE part < 4
  <2>1. pc'[0] = "gather" /\ at'[0] = <<i, part + 1>> /\ part + 1 \in 1 .. 4
    BY <1>1, <1>4, <1>6 DEF RootNext, RecvOrder
  <2>2. QED
    BY <1>1, <1>2, <1>3, <1>5, <1>6, <2>1 DEF OutputInv, Gathering, Gathered
<1>7. CASE part = 4 /\ i < NumRanks - 1
  <2>1. pc'[0] = "gather" /\ at'[0] = <<i + 1, 1>>
    BY <1>1, <1>4, <1>7 DEF RootNext, RecvOrder
  <2>2. i + 1 \in Rank \ {0} /\ 1 \in 1 .. 4
    BY <1>7, RanksAssumption DEF Rank
  <2>3. Arrived(root', 1, home, i + 1, step[0])
    BY <1>5, <1>7 DEF Arrived
  <2>4. QED
    BY <1>1, <1>2, <1>3, <1>5, <2>1, <2>2, <2>3 DEF OutputInv, Gathering, Gathered
<1>8. CASE part = 4 /\ ~(i < NumRanks - 1)
  <2>1. pc'[0] = "write"
    BY <1>1, <1>4, <1>8 DEF RootNext, RecvOrder
  <2>2. i + 1 = NumRanks
    BY <1>8, RanksAssumption DEF Rank
  <2>3. Before(home, i + 1) = Tracer
    BY <1>3, <2>2, AllAreBefore
  <2>4. QED
    BY <1>1, <1>2, <1>5, <1>8, <2>1, <2>3 DEF OutputInv, Gathering, Gathered
<1>9. QED
  BY <1>6, <1>7, <1>8

\* What rank 0 has is what it writes.
LEMMA WriteOutput ==
  ASSUME OutputInv, Write
  PROVE  OutputInv'
<1>1. /\ UNCHANGED <<step, disk>>
      /\ step[0] \in Nat
      /\ pc[0] = "write" /\ pc'[0] \in {"first", "center"}
      /\ file' = (IF opened THEN file ELSE <<>>) \o <<Output>>
  BY Leaving, RootIsARank DEF Write, OutputInv, Together, Places, Stepping, life
<1>2. Together' /\ Stepping'
  BY <1>1, WriteTogether DEF OutputInv, Stepping
<1>3. Listed(root, step[0], Tracer)
  BY <1>1 DEF OutputInv, Gathered
<1>4. Output = Complete(step[0])
  <2> DEFINE s == step[0]
             n == Cardinality(Tracer)
             written == {[id |-> root.ids[k], pos |-> root.pos[k], pot |-> root.pot[k]] :
                           k \in 0 .. root.offset - 1}
             wanted == {[id |-> t, pos |-> <<t, s>>, pot |-> <<t, s>>] : t \in Tracer}
  <2>1. /\ root.offset = n
        /\ \A k \in 0 .. n - 1 : /\ root.ids[k] \in Tracer
                                 /\ root.pos[k] = <<root.ids[k], s>>
                                 /\ root.pot[k] = <<root.ids[k], s>>
        /\ \A t \in Tracer : \E k \in 0 .. n - 1 : root.ids[k] = t
    BY <1>3 DEF Listed
  <2>2. written \subseteq wanted
    BY <2>1
  <2>3. ASSUME NEW t \in Tracer
        PROVE  [id |-> t, pos |-> <<t, s>>, pot |-> <<t, s>>] \in written
    <3>1. PICK k \in 0 .. n - 1 : root.ids[k] = t
      BY <2>1
    <3>2. root.pos[k] = <<t, s>> /\ root.pot[k] = <<t, s>> /\ k \in 0 .. root.offset - 1
      BY <2>1, <3>1
    <3>3. QED
      BY <3>1, <3>2
  <2>4. written = wanted
    BY <2>2, <2>3
  <2>5. QED
    BY <2>1, <2>4 DEF Output, Complete
<1>5. Filed'
  <2>1. Output \in Outputs
    BY <1>1, <1>4 DEF Outputs
  <2>2. <<Output>> \in Seq(Outputs)
    BY <2>1
  <2>3. (IF opened THEN file ELSE <<>>) \in Seq(Outputs)
    BY DEF OutputInv, Filed
  <2>4. file' \in Seq(Outputs)
    BY <1>1, <2>2, <2>3
  <2>5. Outputs' = Outputs
    BY DEF Outputs, Complete
  <2>6. QED
    BY <2>4, <2>5 DEF Filed
<1>6. QED
  BY <1>1, <1>2, <1>5 DEF OutputInv, Gathering, Gathered

\* All ranks count the step, or none.
LEMMA RecenterOutput ==
  ASSUME OutputInv, Recenter
  PROVE  OutputInv'
<1>1. /\ UNCHANGED <<disk, file, opened>>
      /\ pc'[0] \notin {"gather", "write"}
  BY RootIsARank DEF Recenter, Onward, output, life
<1>2. Together'
  BY RecenterTogether DEF OutputInv
<1>3. \A r \in Rank : at[r] = at[0] /\ center[r] = center[0] /\ step[r] = step[0]
  BY DEF Recenter, OutputInv, Together, Stepping
<1>4. \A r \in Rank : Mean(r) = Mean(0)
  BY DEF Mean
<1>5. \A r \in Rank : Leaves(r) <=> Leaves(0)
  BY <1>3, <1>4 DEF Leaves, Converged
<1>6. \A r \in Rank : Counted(r) \in Nat /\ Counted(r) = Counted(0)
  BY <1>3, <1>5, RootIsARank DEF Counted, OutputInv, Stepping
<1>7. Stepping'
  BY <1>1, <1>6, RootIsARank DEF Recenter, Stepping, OutputInv
<1>8. Filed'
  BY <1>1, FiledStays DEF OutputInv
<1>9. QED
  BY <1>1, <1>2, <1>7, <1>8, NotGathering

\* A program that is down will begin at the step of a file, or at the first.
LEMMA DownOutput ==
  ASSUME OutputInv, NEW saved, saved = NoFile \/ saved.step \in Nat,
         disk' = NoFile \/ disk'.step \in Nat, Down(saved), file' = file \/ file' = Torn
  PROVE  OutputInv'
<1>1. Together'
  BY FreshTogether DEF Down
<1>2. ~opened' /\ pc'[0] = "loop"
  BY RootIsARank DEF Down, Fresh
<1>3. PICK s \in Nat : step' = [r \in Rank |-> s]
  BY DEF Down, InitialFile
<1>4. Stepping'
  BY <1>3, RootIsARank DEF Stepping
<1>5. Filed'
  <2>1. Torn' = Torn /\ Outputs' = Outputs
    BY DEF Torn, Outputs, Complete
  <2>2. QED
    BY <1>2, <2>1 DEF Filed, OutputInv
<1>6. QED
  BY <1>1, <1>2, <1>4, <1>5, NotGathering

\* OutputInv is inductive.
LEMMA OutputStep == OutputInv /\ [Next]_vars => OutputInv'
<1>1. SUFFICES ASSUME OutputInv, [Next]_vars PROVE OutputInv'
  OBVIOUS
<1>2. Together'
  BY <1>1, TogetherStep DEF OutputInv
<1>3. RestartFile.step \in Nat
  BY <1>1, RootIsARank DEF RestartFile, OutputInv, Stepping
<1>4. CASE Advance \/ Write \/ Recenter \/ \E i \in Rank \ {0} : Transfer(i)
  BY <1>1, <1>4, AdvanceOutput, WriteOutput, RecenterOutput, TransferOutput
<1>5. CASE ReduceFirst \/ SumInit \/ Check \/ End
  <2>1. /\ step' = step /\ UNCHANGED <<file, opened>>
        /\ pc'[0] \in {"sum", "center", "loop", "done"}
        /\ disk' = disk \/ disk' = RestartFile
    BY <1>5, RootIsARank DEF ReduceFirst, SumInit, Check, End, Fresh, output, life
  <2>2. Stepping'
    BY <1>1, <1>3, <2>1 DEF OutputInv, Stepping
  <2>3. Filed'
    BY <1>1, <2>1, FiledStays DEF OutputInv
  <2>4. QED
    BY <1>1, <1>2, <2>1, <2>2, <2>3, NotGathering
<1>6. CASE Stop
  BY <1>1, <1>3, <1>6, DownOutput DEF Stop
<1>7. CASE Crash
  BY <1>1, <1>7, DownOutput DEF Crash, AfterDeath, OutputInv, Stepping
<1>8. CASE Restart \/ UNCHANGED vars
  BY <1>1, <1>2, <1>8 DEF Restart, vars, particles, output, life,
     OutputInv, Stepping, Gathering, Gathered, Filed, Torn, Outputs, Complete
<1>9. QED
  BY <1>1, <1>4, <1>5, <1>6, <1>7, <1>8 DEF Next, Step

LEMMA InitOutput == Init => OutputInv
<1>1. SUFFICES ASSUME Init PROVE OutputInv
  OBVIOUS
<1>2. /\ pc[0] = "loop" /\ file = <<>> /\ disk = NoFile
      /\ step = [r \in Rank |-> 0]
  BY <1>1, RootIsARank DEF Init, Fresh
<1>3. Together
  BY <1>1, InitTogether
<1>4. Stepping
  BY <1>2, RootIsARank DEF Stepping
<1>5. QED
  BY <1>2, <1>3, <1>4 DEF OutputInv, Gathering, Gathered, Filed

\* Every output in the file of a running program, and in what it leaves when it
\* stops, has every tracer once, with its own coordinate and potential of that
\* step, however the tracers are spread: the messages of a rank find their place
\* behind those of the ranks before.  A life begins a file of its own, so that
\* none goes on with what a death tore (run.cc 1194-1277).
THEOREM EveryOutputComplete == Spec => []OutputsComplete
BY InitOutput, OutputStep, CompleteSuffices, PTL DEF Spec

-----------------------------------------------------------------------------
(***************************************************************************)
(* The shift.                                                              *)
(***************************************************************************)

\* What RecenterSize is chosen for: the region around a centre holds all
\* anchors, in the step after and in every round, and the larger one of step 0
\* holds them around the origin.
RegionHolds ==
  /\ Anchor # {}
  /\ \A a \in Anchor : Distance(a, 0) < RecenterSize
  /\ \A a \in Anchor, d \in Drift :
       /\ Distance(d + a, 0) < RecenterSize
       /\ Distance(StartGalaxy + d + a, 0) < RecenterSize * 100

\* All anchors are in the region around the centre.
AllNear ==
  /\ center[0] \in Int
  /\ \A b \in Anchor : Distance(galaxy + b, center[0]) < RecenterSize * Factor(step[0])

\* The least of the ids, which firstIDofPotTracer is when the backup is taken.
Lowest == Min({INT_MAX} \cup Tracer)
Backed == first[0] # INT_MAX

\* What ranks agree on, and who holds what.
Settled ==
  /\ \A r \in Rank : first[r] = first[0]
  /\ first[0] \in {INT_MAX, Lowest}
  /\ galaxy \in Int
  /\ home \in [Tracer -> Rank] /\ anchorHome \in [Anchor -> Rank]

\* Every rank has the initial position of every tracer, of its own ones only
\* while the copies are not yet added up.
Known ==
  Backed => \A r \in Rank, t \in Tracer :
    /\ t - Lowest \in Index
    /\ initPos[r][t - Lowest] = IF pc[0] = "sum" /\ home[t] # r THEN 0 ELSE StartPos[t]

\* The centre of a program that took the backup or has yet to: the origin, then
\* that of the anchors, and within a step one that has all of them around it.
Behind == {"loop", "check", "end", "done"}
Around ==
  Backed \/ step[0] = 0 =>
    /\ pc[0] = "loop" /\ step[0] = 0 => galaxy = StartGalaxy /\ center[0] = 0
    /\ pc[0] \in Behind /\ ~(pc[0] = "loop" /\ step[0] = 0) => center[0] = galaxy
    /\ pc[0] \notin Behind => AllNear

\* At step 0 nothing was shifted; the backup is taken there.
Began ==
  /\ pc[0] \in {"first", "sum"} => step[0] = 0
  /\ pc[0] = "check" => step[0] > 0
  /\ step[0] = 0 /\ pc[0] \notin {"end", "done"} => pos = StartPos

\* A program is not resumed at step 0 from a file.
Saved ==
  disk # NoFile =>
    /\ disk.step > 0 \/ \A r \in Rank : pc[r] = "done"
    /\ disk.galaxy \in Int
    /\ disk.home \in [Tracer -> Rank] /\ disk.anchorHome \in [Anchor -> Rank]

Placed ==
  Backed /\ pc[0] \in {"check", "end", "done"} =>
    \A t \in Tracer : pos[t] = StartPos[t] + galaxy

AttachParts == Settled /\ Known /\ Around /\ Began /\ Saved /\ Placed
AttachInv == OutputInv /\ AttachParts

LEMMA PlacedSuffices == AttachInv => AttachedSinceBackup
<1>1. SUFFICES ASSUME AttachInv, \A r \in Rank : first[r] # INT_MAX, Shift,
                      NEW t \in Tracer
               PROVE  pos[t] = StartPos[t] + galaxy
  BY DEF AttachedSinceBackup, RigidlyAttached
<1>2. Backed /\ pc[0] \in {"check", "end", "done"}
  BY <1>1, RootIsARank DEF Backed, Shift, All
<1>3. QED
  BY <1>1, <1>2 DEF AttachInv, AttachParts, Placed

\* The mean of the anchors, all of which are near, is their centre.
LEMMA MeanOfAll ==
  ASSUME RegionHolds, Settled, Together, Stepping, AllNear, NEW r \in Rank
  PROVE  Mean(r) = galaxy
<1> DEFINE all == UNION {Near(s) : s \in Rank}
           B == {galaxy + a : a \in Anchor}
           n == Cardinality(Anchor)
<1>1. /\ galaxy \in Int /\ Anchor \subseteq Int /\ IsFiniteSet(Anchor) /\ Anchor # {}
      /\ anchorHome \in [Anchor -> Rank]
      /\ MapThenSumSet(LAMBDA a : a, Anchor) = 0
  BY PlacesAssumption, TracerAssumption DEF Settled, RegionHolds
<1>2. all = B
  <2>1. ASSUME NEW s \in Rank
        PROVE  Near(s) = {galaxy + a : a \in {b \in Anchor : anchorHome[b] = s}}
    <3>1. center[s] = center[0] /\ step[s] = step[0] /\ center[0] # NaN
      BY PlacesAssumption DEF Together, Stepping, AllNear
    <3>2. QED
      BY <3>1 DEF Near, AllNear
  <2>2. ASSUME NEW a \in Anchor
        PROVE  galaxy + a \in all
    <3>1. anchorHome[a] \in Rank
      BY <1>1
    <3>2. galaxy + a \in Near(anchorHome[a])
      BY <2>1, <3>1
    <3>3. QED
      BY <3>1, <3>2
  <2>3. all \subseteq B
    BY <2>1
  <2>4. QED
    BY <2>2, <2>3
<1>3. /\ IsFiniteSet(B) /\ Cardinality(B) = n /\ n \in Nat /\ n # 0
      /\ MapThenSumSet(LAMBDA x : x, B) = n * galaxy + 0
  <2>1. /\ IsFiniteSet(B) /\ Cardinality(B) = n
        /\ MapThenSumSet(LAMBDA x : x, B) = n * galaxy + MapThenSumSet(LAMBDA x : x, Anchor)
    BY <1>1, SumOfShifted
  <2>2. n \in Nat /\ n # 0
    BY <1>1, FS_CardinalityType, FS_EmptySet
  <2>3. QED
    BY <1>1, <2>1, <2>2
<1>4. B # {}
  BY <1>1
<1>5. Mean(r) = MapThenSumSet(LAMBDA x : x, B) \div n
  BY <1>2, <1>3, <1>4 DEF Mean
<1> HIDE DEF B, n, all
<1>6. (n * galaxy + 0) \div n = galaxy
  BY <1>1, <1>3
<1>7. QED
  BY <1>3, <1>5, <1>6

\* What the provers need of the common part.
LEMMA Basics ==
  ASSUME AttachInv
  PROVE  /\ 0 \in Rank /\ DOMAIN pc = Rank /\ DOMAIN at = Rank
         /\ \A r \in Rank : center[r] = center[0]
         /\ step \in [Rank -> Nat] /\ \A r \in Rank : step[r] = step[0]
         /\ Settled /\ Known /\ Around /\ Began /\ Saved /\ Placed
         /\ Together /\ Stepping
BY RootIsARank DEF AttachInv, AttachParts, OutputInv, Together, Places, Stepping

LEMMA InitAttach == Init => AttachParts
<1>1. SUFFICES ASSUME Init PROVE AttachParts
  OBVIOUS
<1>2. /\ pc[0] = "loop" /\ center[0] = 0 /\ step[0] = 0
      /\ \A r \in Rank : first[r] = INT_MAX
      /\ 0 \in Rank
      /\ galaxy = StartGalaxy /\ pos = StartPos /\ disk = NoFile
      /\ home \in [Tracer -> Rank] /\ anchorHome \in [Anchor -> Rank]
  BY <1>1, RootIsARank DEF Init, Fresh
<1>3. Settled
  BY <1>2, PlacesAssumption DEF Settled
<1>4. QED
  BY <1>2, <1>3 DEF AttachParts, Known, Around, Began, Saved, Placed, Backed, Behind

\* A program that is down forgets the backup.
LEMMA DownAttach ==
  ASSUME AttachInv, NEW saved,
         saved = NoFile \/ (/\ saved.step > 0 /\ saved.galaxy \in Int
                            /\ saved.home \in [Tracer -> Rank]
                            /\ saved.anchorHome \in [Anchor -> Rank]),
         disk' = saved, Down(saved)
  PROVE  AttachParts'
<1>1. /\ pc'[0] = "loop" /\ center'[0] = 0
      /\ \A r \in Rank : first'[r] = INT_MAX
      /\ 0 \in Rank
  BY RootIsARank DEF Down, Fresh
<1>2. CASE saved = NoFile
  <2>1. /\ step'[0] = 0 /\ galaxy' = StartGalaxy /\ pos' = StartPos
        /\ home' = home /\ anchorHome' = anchorHome
    BY <1>1, <1>2 DEF Down, InitialFile
  <2>2. Settled'
    BY <1>1, <2>1, Basics, PlacesAssumption DEF Settled
  <2>3. QED
    BY <1>1, <1>2, <2>1, <2>2
       DEF AttachParts, Known, Around, Began, Saved, Placed, Backed, Behind
<1>3. CASE saved # NoFile
  <2>1. /\ step'[0] = saved.step /\ galaxy' = saved.galaxy
        /\ home' = saved.home /\ anchorHome' = saved.anchorHome
        /\ step'[0] # 0
    BY <1>1, <1>3 DEF Down
  <2>2. Settled'
    BY <1>1, <1>3, <2>1 DEF Settled
  <2>3. Saved'
    BY <1>3 DEF Saved
  <2>4. QED
    BY <1>1, <1>3, <2>1, <2>2, <2>3
       DEF AttachParts, Known, Around, Began, Placed, Backed, Behind
<1>4. QED
  BY <1>2, <1>3

\* A step ahead, the anchors are near the centre of the step before.
LEMMA AdvanceAttach ==
  ASSUME RegionHolds, AttachInv, Advance
  PROVE  AttachParts'
<1>1. /\ UNCHANGED <<step, pos, initPos, first, center, disk>>
      /\ home' \in [Tracer -> Rank] /\ anchorHome' \in [Anchor -> Rank]
      /\ \A r \in Rank : pc[r] = "loop"
      /\ 0 \in Rank
  BY Basics DEF Advance, All, life
<1>2. pc'[0] \in {"write", "gather", "center"}
  BY <1>1 DEF Advance
<1>3. PICK d \in Drift : galaxy' = galaxy + d
  BY DEF Advance
<1>4. galaxy \in Int /\ d \in Int
  BY <1>3, Basics, PlacesAssumption DEF Settled
<1>5. Settled'
  BY <1>1, <1>3, <1>4, Basics DEF Settled
<1>6. Known'
  BY <1>1, <1>2, Basics DEF Known, Backed
<1>7. Began' /\ Placed'
  BY <1>1, <1>2, Basics DEF Began, Placed
<1>8. Saved'
  BY <1>1, Basics DEF Saved
<1>9. ASSUME Backed \/ step[0] = 0
      PROVE  AllNear'
  <2>1. step[0] \in Nat
    BY Basics
  <2>2. CASE step[0] = 0
    <3>1. galaxy = StartGalaxy /\ center[0] = 0
      BY <1>1, <2>2, Basics DEF Around
    <3>2. \A b \in Anchor : Distance(StartGalaxy + d + b, 0) < RecenterSize * 100
      BY DEF RegionHolds
    <3>3. QED
      BY <1>1, <1>3, <2>2, <3>1, <3>2 DEF AllNear, Factor
  <2>3. CASE step[0] # 0
    <3>1. center[0] = galaxy
      BY <1>1, <1>9, <2>3, Basics DEF Around, Behind
    <3>2. ASSUME NEW b \in Anchor
          PROVE  Distance(galaxy + d + b, galaxy) < RecenterSize
      <4>1. Distance(d + b, 0) < RecenterSize
        BY DEF RegionHolds
      <4>2. b \in Int /\ RecenterSize \in Int
        BY PlacesAssumption
      <4>3. QED
        BY <1>4, <4>1, <4>2 DEF Distance
    <3>3. RecenterSize * Factor(step[0]) = RecenterSize
      BY <2>3, PlacesAssumption DEF Factor
    <3>4. QED
      BY <1>1, <1>3, <1>4, <3>1, <3>2, <3>3 DEF AllNear, Factor
  <2>4. QED
    BY <2>2, <2>3
<1>10. Around'
  BY <1>1, <1>2, <1>9 DEF Around, Backed, Behind
<1>11. QED
  BY <1>5, <1>6, <1>7, <1>8, <1>10 DEF AttachParts

\* Between the head of the loop and the recentring nothing happens to what the
\* shift relies on.
LEMMA PassAttach ==
  ASSUME AttachInv,
         UNCHANGED <<step, galaxy, home, anchorHome, pos, initPos, first, center, disk>>,
         pc[0] \in {"gather", "write"}, pc'[0] \in {"gather", "write", "first", "center"},
         pc'[0] = "first" => step[0] = 0
  PROVE  AttachParts'
<1>1. Settled' /\ Known'
  BY Basics DEF Settled, Known, Backed
<1>2. Around'
  BY Basics DEF Around, AllNear, Backed, Behind, Factor
<1>3. Began' /\ Placed'
  BY Basics DEF Began, Placed
<1>4. Saved'
  BY Basics DEF Saved
<1>5. QED
  BY <1>1, <1>2, <1>3, <1>4 DEF AttachParts

LEMMA GatherAttach ==
  ASSUME AttachInv, Write \/ \E i \in Rank \ {0} : Transfer(i)
  PROVE  AttachParts'
<1>1. CASE Write
  <2>1. /\ UNCHANGED <<step, galaxy, home, anchorHome, pos, initPos, first, center, disk>>
        /\ pc[0] = "write" /\ pc'[0] = AfterOutput(0).pc
    BY <1>1, Basics DEF Write, particles, life
  <2>2. QED
    BY <2>1, PassAttach DEF AfterOutput
<1>2. ASSUME NEW i \in Rank \ {0}, Transfer(i)
      PROVE  AttachParts'
  <2>1. /\ UNCHANGED <<step, galaxy, home, anchorHome, pos, initPos, first, center, disk>>
        /\ pc[0] = "gather" /\ pc'[0] = RootNext(i, at[0][2]).pc
    BY <1>2, Basics DEF Transfer, particles, life
  <2>2. pc'[0] \in {"gather", "write"}
    BY <2>1 DEF RootNext
  <2>3. QED
    BY <2>1, <2>2, PassAttach
<1>3. QED
  BY <1>1, <1>2

\* The least id is that of a tracer, and the others are not far.
LEMMA LowestId ==
  ASSUME Lowest # INT_MAX
  PROVE  /\ Lowest \in Int
         /\ \A t \in Tracer : t \in Int /\ t - Lowest \in Index
<1> DEFINE T == {INT_MAX} \cup Tracer
<1>1. T \subseteq Nat /\ T # {}
  BY TracerAssumption DEF INT_MAX
<1>2. \E n \in T : \A m \in T : n <= m
  <2> HIDE DEF T
  <2>1. QED
    BY <1>1, Least
<1>3. Lowest \in T /\ \A m \in T : Lowest <= m
  BY <1>2 DEF Lowest, Min
<1>4. Lowest \in Tracer /\ Lowest \in Nat
  BY <1>1, <1>3
<1>5. ASSUME NEW t \in Tracer
      PROVE  t \in Int /\ t - Lowest \in Index
  <2>1. t \in Nat /\ Lowest <= t
    BY <1>1, <1>3
  <2>2. t - Lowest \in -Cardinality(Tracer) + 1 .. Cardinality(Tracer) - 1
    BY <1>4, TracerAssumption
  <2>3. QED
    BY <1>4, <2>1, <2>2, Counts DEF Index
<1>6. QED
  BY <1>4, <1>5

\* The backup: every rank copies the positions of its own tracers ...
LEMMA FirstAttach ==
  ASSUME AttachInv, ReduceFirst
  PROVE  AttachParts'
<1>1. /\ UNCHANGED <<step, galaxy, home, anchorHome, pos, center, disk>>
      /\ pc[0] = "first" /\ pc'[0] = "sum"
      /\ 0 \in Rank /\ home \in [Tracer -> Rank]
      /\ pos = StartPos /\ step[0] = 0
  <2>1. /\ UNCHANGED <<step, galaxy, home, anchorHome, pos, center, disk>>
        /\ pc[0] = "first" /\ pc'[0] = "sum"
    BY Basics DEF ReduceFirst, All, particles, life
  <2>2. QED
    BY <2>1, Basics DEF Began, Settled
<1>2. UNION {Own(r) : r \in Rank} = Tracer
  BY <1>1 DEF Own
<1>3. /\ first' = [r \in Rank |-> Lowest]
      /\ initPos' = [r \in Rank |-> [k \in Index |->
                        IF Lowest + k \in Own(r) THEN pos[Lowest + k] ELSE 0]]
  BY <1>2 DEF ReduceFirst, Lowest
<1>4. Settled'
  BY <1>1, <1>3, Basics DEF Settled
<1>5. Known'
  <2>1. SUFFICES ASSUME Lowest # INT_MAX, NEW r \in Rank, NEW t \in Tracer
                 PROVE  /\ t - Lowest \in Index
                        /\ initPos'[r][t - Lowest] = IF home[t] # r THEN 0 ELSE StartPos[t]
    BY <1>1, <1>3 DEF Known, Backed
  <2>2. t - Lowest \in Index /\ Lowest + (t - Lowest) = t
    BY <2>1, LowestId
  <2>3. initPos'[r][t - Lowest] = IF t \in Own(r) THEN pos[t] ELSE 0
    BY <1>3, <2>2
  <2>4. QED
    BY <1>1, <2>2, <2>3 DEF Own
<1>6. Around'
  BY <1>1, Basics DEF Around, AllNear, Backed, Behind, Factor
<1>7. Began' /\ Placed' /\ Saved'
  BY <1>1, Basics DEF Began, Placed, Saved
<1>8. QED
  BY <1>4, <1>5, <1>6, <1>7 DEF AttachParts

\* ... whose sum has those of all.
LEMMA SumAttach ==
  ASSUME AttachInv, SumInit
  PROVE  AttachParts'
<1>1. /\ UNCHANGED <<step, galaxy, home, anchorHome, pos, first, center, disk>>
      /\ pc[0] = "sum" /\ pc'[0] = "center"
      /\ 0 \in Rank /\ home \in [Tracer -> Rank]
  BY Basics DEF SumInit, All, particles, life, Settled
<1>2. Settled'
  BY <1>1, Basics DEF Settled
<1>3. Known'
  <2>1. SUFFICES ASSUME Backed, NEW r \in Rank, NEW t \in Tracer
                 PROVE  /\ t - Lowest \in Index
                        /\ initPos'[r][t - Lowest] = StartPos[t]
    BY <1>1 DEF Known, Backed
  <2> DEFINE k == t - Lowest
             f == [s \in Rank |-> initPos[s][k]]
  <2>2. /\ k \in Index /\ home[t] \in Rank
        /\ \A s \in Rank : initPos[s][k] = IF home[t] # s THEN 0 ELSE StartPos[t]
    BY <1>1, <2>1, Basics DEF Known
  <2>3. IsFiniteSet(Rank)
    BY RanksAssumption, FS_Interval DEF Rank
  <2> HIDE DEF k
  <2>4. PICK it : /\ Sums(it, f, Rank)
                  /\ MapThenSumSet(LAMBDA s : initPos[s][k], Rank) = it[Rank]
    <3> DEFINE jt == CHOOSE g : g = [u \in SUBSET Rank |->
                       IF u = {} THEN 0
                       ELSE initPos[CHOOSE x \in u : TRUE][k]
                              + g[u \ {CHOOSE x \in u : TRUE}]]
    <3>1. PICK g : Sums(g, f, Rank)
      BY <2>3, SumsExist
    <3>2. g = [u \in SUBSET Rank |->
                 IF u = {} THEN 0
                 ELSE initPos[CHOOSE x \in u : TRUE][k] + g[u \ {CHOOSE x \in u : TRUE}]]
      BY <3>1 DEF Sums
    <3>3. jt = [u \in SUBSET Rank |->
                  IF u = {} THEN 0
                  ELSE initPos[CHOOSE x \in u : TRUE][k] + jt[u \ {CHOOSE x \in u : TRUE}]]
      BY <3>2, Zenon
    <3>4. MapThenSumSet(LAMBDA s : initPos[s][k], Rank) = jt[Rank]
      BY DEF MapThenSumSet, MapThenFoldSet
    <3> HIDE DEF jt
    <3>5. Sums(jt, f, Rank)
      BY <3>3 DEF Sums
    <3>6. QED
      BY <3>4, <3>5
  <2>5. /\ f \in [Rank -> Int] /\ f[home[t]] = StartPos[t]
        /\ \A s \in Rank \ {home[t]} : f[s] = 0
    BY <2>2, PlacesAssumption
  <2> HIDE DEF f
  <2>6. it[Rank] = StartPos[t]
    BY <2>2, <2>3, <2>4, <2>5, SumOfOne
  <2>7. initPos'[r][k] = MapThenSumSet(LAMBDA s : initPos[s][k], Rank)
    BY <2>2 DEF SumInit
  <2>8. QED
    BY <2>2, <2>4, <2>6, <2>7 DEF k
<1>4. Around'
  BY <1>1, Basics DEF Around, AllNear, Backed, Behind, Factor
<1>5. Began' /\ Placed' /\ Saved'
  BY <1>1, Basics DEF Began, Placed, Saved
<1>6. QED
  BY <1>2, <1>3, <1>4, <1>5 DEF AttachParts

\* A round puts the centre onto that of the anchors, and the last one the
\* tracers to their places around it.
LEMMA RecenterAttach ==
  ASSUME RegionHolds, AttachInv, Recenter
  PROVE  AttachParts'
<1>1. /\ UNCHANGED <<last, galaxy, home, anchorHome, initPos, first, disk>>
      /\ \A r \in Rank : pc[r] = "center" /\ at[r] = at[0]
      /\ 0 \in Rank /\ home \in [Tracer -> Rank]
      /\ galaxy \in Int /\ step[0] \in Nat
  BY Basics DEF Recenter, All, particles, life, Settled
<1>2. /\ center'[0] = Mean(0)
      /\ pc'[0] = IF Leaves(0) THEN Onward ELSE "center"
      /\ step'[0] = IF Leaves(0) /\ ~last THEN step[0] + 1 ELSE step[0]
      /\ Onward = IF last THEN "end" ELSE "check"
  BY <1>1 DEF Recenter, Counted, Onward
<1>3. \A r \in Rank : Leaves(r) <=> Leaves(0)
  <2>1. \A r \in Rank : Mean(r) = Mean(0) /\ center[r] = center[0]
    BY Basics DEF Mean
  <2>2. QED
    BY <1>1, <2>1 DEF Leaves, Converged
<1>4. pos' = [t \in Tracer |-> IF Leaves(0) THEN Shifted(home[t], t) ELSE pos[t]]
  BY <1>1, <1>3 DEF Recenter
<1>5. ASSUME Backed \/ step[0] = 0
      PROVE  AllNear /\ \A r \in Rank : Mean(r) = galaxy
  <2>1. AllNear
    BY <1>1, <1>5, Basics DEF Around, Behind
  <2>2. QED
    BY <2>1, MeanOfAll, Basics
<1>6. Settled'
  BY <1>1, Basics DEF Settled
<1>7. Known'
  BY <1>1, <1>2, Basics DEF Known, Backed
<1>8. Saved'
  BY <1>1, Basics DEF Saved
<1>9. CASE Leaves(0)
  <2>1. /\ pc'[0] = IF last THEN "end" ELSE "check"
        /\ step'[0] = IF last THEN step[0] ELSE step[0] + 1
    BY <1>2, <1>9
  <2>2. Backed \/ step'[0] = 0 => Backed \/ step[0] = 0
    BY <1>1, <2>1
  <2>3. Around'
    BY <1>1, <1>2, <1>5, <2>1, <2>2 DEF Around, Backed, Behind
  <2>4. Began'
    BY <1>1, <2>1 DEF Began
  <2>5. ASSUME Backed, NEW t \in Tracer
        PROVE  pos'[t] = StartPos[t] + galaxy
    <3> DEFINE h == home[t]
               k == t - first[h]
    <3>1. h \in Rank /\ first[h] = Lowest
      BY <1>1, <2>5, Basics DEF Settled, Backed
    <3>2. k \in Index /\ initPos[h][k] = StartPos[t]
      BY <1>1, <2>5, <3>1, Basics DEF Known
    <3>3. Mean(h) = galaxy /\ galaxy # NaN /\ StartPos[t] # Garbage
      BY <1>1, <1>5, <2>5, <3>1, PlacesAssumption
    <3>4. Shifted(h, t) = StartPos[t] + galaxy
      BY <3>2, <3>3 DEF Shifted
    <3>5. QED
      BY <1>4, <1>9, <3>4
  <2>6. Placed'
    BY <1>1, <2>5 DEF Placed, Backed
  <2>7. QED
    BY <1>6, <1>7, <1>8, <2>3, <2>4, <2>6 DEF AttachParts
<1>10. CASE ~Leaves(0)
  <2>1. pc'[0] = "center" /\ step'[0] = step[0]
    BY <1>2, <1>10
  <2>2. ASSUME Backed \/ step[0] = 0
        PROVE  AllNear'
    <3>1. center'[0] = galaxy
      BY <1>1, <1>2, <1>5, <2>2
    <3>2. ASSUME NEW b \in Anchor
          PROVE  Distance(galaxy + b, galaxy) < RecenterSize * Factor(step[0])
      <4>1. Distance(b, 0) < RecenterSize
        BY DEF RegionHolds
      <4>2. b \in Int /\ RecenterSize \in Int
        BY PlacesAssumption
      <4>3. RecenterSize <= RecenterSize * Factor(step[0])
        BY <4>1, <4>2 DEF Distance, Factor
      <4>4. Factor(step[0]) \in Int
        BY DEF Factor
      <4>5. QED
        BY <1>1, <4>1, <4>2, <4>3, <4>4 DEF Distance
    <3>3. QED
      BY <1>1, <2>1, <3>1, <3>2 DEF AllNear, Factor
  <2>3. Around'
    BY <1>1, <2>1, <2>2 DEF Around, Backed, Behind
  <2>4. Began'
    <3>1. step[0] = 0 => pos = StartPos
      BY <1>1, Basics DEF Began
    <3>2. step[0] = 0 => pos' = StartPos
      BY <1>4, <1>10, <3>1, PlacesAssumption
    <3>3. QED
      BY <2>1, <3>2 DEF Began
  <2>5. Placed'
    BY <2>1 DEF Placed
  <2>6. QED
    BY <1>6, <1>7, <1>8, <2>3, <2>4, <2>5 DEF AttachParts
<1>11. QED
  BY <1>9, <1>10

\* What is written to a restart file.
LEMMA WhatIsSaved ==
  ASSUME AttachInv
  PROVE  /\ RestartFile.step = step[0]
         /\ RestartFile.galaxy \in Int
         /\ RestartFile.home \in [Tracer -> Rank]
         /\ RestartFile.anchorHome \in [Anchor -> Rank]
BY Basics DEF RestartFile, Settled

LEMMA CheckAttach ==
  ASSUME AttachInv, Check \/ End
  PROVE  AttachParts'
<1>1. /\ UNCHANGED <<step, galaxy, home, anchorHome, pos, initPos, first, center>>
      /\ 0 \in Rank /\ disk' \in {disk, RestartFile}
      /\ \/ \A r \in Rank : pc[r] = "check" /\ pc'[r] = "loop"
         \/ \A r \in Rank : pc[r] = "end" /\ pc'[r] = "done"
  BY Basics DEF Check, End, All, Fresh, particles
<1>2. \/ pc[0] = "check" /\ pc'[0] = "loop" /\ step[0] > 0
      \/ pc[0] = "end" /\ pc'[0] = "done"
  BY <1>1, Basics DEF Began
<1>3. Settled' /\ Known'
  BY <1>1, <1>2, Basics DEF Settled, Known, Backed
<1>4. Around'
  BY <1>1, <1>2, Basics DEF Around, Backed, Behind
<1>5. Began' /\ Placed'
  BY <1>1, <1>2, Basics DEF Began, Placed, Backed
<1>6. Saved'
  <2>1. disk' # NoFile =>
          /\ disk'.step > 0 \/ \A r \in Rank : pc'[r] = "done"
          /\ disk'.galaxy \in Int
          /\ disk'.home \in [Tracer -> Rank] /\ disk'.anchorHome \in [Anchor -> Rank]
    BY <1>1, <1>2, Basics, WhatIsSaved DEF Saved
  <2>2. QED
    BY <2>1 DEF Saved
<1>7. QED
  BY <1>3, <1>4, <1>5, <1>6 DEF AttachParts

LEMMA StopAttach ==
  ASSUME AttachInv, Stop \/ Crash
  PROVE  AttachParts'
<1>1. CASE Stop
  <2>1. pc[0] = "check" /\ step[0] > 0
    BY <1>1, Basics DEF Stop, All, Began
  <2>2. QED
    BY <1>1, <2>1, WhatIsSaved, DownAttach DEF Stop
<1>2. CASE Crash
  <2>1. ~ \A r \in Rank : pc[r] = "done"
    BY <1>2 DEF Crash, All
  <2>2. disk = NoFile \/ (/\ disk.step > 0 /\ disk.galaxy \in Int
                          /\ disk.home \in [Tracer -> Rank]
                          /\ disk.anchorHome \in [Anchor -> Rank])
    BY <2>1, Basics DEF Saved
  <2>3. QED
    BY <1>2, <2>2, DownAttach DEF Crash
<1>3. QED
  BY <1>1, <1>2

\* Starting the program, or nothing.
LEMMA StayAttach ==
  ASSUME AttachInv,
         UNCHANGED <<step, pc, galaxy, home, anchorHome, pos, initPos, first, center, disk>>
  PROVE  AttachParts'
<1>1. Settled' /\ Known' /\ Began' /\ Placed' /\ Saved'
  BY Basics DEF Settled, Known, Began, Placed, Saved, Backed
<1>2. Around'
  BY Basics DEF Around, AllNear, Backed, Behind, Factor
<1>3. QED
  BY <1>1, <1>2 DEF AttachParts

LEMMA AttachStep ==
  ASSUME RegionHolds, AttachInv, [Next]_vars
  PROVE  AttachInv'
<1>1. OutputInv'
  BY OutputStep DEF AttachInv
<1>2. SUFFICES AttachParts'
  BY <1>1 DEF AttachInv
<1>3. CASE Restart \/ UNCHANGED vars
  <2>1. UNCHANGED <<step, pc, galaxy, home, anchorHome, pos, initPos, first, center, disk>>
    BY <1>3 DEF Restart, vars, particles, life
  <2>2. QED
    BY <2>1, StayAttach
<1>4. CASE Advance \/ Recenter
  BY <1>4, AdvanceAttach, RecenterAttach
<1>5. CASE ReduceFirst \/ SumInit
  BY <1>5, FirstAttach, SumAttach
<1>6. CASE Check \/ End \/ Stop \/ Crash
  BY <1>6, CheckAttach, StopAttach
<1>7. CASE Write \/ \E i \in Rank \ {0} : Transfer(i)
  BY <1>7, GatherAttach
<1>8. QED
  BY <1>3, <1>4, <1>5, <1>6, <1>7 DEF Next, Step

\* A tracer keeps its initial place relative to the anchors' centre of mass as
\* long as the program that took the backup runs, whatever ranks hold it and the
\* anchors and however the galaxy drifts, as long as the region has the anchors.
THEOREM TracersStayAttached == ASSUME RegionHolds PROVE Spec => []AttachedSinceBackup
<1>1. Init => AttachInv
  BY InitAttach, InitOutput DEF AttachInv
<1>2. AttachInv /\ [Next]_vars => AttachInv'
  BY AttachStep
<1>3. QED
  BY <1>1, <1>2, PlacedSuffices, PTL DEF Spec
=============================================================================
