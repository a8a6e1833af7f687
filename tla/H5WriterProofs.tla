--------------------------- MODULE H5WriterProofs ---------------------------
(***************************************************************************)
(* Proofs about the module H5Writer, for any set of paths and values, any  *)
(* chunk sizes and any faults of the library and the process: the writer   *)
(* implements AppendLog, rows that are on the disk stand, and the tree of  *)
(* nodes is closed.                                                        *)
(***************************************************************************)
EXTENDS H5Writer, SequenceTheorems, TLAPS

-----------------------------------------------------------------------------
(* The rows.                                                               *)

Cell == Value \cup {Fill}

\* The nodes are the file and paths in use; a counter is ahead of its rows and
\* these of what is on the disk; what is no dataset has no rows.
NodesType ==
  /\ DOMAIN nodes \subseteq Path \cup {Root}
  /\ Root \in DOMAIN nodes
  /\ nodes[Root].type = "file"

RowsType ==
  /\ counter \in [Path -> Nat \ {0}]
  /\ rows \in [Path -> Seq(Cell)]
  /\ synced \in [Path -> Nat]
  /\ mode \in {"open", "closed", "dead"}

Counted == \A p \in Path : synced[p] <= Len(rows[p]) /\ Len(rows[p]) < counter[p]

Fresh == \A p \in Path \ Datasets : counter[p] = 1 /\ rows[p] = <<>> /\ synced[p] = 0

RowsInv == NodesType /\ RowsType /\ Counted /\ Fresh

\* The file itself is no path in use.
LEMMA RootIsNoPath == Root \notin Path
  BY PathAssumption DEF Root

\* A function on an interval from 1 is a sequence.
LEMMA Interval ==
  ASSUME NEW S, NEW n \in Nat, NEW s \in [1 .. n -> S]
  PROVE  s \in Seq(S) /\ Len(s) = n /\ DOMAIN s = 1 .. n
<1>1. s \in Seq(S)
  BY SeqDef
<1>2. DOMAIN s = 1 .. n
  OBVIOUS
<1>3. Len(s) \in Nat /\ DOMAIN s = 1 .. Len(s)
  BY <1>1, LenProperties
<1>. QED
  BY <1>1, <1>2, <1>3

\* Datasets are paths.
LEMMA DatasetsArePaths == ASSUME NodesType PROVE Datasets \subseteq Path
  BY DEF NodesType, Datasets

\* The rows and the length of a dataset.
LEMMA RowsAreSequences ==
  ASSUME RowsType, NEW p \in Path
  PROVE  /\ rows[p] \in Seq(Cell) /\ Len(rows[p]) \in Nat /\ DOMAIN rows[p] = 1 .. Len(rows[p])
         /\ rows[p] \in [1 .. Len(rows[p]) -> Cell]
         /\ counter[p] \in Nat \ {0} /\ synced[p] \in Nat
<1>1. rows[p] \in Seq(Cell) /\ counter[p] \in Nat \ {0} /\ synced[p] \in Nat
  BY DEF RowsType
<1>. QED
  BY <1>1, LenProperties

\* The rows after an extension.
LEMMA ExtendedRows ==
  ASSUME RowsType, NEW p \in Path, NEW n \in Nat
  PROVE  /\ Extended(p, n) \in [1 .. n -> Cell]
         /\ Extended(p, n) \in Seq(Cell) /\ Len(Extended(p, n)) = n
<1>1. ASSUME NEW k \in DOMAIN rows[p] PROVE rows[p][k] \in Cell
  BY RowsAreSequences
<1>2. Extended(p, n) \in [1 .. n -> Cell]
  BY <1>1 DEF Extended, Cell
<1>. QED
  BY <1>2, Interval

\* Nothing is in use at first.
LEMMA InitRows == ASSUME Init PROVE RowsInv
<1>1. <<>> \in Seq(Cell) /\ Len(<<>>) = 0
  BY EmptySeq
<1>2. NodesType
  BY DEF Init, NodesType
<1>3. Datasets = {}
  BY DEF Init, Datasets
<1>. QED
  BY <1>1, <1>2, <1>3 DEF Init, RowsInv, RowsType, Counted, Fresh

\* The parent of a path that is not the file itself is a prefix of it, or the
\* file.
LEMMA ParentIsPrefix ==
  ASSUME NEW p \in Path
  PROVE  /\ Len(p) \in Nat \ {0} /\ p \in Seq(Name)
         /\ Parent(p) = Root \/ Parent(p) \in Prefixes(p)
<1>1. p \in Seq(Name) /\ p # <<>>
  BY PathAssumption
<1>2. Len(p) \in Nat \ {0}
  BY <1>1, EmptySeq
<1>3. CASE Len(p) = 1
  <2>1. Parent(p) = Root
    BY <1>3, SubSeqEmpty DEF Parent, Root
  <2>. QED
    BY <2>1, <1>1, <1>2
<1>4. CASE Len(p) > 1
  <2>1. Len(p) - 1 \in 1 .. Len(p)
    BY <1>2, <1>4
  <2>. QED
    BY <2>1, <1>1, <1>2 DEF Parent, Prefixes
<1>5. Len(p) = 1 \/ Len(p) > 1
  BY <1>2
<1>. QED
  BY <1>1, <1>2, <1>3, <1>4, <1>5

\* create_group() makes no dataset and touches none.
LEMMA GroupsKeepDatasets ==
  ASSUME NodesType, NEW p \in Path, NEW made
  PROVE  LET tree == WithGroups(p, made)
         IN  /\ DOMAIN tree \subseteq Path \cup {Root} /\ Root \in DOMAIN tree
             /\ DOMAIN nodes \subseteq DOMAIN tree
             /\ \A q \in DOMAIN nodes : tree[q] = nodes[q]
             /\ \A q \in DOMAIN tree \ DOMAIN nodes : tree[q].type = "group"
  BY PathAssumption DEF NodesType, WithGroups, Missing, Exists

\* After create_dataset() the dataset is the only new one, and was none before.
LEMMA DatasetIsNew ==
  ASSUME NodesType, NEW p \in Path, NEW tree, NEW fine,
         DOMAIN tree \subseteq Path \cup {Root}, Root \in DOMAIN tree,
         DOMAIN nodes \subseteq DOMAIN tree, \A q \in DOMAIN nodes : tree[q] = nodes[q],
         \A q \in DOMAIN tree \ DOMAIN nodes : tree[q].type = "group",
         nodes' = WithDataset(tree, p, fine), ~Exists(p)
  PROVE  NodesType' /\ Datasets' = Datasets \cup {p} /\ p \notin Datasets
<1>1. DOMAIN nodes' = DOMAIN tree \cup {p} /\ p # Root
  BY RootIsNoPath DEF WithDataset
<1>2. nodes'[p].type = "dataset"
  BY DEF WithDataset
<1>3. \A q \in DOMAIN tree \ {p} : nodes'[q] = tree[q]
  BY DEF WithDataset
<1>4. \A q \in DOMAIN nodes \ {p} : nodes'[q].type = nodes[q].type
  BY <1>3
<1>5. \A q \in DOMAIN nodes' \ (DOMAIN nodes \cup {p}) : nodes'[q].type = "group"
  BY <1>1, <1>3
<1>6. NodesType'
  BY <1>1, <1>4 DEF NodesType
<1>7. p \notin DOMAIN nodes
  BY DEF Exists
<1>8. Datasets' = Datasets \cup {p}
  BY <1>1, <1>2, <1>4, <1>5, <1>7 DEF Datasets
<1>. QED
  BY <1>6, <1>7, <1>8 DEF Datasets

\* What the calls that write no row do to the datasets: nothing, or one is new.
LEMMA CreatesGroup ==
  ASSUME NodesType, NEW p \in Path, CreateGroup(p)
  PROVE  NodesType' /\ Datasets' = Datasets /\ last'.cell = "none"
<1>1. last'.cell = "none"
  BY DEF CreateGroup, Did
<1>2. CASE UNCHANGED nodes
  BY <1>1, <1>2 DEF NodesType, Datasets
<1>3. ASSUME NEW made, nodes' = WithGroups(p, made)
      PROVE  NodesType' /\ Datasets' = Datasets
  <2>1. /\ DOMAIN nodes' \subseteq Path \cup {Root} /\ Root \in DOMAIN nodes'
        /\ DOMAIN nodes \subseteq DOMAIN nodes'
        /\ \A q \in DOMAIN nodes : nodes'[q] = nodes[q]
        /\ \A q \in DOMAIN nodes' \ DOMAIN nodes : nodes'[q].type = "group"
    BY <1>3, GroupsKeepDatasets
  <2>. QED
    BY <2>1 DEF NodesType, Datasets
<1>. QED
  BY <1>1, <1>2, <1>3 DEF CreateGroup

\* Nor does what create_dataset() does on the way to the parent.
LEMMA ParentsKeepDatasets ==
  ASSUME NodesType, NEW p \in Path, NEW tree \in WithParents(p)
  PROVE  /\ DOMAIN tree \subseteq Path \cup {Root} /\ Root \in DOMAIN tree
         /\ DOMAIN nodes \subseteq DOMAIN tree
         /\ \A q \in DOMAIN nodes : tree[q] = nodes[q]
         /\ \A q \in DOMAIN tree \ DOMAIN nodes : tree[q].type = "group"
<1>1. CASE Exists(Parent(p))
  BY <1>1 DEF WithParents, NodesType
<1>2. CASE ~Exists(Parent(p))
  <2>1. Parent(p) \in Path
    BY <1>2, ParentIsPrefix, PathAssumption DEF Exists, NodesType
  <2>2. PICK made \in Made(p) : tree = WithGroups(Parent(p), made)
    BY <1>2 DEF WithParents
  <2>. QED
    BY <2>1, <2>2, GroupsKeepDatasets
<1>. QED
  BY <1>1, <1>2

LEMMA CreatesDataset ==
  ASSUME NodesType, NEW p \in Path, CreateDataset(p)
  PROVE  /\ NodesType' /\ last'.cell = "none"
         /\ \/ Datasets' = Datasets
            \/ p \notin Datasets /\ Datasets' = Datasets \cup {p}
<1>1. last'.cell = "none"
  BY DEF CreateDataset, Did
<1>2. CASE UNCHANGED nodes
  BY <1>1, <1>2 DEF NodesType, Datasets
<1>3. ASSUME NEW tree \in WithParents(p), nodes' = tree
      PROVE  NodesType' /\ Datasets' = Datasets
  BY <1>3, ParentsKeepDatasets DEF NodesType, Datasets
<1>4. ASSUME NEW tree \in WithParents(p), NEW fine, ~Exists(p), nodes' = WithDataset(tree, p, fine)
      PROVE  NodesType' /\ p \notin Datasets /\ Datasets' = Datasets \cup {p}
  BY <1>4, ParentsKeepDatasets, DatasetIsNew
<1>. QED
  BY <1>1, <1>2, <1>3, <1>4 DEF CreateDataset

\* What a push does: the rows of the dataset grow up to its counter, what is on
\* the disk grows within them, the cell of the counter holds the value or not.
LEMMA Pushes ==
  ASSUME RowsInv, NEW p \in Path, NEW v \in Value, Push(p, v)
  PROVE  /\ p \in Datasets /\ mode = "open" /\ UNCHANGED <<nodes, mode, faults>>
         /\ counter' = [counter EXCEPT ![p] = counter[p] + 1]
         /\ \E grown \in Seq(Cell) :
              /\ grown = rows[p] \/ grown = Extended(p, counter[p])
              /\ \/ /\ counter[p] \in DOMAIN grown
                    /\ rows' = [rows EXCEPT ![p] = [grown EXCEPT ![counter[p]] = v]]
                    /\ last'.cell = "kept"
                 \/ rows' = [rows EXCEPT ![p] = grown] /\ last'.cell = "lost"
         /\ \E s \in synced[p] .. Len(rows'[p]) : synced' = [synced EXCEPT ![p] = s]
<1>1. /\ mode = "open" /\ p \in Datasets
      /\ counter' = [counter EXCEPT ![p] = counter[p] + 1]
      /\ UNCHANGED <<nodes, mode, faults>>
  BY DEF Push, CountPush
<1>2. PICK extended \in BOOLEAN, written \in BOOLEAN :
        LET grown == IF nodes[p].ok /\ extended THEN Extended(p, counter[p]) ELSE rows[p]
            hit == counter[p] \in DOMAIN grown /\ written
        IN  /\ rows' = [rows EXCEPT ![p] =
                          IF hit THEN [grown EXCEPT ![counter[p]] = v] ELSE grown]
            /\ \E s \in FlushWhenFull(p) : synced' = [synced EXCEPT ![p] = s]
            /\ Pushed(p, hit)
  BY DEF Push, Outcome
<1> DEFINE grown == IF nodes[p].ok /\ extended THEN Extended(p, counter[p]) ELSE rows[p]
           hit == counter[p] \in DOMAIN grown /\ written
<1>3. /\ rows' = [rows EXCEPT ![p] = IF hit THEN [grown EXCEPT ![counter[p]] = v] ELSE grown]
      /\ last'.cell = IF hit THEN "kept" ELSE "lost"
  BY <1>2 DEF Pushed
<1>4. /\ rows[p] \in Seq(Cell) /\ Len(rows[p]) \in Nat
      /\ Extended(p, counter[p]) \in Seq(Cell) /\ Len(Extended(p, counter[p])) = counter[p]
      /\ counter[p] \in Nat \ {0} /\ synced[p] \in Nat
      /\ synced[p] <= Len(rows[p]) /\ Len(rows[p]) < counter[p]
  BY RowsAreSequences, ExtendedRows DEF RowsInv, Counted
<1>5. /\ grown = rows[p] \/ grown = Extended(p, counter[p])
      /\ grown \in Seq(Cell) /\ Len(grown) \in Nat /\ Len(rows[p]) <= Len(grown)
  BY <1>4
<1>6. rows'[p] = IF hit THEN [grown EXCEPT ![counter[p]] = v] ELSE grown
  BY <1>3 DEF RowsInv, RowsType
<1>7. rows'[p] \in Seq(Cell) /\ Len(rows'[p]) = Len(grown)
  <2>1. CASE hit
    <3>1. counter[p] \in 1 .. Len(grown) /\ v \in Cell
      BY <2>1, <1>5, LenProperties DEF Cell
    <3>. QED
      BY <2>1, <3>1, <1>5, <1>6, ExceptSeq
  <2>2. CASE ~hit
    BY <2>2, <1>5, <1>6
  <2>. QED
    BY <2>1, <2>2
<1>8. synced[p] \in synced[p] .. Len(rows'[p]) /\ Len(rows'[p]) \in synced[p] .. Len(rows'[p])
  BY <1>4, <1>5, <1>7
<1>9. FlushWhenFull(p) \subseteq synced[p] .. Len(rows'[p])
  BY <1>8 DEF FlushWhenFull, Flushed
<1>10. \E s \in synced[p] .. Len(rows'[p]) : synced' = [synced EXCEPT ![p] = s]
  BY <1>2, <1>9
<1>11. \/ /\ counter[p] \in DOMAIN grown
          /\ rows' = [rows EXCEPT ![p] = [grown EXCEPT ![counter[p]] = v]]
          /\ last'.cell = "kept"
       \/ rows' = [rows EXCEPT ![p] = grown] /\ last'.cell = "lost"
  BY <1>3
<1> HIDE DEF grown, hit
<1>. QED
  BY <1>1, <1>5, <1>10, <1>11

\* The rows after a push.
LEMMA PushRows ==
  ASSUME RowsInv, NEW p \in Path, NEW v \in Value, Push(p, v)
  PROVE  RowsInv'
<1>1. PICK grown \in Seq(Cell) :
        /\ grown = rows[p] \/ grown = Extended(p, counter[p])
        /\ \/ /\ counter[p] \in DOMAIN grown
              /\ rows' = [rows EXCEPT ![p] = [grown EXCEPT ![counter[p]] = v]]
           \/ rows' = [rows EXCEPT ![p] = grown]
  BY Pushes
<1>2. PICK s \in synced[p] .. Len(rows'[p]) : synced' = [synced EXCEPT ![p] = s]
  BY Pushes
<1>3. /\ p \in Datasets /\ UNCHANGED <<nodes, mode>>
      /\ counter' = [counter EXCEPT ![p] = counter[p] + 1]
  BY Pushes
<1>4. NodesType' /\ Datasets' = Datasets
  BY <1>3 DEF RowsInv, NodesType, Datasets
<1>5. /\ counter[p] \in Nat \ {0} /\ synced[p] \in Nat
      /\ Len(grown) \in Nat /\ Len(grown) <= counter[p] /\ DOMAIN grown = 1 .. Len(grown)
  BY <1>1, RowsAreSequences, ExtendedRows, LenProperties DEF RowsInv, Counted
<1>6. rows'[p] \in Seq(Cell) /\ Len(rows'[p]) = Len(grown)
  <2>1. v \in Cell
    BY DEF Cell
  <2>2. rows'[p] = grown \/ (counter[p] \in 1 .. Len(grown)
                              /\ rows'[p] = [grown EXCEPT ![counter[p]] = v])
    BY <1>1, <1>5 DEF RowsInv, RowsType
  <2>. QED
    BY <2>1, <2>2, ExceptSeq
<1>7. RowsType'
  <2>1. rows' \in [Path -> Seq(Cell)]
    BY <1>1, <1>6 DEF RowsInv, RowsType
  <2>2. s \in Nat
    BY <1>2, <1>5, <1>6
  <2>3. counter' \in [Path -> Nat \ {0}] /\ synced' \in [Path -> Nat]
    BY <1>2, <1>3, <1>5, <2>2 DEF RowsInv, RowsType
  <2>. QED
    BY <1>3, <2>1, <2>3 DEF RowsInv, RowsType
<1>8. Counted'
  <2>1. counter'[p] = counter[p] + 1 /\ synced'[p] = s
    BY <1>2, <1>3 DEF RowsInv, RowsType
  <2>2. ASSUME NEW q \in Path \ {p}
        PROVE  counter'[q] = counter[q] /\ synced'[q] = synced[q] /\ rows'[q] = rows[q]
    BY <1>1, <1>2, <1>3 DEF RowsInv, RowsType
  <2>. QED
    BY <1>2, <1>5, <1>6, <2>1, <2>2 DEF RowsInv, Counted
<1>9. Fresh'
  <2>1. ASSUME NEW q \in Path \ {p}
        PROVE  counter'[q] = counter[q] /\ synced'[q] = synced[q] /\ rows'[q] = rows[q]
    BY <1>1, <1>2, <1>3 DEF RowsInv, RowsType
  <2>. QED
    BY <1>3, <1>4, <2>1 DEF RowsInv, Fresh
<1>. QED
  BY <1>4, <1>7, <1>8, <1>9 DEF RowsInv

\* What a death or the end leaves lies between the disk and the rows.
LEMMA KeptRows ==
  ASSUME RowsInv, NEW kept \in Kept, NEW p \in Path
  PROVE  p \in Datasets => kept[p] \in Nat /\ kept[p] \in synced[p] .. Len(rows[p])
<1>1. Datasets \subseteq Path
  BY DatasetsArePaths DEF RowsInv
<1>. QED
  BY <1>1, RowsAreSequences, MaxRowsAssumption DEF Kept, RowsInv

\* The rows when the destructor flushes.
LEMMA DestroyRows ==
  ASSUME RowsInv, Destroy
  PROVE  /\ RowsInv' /\ UNCHANGED <<nodes, counter, rows>>
         /\ \A p \in Path : synced'[p] \in Nat /\ synced'[p] \in synced[p] .. Len(rows[p])
<1>1. mode' = "closed" /\ synced' \in Destroyed /\ UNCHANGED <<nodes, counter, rows, faults>>
  BY DEF Destroy
<1>2. /\ synced' \in [Path -> Nat]
      /\ \A p \in Path : synced'[p] \in synced[p] .. Len(rows[p])
      /\ \A p \in Path \ Datasets : synced'[p] = 0
  <2>1. ASSUME NEW kept \in Kept,
               synced' = [p \in Path |-> IF p \in Datasets THEN kept[p] ELSE 0]
        PROVE  <1>2!1 /\ <1>2!2 /\ <1>2!3
    <3>1. ASSUME NEW p \in Path \ Datasets PROVE synced[p] = 0 /\ Len(rows[p]) = 0
      BY EmptySeq DEF RowsInv, Fresh
    <3>. QED
      BY <2>1, <3>1, KeptRows
  <2>2. ASSUME synced' = [p \in Path |-> Len(rows[p])]
        PROVE  <1>2!1 /\ <1>2!2 /\ <1>2!3
    <3>1. ASSUME NEW p \in Path \ Datasets PROVE Len(rows[p]) = 0
      BY EmptySeq DEF RowsInv, Fresh
    <3>2. ASSUME NEW p \in Path
          PROVE  Len(rows[p]) \in Nat /\ Len(rows[p]) \in synced[p] .. Len(rows[p])
      BY RowsAreSequences DEF RowsInv, Counted
    <3>. QED
      BY <2>2, <3>1, <3>2
  <2>. QED
    BY <1>1, <2>1, <2>2 DEF Destroyed
<1>3. NodesType' /\ Datasets' = Datasets
  BY <1>1 DEF RowsInv, NodesType, Datasets
<1>4. RowsType' /\ Fresh'
  BY <1>1, <1>2, <1>3 DEF RowsInv, RowsType, Fresh
<1>5. Counted'
  BY <1>1, <1>2, RowsAreSequences DEF RowsInv, Counted
<1>. QED
  BY <1>1, <1>2, <1>3, <1>4, <1>5 DEF RowsInv

\* The rows after a death.
LEMMA CrashRows ==
  ASSUME RowsInv, Crash
  PROVE  /\ RowsInv' /\ UNCHANGED <<nodes, counter, synced>>
         /\ \A p \in Datasets :
              \E n \in synced[p] .. Len(rows[p]) :
                n \in Nat /\ rows'[p] = SubSeq(rows[p], 1, n) /\ Len(rows'[p]) = n
<1>1. mode' = "dead" /\ UNCHANGED <<nodes, counter, synced, faults>>
  BY DEF Crash
<1>2. PICK kept \in Kept :
        rows' = [p \in Path |-> IF p \in Datasets THEN SubSeq(rows[p], 1, kept[p]) ELSE <<>>]
  BY DEF Crash
<1>3. NodesType' /\ Datasets' = Datasets /\ Datasets \subseteq Path
  BY <1>1, DatasetsArePaths DEF RowsInv, NodesType, Datasets
<1>4. ASSUME NEW p \in Datasets
      PROVE  /\ kept[p] \in synced[p] .. Len(rows[p]) /\ kept[p] \in Nat
             /\ rows'[p] = SubSeq(rows[p], 1, kept[p])
             /\ rows'[p] \in Seq(Cell) /\ Len(rows'[p]) = kept[p]
  <2>1. p \in Path /\ rows'[p] = SubSeq(rows[p], 1, kept[p])
    BY <1>2, <1>3
  <2>2. kept[p] \in synced[p] .. Len(rows[p]) /\ kept[p] \in Nat
    BY <2>1, KeptRows
  <2>3. \A i \in 1 .. kept[p] : rows[p][i] \in Cell
    BY <2>1, <2>2, RowsAreSequences DEF RowsInv
  <2>4. SubSeq(rows[p], 1, kept[p]) \in Seq(Cell)
        /\ Len(SubSeq(rows[p], 1, kept[p])) = IF 1 <= kept[p] THEN kept[p] - 1 + 1 ELSE 0
    BY <2>2, <2>3, SubSeqProperties
  <2>. QED
    BY <2>1, <2>2, <2>4
<1>5. ASSUME NEW p \in Path \ Datasets
      PROVE  rows'[p] = <<>> /\ rows'[p] \in Seq(Cell) /\ Len(rows'[p]) = 0
  BY <1>2, EmptySeq
<1>6. RowsType'
  BY <1>1, <1>2, <1>4, <1>5 DEF RowsInv, RowsType
<1>7. Counted'
  BY <1>1, <1>4, <1>5, RowsAreSequences DEF RowsInv, Counted, Fresh
<1>8. Fresh'
  BY <1>1, <1>3, <1>5 DEF RowsInv, Fresh
<1>. QED
  BY <1>1, <1>3, <1>4, <1>6, <1>7, <1>8 DEF RowsInv

\* A call that writes no row.
LEMMA CreateRows ==
  ASSUME RowsInv, NodesType', Datasets \subseteq Datasets',
         UNCHANGED <<counter, rows, synced, mode>>
  PROVE  RowsInv'
  BY DEF RowsInv, RowsType, Counted, Fresh

\* Every step keeps the rows in order.
LEMMA StepRows == ASSUME RowsInv, [Next]_vars PROVE RowsInv'
<1>1. CASE UNCHANGED vars
  BY <1>1 DEF vars, RowsInv, NodesType, RowsType, Counted, Fresh, Datasets
<1>2. ASSUME NEW p \in Path, CreateGroup(p) PROVE RowsInv'
  BY <1>2, CreatesGroup, CreateRows DEF CreateGroup, RowsInv
<1>3. ASSUME NEW p \in Path, CreateDataset(p) PROVE RowsInv'
  <2>1. NodesType' /\ Datasets \subseteq Datasets'
    BY <1>3, CreatesDataset DEF RowsInv
  <2>. QED
    BY <1>3, <2>1, CreateRows DEF CreateDataset
<1>4. ASSUME NEW p \in Path, RefusePush(p) PROVE RowsInv'
  <2>1. UNCHANGED <<nodes, counter, rows, synced, mode>>
    BY <1>4 DEF RefusePush
  <2>. QED
    BY <2>1 DEF RowsInv, NodesType, RowsType, Counted, Fresh, Datasets
<1>5. ASSUME NEW p \in Path, NEW v \in Value, Push(p, v) PROVE RowsInv'
  BY <1>5, PushRows
<1>6. CASE Destroy
  BY <1>6, DestroyRows
<1>7. CASE Crash
  BY <1>7, CrashRows
<1>8. CASE Ended
  BY <1>1, <1>8 DEF Ended
<1>. QED
  BY <1>1, <1>2, <1>3, <1>4, <1>5, <1>6, <1>7, <1>8 DEF Next

LEMMA RowsInvariance == Spec => []RowsInv
  BY InitRows, StepRows, PTL DEF Spec

-----------------------------------------------------------------------------
(* The disk.                                                               *)

\* A push leaves the rows before the counter as they were.
LEMMA PushKeeps ==
  ASSUME RowsInv, NEW p \in Path, NEW v \in Value, Push(p, v)
  PROVE  /\ \A q \in Path \ {p} : rows'[q] = rows[q] /\ synced'[q] = synced[q]
                                   /\ counter'[q] = counter[q]
         /\ counter'[p] = counter[p] + 1
         /\ rows'[p] \in Seq(Cell)
         /\ \A k \in 1 .. Len(rows[p]) : k \in DOMAIN rows'[p] /\ rows'[p][k] = rows[p][k]
         /\ \A k \in DOMAIN rows'[p] : k <= counter[p]
         /\ \A k \in DOMAIN rows'[p] \ DOMAIN rows[p] : k # counter[p] => rows'[p][k] = Fill
         /\ \/ last'.cell = "kept" /\ counter[p] \in DOMAIN rows'[p]
               /\ rows'[p][counter[p]] = v
            \/ last'.cell = "lost"
               /\ (counter[p] \in DOMAIN rows'[p] => rows'[p][counter[p]] = Fill)
<1>1. PICK grown \in Seq(Cell) :
        /\ grown = rows[p] \/ grown = Extended(p, counter[p])
        /\ \/ /\ counter[p] \in DOMAIN grown
              /\ rows' = [rows EXCEPT ![p] = [grown EXCEPT ![counter[p]] = v]]
              /\ last'.cell = "kept"
           \/ rows' = [rows EXCEPT ![p] = grown] /\ last'.cell = "lost"
  BY Pushes
<1>2. PICK s : synced' = [synced EXCEPT ![p] = s]
  BY Pushes
<1>3. counter' = [counter EXCEPT ![p] = counter[p] + 1]
  BY Pushes
<1>4. /\ counter[p] \in Nat \ {0} /\ Len(rows[p]) \in Nat /\ Len(rows[p]) < counter[p]
      /\ DOMAIN rows[p] = 1 .. Len(rows[p])
  BY RowsAreSequences DEF RowsInv, Counted
<1>5. /\ \A k \in DOMAIN rows[p] : k \in DOMAIN grown /\ grown[k] = rows[p][k]
      /\ \A k \in DOMAIN grown : k <= counter[p]
      /\ \A k \in DOMAIN grown \ DOMAIN rows[p] : grown[k] = Fill
  BY <1>1, <1>4 DEF Extended
<1>6. /\ \A q \in Path \ {p} : rows'[q] = rows[q] /\ synced'[q] = synced[q]
                                /\ counter'[q] = counter[q]
      /\ counter'[p] = counter[p] + 1
  BY <1>1, <1>2, <1>3 DEF RowsInv, RowsType
<1>7. CASE rows'[p] = grown /\ last'.cell = "lost"
  BY <1>1, <1>4, <1>5, <1>6, <1>7
<1>8. CASE /\ counter[p] \in DOMAIN grown /\ last'.cell = "kept"
           /\ rows'[p] = [grown EXCEPT ![counter[p]] = v]
  <2>1. rows'[p] \in Seq(Cell)
    BY PushRows DEF RowsInv, RowsType
  <2>. QED
    BY <2>1, <1>4, <1>5, <1>6, <1>8
<1>. QED
  BY <1>1, <1>7, <1>8 DEF RowsInv, RowsType

\* No step rewrites, truncates or loses a row that is on the disk.
LEMMA StepDisk ==
  ASSUME RowsInv, [Next]_vars, NEW p \in Path
  PROVE  /\ synced[p] <= synced'[p]
         /\ \A k \in 1 .. synced[p] : k \in DOMAIN rows'[p] /\ rows'[p][k] = rows[p][k]
<1>1. /\ synced[p] \in Nat /\ Len(rows[p]) \in Nat /\ DOMAIN rows[p] = 1 .. Len(rows[p])
      /\ synced[p] <= Len(rows[p])
  BY RowsAreSequences DEF RowsInv, Counted
<1>2. CASE UNCHANGED <<rows, synced>>
  BY <1>1, <1>2
<1>3. ASSUME NEW q \in Path, NEW v \in Value, Push(q, v)
      PROVE  /\ synced[p] <= synced'[p]
             /\ \A k \in 1 .. synced[p] : k \in DOMAIN rows'[p] /\ rows'[p][k] = rows[p][k]
  <2>1. CASE q = p
    <3>1. PICK s \in synced[p] .. Len(rows'[p]) : synced' = [synced EXCEPT ![p] = s]
      BY <1>3, <2>1, Pushes
    <3>2. synced'[p] = s
      BY <3>1 DEF RowsInv, RowsType
    <3>3. Len(rows'[p]) \in Nat
      BY <1>3, PushRows, LenProperties DEF RowsInv, RowsType
    <3>4. synced[p] <= s
      BY <3>1, <3>3, <1>1
    <3>. QED
      BY <1>1, <1>3, <2>1, <3>2, <3>4, PushKeeps
  <2>2. CASE q # p
    BY <1>1, <1>3, <2>2, PushKeeps
  <2>. QED
    BY <2>1, <2>2
<1>4. CASE Destroy
  BY <1>1, <1>4, DestroyRows
<1>5. CASE Crash
  <2>1. CASE p \in Datasets
    <3>1. PICK n \in synced[p] .. Len(rows[p]) :
            n \in Nat /\ rows'[p] = SubSeq(rows[p], 1, n) /\ Len(rows'[p]) = n
      BY <1>5, <2>1, CrashRows
    <3>2. DOMAIN rows'[p] = 1 .. n
      BY <1>5, <3>1, CrashRows, LenProperties DEF RowsInv, RowsType
    <3>3. \A k \in 1 .. n : rows'[p][k] = rows[p][k]
      <4>1. \A i \in 1 .. n : rows[p][i] \in Cell
        BY <1>1, <3>1, RowsAreSequences DEF RowsInv
      <4>2. \A k \in 1 .. n - 1 + 1 : SubSeq(rows[p], 1, n)[k] = rows[p][1 + k - 1]
        BY <3>1, <4>1, SubSeqProperties
      <4>. QED
        BY <3>1, <4>2
    <3>. QED
      BY <1>1, <1>5, <3>1, <3>2, <3>3, CrashRows
  <2>2. CASE p \notin Datasets
    BY <1>1, <1>5, <2>2, CrashRows DEF RowsInv, Fresh
  <2>. QED
    BY <2>1, <2>2
<1>. QED
  BY <1>2, <1>3, <1>4, <1>5 DEF Next, vars, CreateGroup, CreateDataset, RefusePush, Ended

\* A row on the disk is never rewritten, truncated or lost again, whatever the
\* library fails to do and whenever the process dies.
THEOREM DiskStands == Spec => FlushedRowsStand
<1>1. RowsInv /\ [Next]_vars =>
        [\A p \in Path :
           /\ synced[p] <= synced'[p]
           /\ \A k \in 1 .. synced[p] :
                k \in DOMAIN rows'[p] /\ rows'[p][k] = rows[p][k]]_vars
  BY StepDisk
<1>. QED
  BY <1>1, RowsInvariance, PTL DEF Spec, FlushedRowsStand

-----------------------------------------------------------------------------
(* The logs.                                                               *)

\* Cells that are missing at the end of a sequence count as lost.
LEMMA PaddedType ==
  ASSUME NEW r \in Seq(Cell), NEW n \in Nat, Len(r) <= n
  PROVE  LET s == [k \in 1 .. n |-> IF k \in DOMAIN r THEN r[k] ELSE Fill]
         IN  s \in Seq(Cell) /\ Len(s) = n
<1>1. \A k \in DOMAIN r : r[k] \in Cell
  BY LenProperties
<1>2. [k \in 1 .. n |-> IF k \in DOMAIN r THEN r[k] ELSE Fill] \in [1 .. n -> Cell]
  BY <1>1 DEF Cell
<1>. QED
  BY <1>2, Interval

\* The log of a dataset, and what KeepsTheLogs takes for all of them.
LogOf(p) == [k \in 1 .. Cells(p) |-> IF k \in DOMAIN rows[p] THEN rows[p][k] ELSE Fill]
Logs == [p \in Datasets |-> LogOf(p)]
Durable == [p \in Datasets |-> synced[p]]

LEMMA LogOfType ==
  ASSUME RowsInv, NEW p \in Path
  PROVE  /\ Cells(p) \in Nat /\ Len(rows[p]) <= Cells(p)
         /\ LogOf(p) \in Seq(Cell) /\ Len(LogOf(p)) = Cells(p)
<1>1. Cells(p) \in Nat /\ Len(rows[p]) <= Cells(p) /\ rows[p] \in Seq(Cell)
  BY RowsAreSequences DEF RowsInv, Counted, Cells
<1>. QED
  BY <1>1, PaddedType DEF LogOf

\* A call that leaves the rows and counters of a dataset leaves its log.
LEMMA LogStays ==
  ASSUME mode = "open", mode' \in {"open", "closed"}, NEW p,
         counter'[p] = counter[p], rows'[p] = rows[p]
  PROVE  LogOf(p)' = LogOf(p)
  BY DEF LogOf, Cells

\* A dataset that is created begins an empty log.
LEMMA CreatesLog ==
  ASSUME RowsInv, NEW p \in Path, mode = "open", UNCHANGED <<counter, rows, synced, mode>>,
         p \notin Datasets, Datasets' = Datasets \cup {p}, last'.cell = "none"
  PROVE  Log!Create(p)
<1>1. Cells(p) = 0 /\ synced[p] = 0
  BY DEF RowsInv, Fresh, Cells
<1>2. LogOf(p) = <<>>
  BY <1>1, LogOfType, EmptySeq
<1>3. \A q \in Datasets' : LogOf(q)' = LogOf(q)
  BY LogStays
<1>4. Logs' = [q \in DOMAIN Logs \cup {p} |-> IF q = p THEN <<>> ELSE Logs[q]]
  BY <1>2, <1>3 DEF Logs
<1>5. Durable' = [q \in DOMAIN Logs \cup {p} |-> IF q = p THEN 0 ELSE Durable[q]]
  BY <1>1 DEF Logs, Durable
<1>. QED
  BY <1>4, <1>5 DEF Log!Create, Logs, LogOf, Durable

\* A call that creates no dataset and pushes nothing.
LEMMA OtherLog ==
  ASSUME mode = "open", UNCHANGED <<counter, rows, synced, mode>>, Datasets' = Datasets,
         last'.cell = "none"
  PROVE  Log!Other
<1>1. \A q : LogOf(q)' = LogOf(q)
  BY LogStays
<1>2. Logs' = Logs /\ Durable' = Durable
  BY <1>1 DEF Logs, Durable
<1>. QED
  BY <1>2 DEF Log!Other, Logs, LogOf, Durable

\* A push appends a cell with the value, or one that is lost.
LEMMA PushLog ==
  ASSUME RowsInv, NEW p \in Path, NEW v \in Value, Push(p, v)
  PROVE  Log!Push(p, v)
<1>1. /\ p \in Datasets /\ mode = "open" /\ mode' = "open" /\ Datasets' = Datasets
      /\ \E s \in synced[p] .. Len(rows'[p]) : synced' = [synced EXCEPT ![p] = s]
  BY Pushes DEF Datasets
<1>2. RowsInv'
  BY PushRows
<1>3. /\ Cells(p) = counter[p] - 1 /\ Cells(p)' = counter[p] /\ counter[p] \in Nat \ {0}
      /\ DOMAIN rows[p] = 1 .. Len(rows[p])
  BY <1>1, PushKeeps, RowsAreSequences DEF Cells, RowsInv
<1>4. ASSUME NEW e \in Cell, LogOf(p)'[counter[p]] = e
      PROVE  LogOf(p)' = Append(LogOf(p), e)
  <2>1. LogOf(p) \in Seq(Cell) /\ Len(LogOf(p)) = counter[p] - 1
    BY <1>3, LogOfType
  <2>2. LogOf(p)' \in Seq(Cell) /\ Len(LogOf(p)') = counter[p]
    <3>1. rows'[p] \in Seq(Cell) /\ Len(rows'[p]) <= counter[p] /\ counter[p] \in Nat
      BY <1>2, <1>3, PushKeeps, LenProperties DEF RowsInv, Counted
    <3>. QED
      BY <1>3, <3>1, PaddedType DEF LogOf
  <2>3. /\ Append(LogOf(p), e) \in Seq(Cell) /\ Len(Append(LogOf(p), e)) = counter[p]
        /\ \A k \in 1 .. counter[p] - 1 : Append(LogOf(p), e)[k] = LogOf(p)[k]
        /\ Append(LogOf(p), e)[counter[p]] = e
    BY <1>3, <2>1, AppendProperties
  <2>4. ASSUME NEW k \in 1 .. counter[p] - 1 PROVE LogOf(p)'[k] = LogOf(p)[k]
    <3>1. k \in 1 .. Cells(p) /\ k \in (1 .. Cells(p))'
      BY <1>3
    <3>2. k # counter[p]
      BY <1>3
    <3>3. (IF k \in DOMAIN rows'[p] THEN rows'[p][k] ELSE Fill)
            = IF k \in DOMAIN rows[p] THEN rows[p][k] ELSE Fill
      BY <1>3, <3>2, PushKeeps
    <3>. QED
      BY <3>1, <3>3 DEF LogOf
  <2>5. \A k \in 1 .. counter[p] : k \in 1 .. counter[p] - 1 \/ k = counter[p]
    BY <1>3
  <2>. QED
    BY <1>4, <2>2, <2>3, <2>4, <2>5, SeqEqual
<1>5. \/ last'.cell = "kept" /\ LogOf(p)' = Append(LogOf(p), v)
      \/ last'.cell = "lost" /\ LogOf(p)' = Append(LogOf(p), Fill)
  <2>1. counter[p] \in (1 .. Cells(p))'
    BY <1>3
  <2>2. \/ last'.cell = "kept" /\ LogOf(p)'[counter[p]] = v
        \/ last'.cell = "lost" /\ LogOf(p)'[counter[p]] = Fill
    BY <2>1, PushKeeps DEF LogOf
  <2>. QED
    BY <1>4, <2>2 DEF Cell
<1>6. ASSUME NEW q \in Datasets \ {p} PROVE LogOf(q)' = LogOf(q) /\ synced'[q] = synced[q]
  <2>1. q \in Path
    BY DatasetsArePaths DEF RowsInv
  <2>. QED
    BY <1>1, <2>1, PushKeeps, LogStays
<1>7. ASSUME NEW e, LogOf(p)' = Append(LogOf(p), e)
      PROVE  Logs' = [Logs EXCEPT ![p] = Append(Logs[p], e)]
  BY <1>1, <1>6, <1>7 DEF Logs
<1>8. \E d \in Durable[p] .. Len(Logs'[p]) : Durable' = [Durable EXCEPT ![p] = d]
  <2>1. PICK s \in synced[p] .. Len(rows'[p]) : synced' = [synced EXCEPT ![p] = s]
    BY <1>1
  <2>2. Len(rows'[p]) \in Nat /\ Len(rows'[p]) <= Len(LogOf(p)') /\ Len(LogOf(p)') \in Nat
    <3>1. rows'[p] \in Seq(Cell) /\ Len(rows'[p]) <= counter[p] /\ counter[p] \in Nat
          /\ Len(rows'[p]) \in Nat
      BY <1>2, <1>3, PushKeeps, LenProperties DEF RowsInv, Counted
    <3>. QED
      BY <1>3, <3>1, PaddedType DEF LogOf
  <2>3. Durable[p] = synced[p] /\ Logs'[p] = LogOf(p)' /\ synced[p] \in Nat
    BY <1>1, RowsAreSequences DEF Durable, Logs, RowsInv
  <2>4. s \in Durable[p] .. Len(Logs'[p])
    BY <2>1, <2>2, <2>3
  <2>5. synced'[p] = s
    BY <2>1 DEF RowsInv, RowsType
  <2>6. Durable' = [Durable EXCEPT ![p] = s]
    BY <1>1, <1>6, <2>5 DEF Durable
  <2>. QED
    BY <2>4, <2>6
<1>9. p \in DOMAIN Logs
  BY <1>1 DEF Logs
<1>. QED
  BY <1>1, <1>5, <1>7, <1>8, <1>9 DEF Log!Push, Logs, LogOf, Durable

\* The destructor makes what it flushes durable.
LEMMA DestroyLog == ASSUME RowsInv, Destroy PROVE Log!Close
<1>1. /\ mode = "open" /\ mode' = "closed" /\ last'.cell = "none" /\ Datasets' = Datasets
      /\ UNCHANGED <<counter, rows>>
  BY DEF Destroy, Did, Datasets
<1>2. \A p \in Datasets : LogOf(p)' = LogOf(p)
  BY <1>1, LogStays
<1>3. Logs' = Logs
  BY <1>1, <1>2 DEF Logs
<1>4. ASSUME NEW p \in Datasets
      PROVE  synced'[p] \in Nat /\ synced'[p] \in synced[p] .. Len(Logs[p])
  <2>1. p \in Path
    BY DatasetsArePaths DEF RowsInv
  <2>2. synced'[p] \in Nat /\ synced'[p] \in synced[p] .. Len(rows[p])
    BY <2>1, DestroyRows
  <2>3. Len(rows[p]) \in Nat /\ Len(rows[p]) <= Len(LogOf(p)) /\ Len(LogOf(p)) \in Nat
        /\ synced[p] \in Nat
    BY <2>1, LogOfType, RowsAreSequences DEF RowsInv
  <2>. QED
    BY <2>2, <2>3 DEF Logs
<1>5. /\ Durable' \in [DOMAIN Logs -> Nat]
      /\ \A p \in DOMAIN Logs : Durable'[p] \in Durable[p] .. Len(Logs[p])
  BY <1>1, <1>4 DEF Logs, Durable
<1>. QED
  BY <1>1, <1>3, <1>5 DEF Log!Close, Logs, LogOf, Durable

\* A death keeps of each log at least what was durable.
LEMMA CrashLog == ASSUME RowsInv, Crash PROVE Log!Die
<1>1. mode = "open" /\ mode' = "dead" /\ last'.cell = "none" /\ Datasets' = Datasets
  BY DEF Crash, Did, Datasets
<1>2. ASSUME NEW p \in Datasets
      PROVE  \E n \in synced[p] .. Len(LogOf(p)) : LogOf(p)' = SubSeq(LogOf(p), 1, n)
  <2>1. p \in Path
    BY DatasetsArePaths DEF RowsInv
  <2>2. PICK n \in synced[p] .. Len(rows[p]) :
          n \in Nat /\ rows'[p] = SubSeq(rows[p], 1, n) /\ Len(rows'[p]) = n
    BY CrashRows
  <2>3. /\ LogOf(p) \in Seq(Cell) /\ Len(LogOf(p)) = Cells(p) /\ Cells(p) \in Nat
        /\ Len(rows[p]) <= Cells(p) /\ Len(rows[p]) \in Nat /\ synced[p] \in Nat
        /\ rows[p] \in Seq(Cell) /\ DOMAIN rows[p] = 1 .. Len(rows[p])
    BY <2>1, LogOfType, RowsAreSequences DEF RowsInv
  <2>4. n \in synced[p] .. Len(LogOf(p)) /\ n <= Len(rows[p])
    BY <2>2, <2>3
  <2>5. /\ rows'[p] \in Seq(Cell) /\ DOMAIN rows'[p] = 1 .. n
    <3>1. rows'[p] \in Seq(Cell)
      BY <2>1, CrashRows DEF RowsInv, RowsType
    <3>. QED
      BY <2>2, <3>1, LenProperties
  <2>6. \A k \in 1 .. n : rows'[p][k] = rows[p][k]
    <3>1. \A i \in 1 .. n : rows[p][i] \in Cell
      BY <2>3, <2>4, LenProperties
    <3>2. \A k \in 1 .. n - 1 + 1 : SubSeq(rows[p], 1, n)[k] = rows[p][1 + k - 1]
      BY <2>2, <3>1, SubSeqProperties
    <3>. QED
      BY <2>2, <3>2
  <2>7. Cells(p)' = n
    BY <1>1, <2>2 DEF Cells
  <2>8. LogOf(p)' \in Seq(Cell) /\ Len(LogOf(p)') = n
    BY <2>2, <2>5, <2>7, PaddedType DEF LogOf
  <2>9. /\ SubSeq(LogOf(p), 1, n) \in Seq(Cell) /\ Len(SubSeq(LogOf(p), 1, n)) = n
        /\ \A k \in 1 .. n : SubSeq(LogOf(p), 1, n)[k] = LogOf(p)[k]
    <3>1. \A i \in 1 .. n : LogOf(p)[i] \in Cell
      BY <2>2, <2>3, <2>4, LenProperties
    <3>2. /\ SubSeq(LogOf(p), 1, n) \in Seq(Cell)
          /\ Len(SubSeq(LogOf(p), 1, n)) = IF 1 <= n THEN n - 1 + 1 ELSE 0
          /\ \A k \in 1 .. n - 1 + 1 : SubSeq(LogOf(p), 1, n)[k] = LogOf(p)[1 + k - 1]
      BY <2>2, <3>1, SubSeqProperties
    <3>. QED
      BY <2>2, <3>2
  <2>10. ASSUME NEW k \in 1 .. n PROVE LogOf(p)'[k] = LogOf(p)[k]
    <3>1. k \in 1 .. Cells(p) /\ k \in DOMAIN rows[p] /\ k \in DOMAIN rows'[p]
      BY <2>2, <2>3, <2>4, <2>5
    <3>. QED
      BY <3>1, <2>6, <2>7 DEF LogOf
  <2>11. LogOf(p)' = SubSeq(LogOf(p), 1, n)
    BY <2>8, <2>9, <2>10, SeqEqual
  <2>. QED
    BY <2>4, <2>11
<1>3. UNCHANGED synced
  BY DEF Crash
<1>4. /\ DOMAIN Logs' = DOMAIN Logs /\ Durable' = Durable
      /\ \A p \in DOMAIN Logs :
           \E n \in Durable[p] .. Len(Logs[p]) : Logs'[p] = SubSeq(Logs[p], 1, n)
  BY <1>1, <1>2, <1>3 DEF Logs, Durable
<1>. QED
  BY <1>1, <1>4 DEF Log!Die, Logs, LogOf, Durable

\* Every step is a step of the logs, or none.
LEMMA StepLog == ASSUME RowsInv, [Next]_vars PROVE [Log!Next]_(Log!vars)
<1>1. CASE UNCHANGED vars
  BY <1>1 DEF vars, Log!vars, Datasets, Cells
<1>2. ASSUME NEW p \in Path, CreateGroup(p) PROVE Log!Next
  <2>1. Log!Other
    BY <1>2, CreatesGroup, OtherLog DEF RowsInv, CreateGroup
  <2>. QED
    BY <2>1 DEF Log!Next
<1>3. ASSUME NEW p \in Path, CreateDataset(p) PROVE Log!Next
  <2>1. mode = "open" /\ UNCHANGED <<counter, rows, synced, mode>>
    BY <1>3 DEF CreateDataset
  <2>2. \/ Datasets' = Datasets
        \/ p \notin Datasets /\ Datasets' = Datasets \cup {p}
    BY <1>3, CreatesDataset DEF RowsInv
  <2>3. last'.cell = "none"
    BY <1>3, CreatesDataset DEF RowsInv
  <2>4. Log!Other \/ Log!Create(p)
    BY <2>1, <2>2, <2>3, OtherLog, CreatesLog
  <2>. QED
    BY <2>4 DEF Log!Next
<1>4. ASSUME NEW p \in Path, RefusePush(p) PROVE Log!Next
  <2>1. Log!Other
    BY <1>4, OtherLog DEF RefusePush, Did, Datasets
  <2>. QED
    BY <2>1 DEF Log!Next
<1>5. ASSUME NEW p \in Path, NEW v \in Value, Push(p, v) PROVE Log!Next
  <2>1. Log!Push(p, v)
    BY <1>5, PushLog
  <2>. QED
    BY <2>1 DEF Log!Next
<1>6. CASE Destroy
  BY <1>6, DestroyLog DEF Log!Next
<1>7. CASE Crash
  BY <1>7, CrashLog DEF Log!Next
<1>8. CASE Ended
  BY <1>1, <1>8 DEF Ended
<1>. QED
  BY <1>1, <1>2, <1>3, <1>4, <1>5, <1>6, <1>7, <1>8 DEF Next

\* The writer implements the append-only logs: the k-th push onto a dataset
\* owns row k and tells truly whether its data got there, whatever calls of the
\* library fail and whenever the process dies.
THEOREM WriterKeepsTheLogs == Spec => KeepsTheLogs
<1>1. Init => Log!Init
  BY DEF Init, Log!Init, Datasets
<1>. QED
  BY <1>1, StepLog, RowsInvariance, PTL DEF Spec, KeepsTheLogs, Log!Spec

-----------------------------------------------------------------------------
(* The tree of nodes.                                                      *)

\* The nodes are the file and paths in use, and what is on the way to a node is
\* a node; a valid node hangs below a valid file or group.
Closed(tree) ==
  /\ DOMAIN tree \subseteq Path \cup {Root} /\ Root \in DOMAIN tree
  /\ \A p \in DOMAIN tree \ {Root} : Prefixes(p) \subseteq DOMAIN tree

Hangs(tree) ==
  \A p \in DOMAIN tree \ {Root} :
    tree[p].ok => tree[Parent(p)].ok /\ tree[Parent(p)].type # "dataset"

\* What is on the way to a path, the file and the path included.
Way(p) == {SubSeq(p, 1, k) : k \in 0 .. Len(p)}

\* The first k names of a path are a sequence of k names, and their first j
\* names are those of the path.
LEMMA Cut ==
  ASSUME NEW p \in Path, NEW k \in 0 .. Len(p)
  PROVE  /\ p \in Seq(Name) /\ Len(p) \in Nat
         /\ Len(SubSeq(p, 1, k)) = k
         /\ \A j \in 0 .. k : SubSeq(SubSeq(p, 1, k), 1, j) = SubSeq(p, 1, j)
<1>1. p \in Seq(Name) /\ Len(p) \in Nat /\ \A i \in 1 .. Len(p) : p[i] \in Name
  BY PathAssumption, LenProperties
<1>2. Len(SubSeq(p, 1, k)) = k
  BY <1>1, SubSeqProperties
<1>3. ASSUME NEW j \in 0 .. k PROVE SubSeq(SubSeq(p, 1, k), 1, j) = SubSeq(p, 1, j)
  <2>1. CASE j = 0
    BY <2>1, SubSeqEmpty
  <2>2. CASE j # 0
    <3>1. k \in 1 .. Len(p) /\ 1 \in 1 .. Len(p) /\ j \in 1 .. k - 1 + 1 /\ 1 \in 1 .. k - 1 + 1
      BY <1>1, <2>2
    <3>2. SubSeq(SubSeq(p, 1, k), 1, j) = SubSeq(p, 1 + 1 - 1, 1 + j - 1)
      BY <1>1, <3>1, SubSeqOfSubSeq
    <3>. QED
      BY <3>1, <3>2
  <2>. QED
    BY <2>1, <2>2
<1>. QED
  BY <1>1, <1>2, <1>3

\* The way is the file and the prefixes.
LEMMA WayIsPrefixes ==
  ASSUME NEW p \in Path
  PROVE  Way(p) = Prefixes(p) \cup {Root} /\ p \in Prefixes(p)
<1>1. p \in Seq(Name) /\ Len(p) \in Nat \ {0}
  BY ParentIsPrefix
<1>2. SubSeq(p, 1, 0) = Root /\ SubSeq(p, 1, Len(p)) = p
  BY <1>1, SubSeqEmpty, SubSeqFull DEF Root
<1>3. 0 .. Len(p) = {0} \cup 1 .. Len(p) /\ Len(p) \in 1 .. Len(p)
  BY <1>1
<1>. QED
  BY <1>2, <1>3 DEF Way, Prefixes

\* What is on the way to a prefix is on the way to the path, and the parent of a
\* prefix is one name shorter.
LEMMA PrefixOfPrefix ==
  ASSUME NEW p \in Path, NEW q \in Prefixes(p)
  PROVE  /\ q \in Path /\ q # Root /\ Len(q) \in Nat \ {0} /\ Len(q) <= Len(p)
         /\ Prefixes(q) \subseteq Prefixes(p)
         /\ Parent(q) \in Way(p) /\ Len(Parent(q)) = Len(q) - 1
<1>1. q \in Path /\ Len(p) \in Nat
  BY PathAssumption, ParentIsPrefix
<1>2. PICK k \in 1 .. Len(p) : q = SubSeq(p, 1, k)
  BY DEF Prefixes
<1>3. Len(q) = k /\ \A j \in 0 .. k : SubSeq(q, 1, j) = SubSeq(p, 1, j)
  BY <1>1, <1>2, Cut
<1>4. Prefixes(q) \subseteq Prefixes(p)
  BY <1>1, <1>3 DEF Prefixes
<1>5. Parent(q) = SubSeq(p, 1, k - 1)
  BY <1>1, <1>3 DEF Parent
<1>6. k - 1 \in 0 .. Len(p)
  BY <1>1
<1>7. Parent(q) \in Way(p) /\ Len(Parent(q)) = Len(q) - 1
  BY <1>3, <1>5, <1>6, Cut DEF Way
<1>. QED
  BY <1>1, <1>3, <1>4, <1>7, RootIsNoPath

\* On the way to a path there is one sequence of a length, and the shorter one
\* of two is a prefix of the longer.
LEMMA OneOfALength ==
  ASSUME NEW p \in Path, NEW q \in Way(p), NEW r \in Way(p)
  PROVE  /\ Len(q) \in Nat
         /\ Len(q) = Len(r) => q = r
         /\ q # Root /\ Len(q) <= Len(r) => r # Root /\ q \in Prefixes(r)
<1>1. PICK k \in 0 .. Len(p) : q = SubSeq(p, 1, k)
  BY DEF Way
<1>2. PICK j \in 0 .. Len(p) : r = SubSeq(p, 1, j)
  BY DEF Way
<1>3. Len(q) = k /\ Len(r) = j
  BY <1>1, <1>2, Cut
<1>4. ASSUME q # Root, k <= j PROVE r # Root /\ q \in Prefixes(r)
  <2>1. k # 0
    BY <1>1, <1>4, SubSeqEmpty DEF Root
  <2>2. k \in 1 .. j
    BY <1>4, <2>1
  <2>3. SubSeq(r, 1, k) = q
    BY <1>1, <1>2, <2>2, Cut
  <2>4. r # Root
    BY <1>3, <2>2, EmptySeq DEF Root
  <2>. QED
    BY <1>3, <2>2, <2>3, <2>4 DEF Prefixes
<1>. QED
  BY <1>1, <1>2, <1>3, <1>4

\* The parent of a missing group, when it is a node, is the base.
LEMMA ParentIsBase ==
  ASSUME Closed(nodes), NEW p \in Path, NEW q \in Missing(p), Exists(Parent(q))
  PROVE  Parent(q) = Base(p)
<1> DEFINE onTheWay == {r \in Prefixes(p) \cup {Root} : Exists(r)}
<1>1. q \in Prefixes(p) /\ q \notin DOMAIN nodes
  BY DEF Missing
<1>2. /\ q # Root /\ Len(q) \in Nat \ {0} /\ q \in Way(p)
      /\ Parent(q) \in Way(p) /\ Len(Parent(q)) = Len(q) - 1
  BY <1>1, PrefixOfPrefix, WayIsPrefixes
<1>3. onTheWay \subseteq Way(p) /\ Parent(q) \in onTheWay
  BY <1>2, WayIsPrefixes
<1>4. ASSUME NEW r \in onTheWay PROVE Len(r) <= Len(q) - 1
  <2>1. r \in Way(p) /\ r \in DOMAIN nodes
    BY <1>3 DEF Exists
  <2>2. Len(r) \in Nat
    BY <2>1, OneOfALength
  <2>3. ASSUME Len(q) <= Len(r) PROVE FALSE
    <3>1. r # Root /\ q \in Prefixes(r)
      BY <1>2, <2>1, <2>3, OneOfALength
    <3>. QED
      BY <1>1, <2>1, <3>1 DEF Closed
  <2>. QED
    BY <1>2, <2>2, <2>3
<1>5. \E r \in onTheWay : \A s \in onTheWay : Len(s) <= Len(r)
  BY <1>2, <1>3, <1>4
<1>6. Base(p) \in onTheWay /\ \A s \in onTheWay : Len(s) <= Len(Base(p))
  BY <1>5 DEF Base
<1>7. Len(Base(p)) \in Nat /\ Base(p) \in Way(p)
  BY <1>3, <1>6, OneOfALength
<1>8. Len(Base(p)) = Len(Parent(q))
  BY <1>2, <1>3, <1>4, <1>6, <1>7
<1>. QED
  BY <1>2, <1>7, <1>8, OneOfALength

\* create_group() leaves the tree closed, and its valid nodes hang.
LEMMA GroupsHang ==
  ASSUME Closed(nodes), Hangs(nodes), NEW p \in Path, NEW made \in Nat
  PROVE  Closed(WithGroups(p, made)) /\ Hangs(WithGroups(p, made))
<1> DEFINE tree == WithGroups(p, made)
<1>1. DOMAIN tree = DOMAIN nodes \cup Missing(p)
  BY DEF WithGroups
<1>2. \A q \in DOMAIN nodes : tree[q] = nodes[q]
  BY DEF WithGroups, Exists
<1>3. \A q \in Missing(p) :
        /\ q \notin DOMAIN nodes /\ tree[q].type = "group"
        /\ tree[q].ok <=> Usable(Base(p)) /\ Len(q) <= made
  BY Zenon DEF WithGroups, Exists, Missing
<1>4. Missing(p) \subseteq Prefixes(p) /\ Prefixes(p) \subseteq DOMAIN tree
  BY <1>1 DEF Missing
<1>5. Closed(tree)
  <2>1. ASSUME NEW q \in DOMAIN tree \ {Root} PROVE Prefixes(q) \subseteq DOMAIN tree
    <3>1. CASE q \in DOMAIN nodes
      BY <1>1, <2>1, <3>1 DEF Closed
    <3>2. CASE q \in Missing(p)
      BY <1>4, <3>2, PrefixOfPrefix
    <3>. QED
      BY <1>1, <2>1, <3>1, <3>2
  <2>. QED
    BY <1>1, <1>4, <2>1, PrefixOfPrefix DEF Closed
<1>6. ASSUME NEW q \in DOMAIN tree \ {Root}, tree[q].ok
      PROVE  tree[Parent(q)].ok /\ tree[Parent(q)].type # "dataset"
  <2>1. CASE q \in DOMAIN nodes
    <3>1. Parent(q) \in DOMAIN nodes
      BY <2>1, <1>6, ParentIsPrefix DEF Closed
    <3>. QED
      BY <1>2, <1>6, <2>1, <3>1 DEF Hangs
  <2>2. CASE q \in Missing(p)
    <3>1. Usable(Base(p)) /\ Len(q) <= made
      BY <1>3, <1>6, <2>2, Zenon
    <3>2. /\ Parent(q) \in Way(p) /\ Len(Parent(q)) = Len(q) - 1
          /\ Len(q) \in Nat \ {0}
      BY <1>4, <2>2, PrefixOfPrefix
    <3>3. CASE Exists(Parent(q))
      BY <1>2, <2>2, <3>1, <3>3, ParentIsBase DEF Usable, Exists
    <3>4. CASE ~Exists(Parent(q))
      <4>1. Parent(q) \in Missing(p)
        BY <3>2, <3>4, WayIsPrefixes DEF Missing, Exists, Closed
      <4>2. Len(Parent(q)) <= made
        BY <3>1, <3>2
      <4>3. tree[Parent(q)].ok /\ tree[Parent(q)].type = "group"
        BY <1>3, <3>1, <4>1, <4>2, Zenon
      <4>. QED
        BY <4>3
    <3>. QED
      BY <3>3, <3>4
  <2>. QED
    BY <1>1, <1>6, <2>1, <2>2
<1>. QED
  BY <1>5, <1>6 DEF Hangs

\* So does create_dataset() when the parent of the new dataset is a node.
LEMMA DatasetHangs ==
  ASSUME NEW tree, Closed(tree), Hangs(tree), NEW p \in Path, NEW fine \in BOOLEAN,
         p \notin DOMAIN tree, Parent(p) \in DOMAIN tree
  PROVE  Closed(WithDataset(tree, p, fine)) /\ Hangs(WithDataset(tree, p, fine))
<1> DEFINE grown == WithDataset(tree, p, fine)
<1>1. DOMAIN grown = DOMAIN tree \cup {p}
  BY DEF WithDataset
<1>2. \A q \in DOMAIN tree : grown[q] = tree[q]
  BY DEF WithDataset
<1>3. grown[p].ok => tree[Parent(p)].ok /\ tree[Parent(p)].type # "dataset"
  BY DEF WithDataset
<1>4. p # Root /\ Prefixes(p) \subseteq Prefixes(Parent(p)) \cup {p} /\ Prefixes(Root) = {}
  <2>1. p \in Seq(Name) /\ Len(p) \in Nat \ {0}
    BY ParentIsPrefix
  <2>2. Len(p) - 1 \in 0 .. Len(p)
    BY <2>1
  <2>3. Len(Parent(p)) = Len(p) - 1
        /\ \A j \in 0 .. Len(p) - 1 : SubSeq(Parent(p), 1, j) = SubSeq(p, 1, j)
    BY <2>2, Cut DEF Parent
  <2>4. SubSeq(p, 1, Len(p)) = p
    BY <2>1, SubSeqFull
  <2>5. ASSUME NEW k \in 1 .. Len(p), k # Len(p)
        PROVE  SubSeq(p, 1, k) \in Prefixes(Parent(p))
    <3>1. k \in 1 .. Len(Parent(p)) /\ k \in 0 .. Len(p) - 1
      BY <2>1, <2>3, <2>5
    <3>. QED
      BY <2>3, <3>1 DEF Prefixes
  <2>6. Prefixes(Root) = {}
    BY EmptySeq DEF Prefixes, Root
  <2>. QED
    BY <2>4, <2>5, <2>6, RootIsNoPath DEF Prefixes
<1>5. Prefixes(Parent(p)) \subseteq DOMAIN tree
  BY <1>4 DEF Closed
<1>6. Closed(grown)
  BY <1>1, <1>4, <1>5 DEF Closed
<1>7. ASSUME NEW q \in DOMAIN grown \ {Root}, grown[q].ok
      PROVE  grown[Parent(q)].ok /\ grown[Parent(q)].type # "dataset"
  <2>1. CASE q = p
    BY <1>2, <1>3, <1>7, <2>1
  <2>2. CASE q \in DOMAIN tree
    <3>1. Parent(q) \in DOMAIN tree
      BY <2>2, <1>7, ParentIsPrefix DEF Closed
    <3>. QED
      BY <1>2, <1>7, <2>2, <3>1 DEF Hangs
  <2>. QED
    BY <1>1, <1>7, <2>1, <2>2
<1>. QED
  BY <1>6, <1>7 DEF Hangs

\* A creation may get as deep as some number of groups.
LEMMA MadeIsNat == ASSUME NEW p \in Path, NEW made \in Made(p) PROVE made \in Nat
  BY Cut, ParentIsPrefix DEF Made

\* The nodes by the time create_datanode() runs: the parent is one of them.
LEMMA ParentsHang ==
  ASSUME Closed(nodes), Hangs(nodes), NEW p \in Path, ~Exists(p), NEW tree \in WithParents(p)
  PROVE  Closed(tree) /\ Hangs(tree) /\ p \notin DOMAIN tree /\ Parent(p) \in DOMAIN tree
<1>1. p \notin DOMAIN nodes
  BY DEF Exists
<1>2. CASE Exists(Parent(p))
  BY <1>1, <1>2 DEF Exists, WithParents
<1>3. CASE ~Exists(Parent(p))
  <2>1. Parent(p) \in Path /\ Len(Parent(p)) < Len(p)
    <3>1. p \in Prefixes(p)
      BY WayIsPrefixes
    <3>2. Len(Parent(p)) = Len(p) - 1 /\ Len(p) \in Nat
      BY <3>1, PrefixOfPrefix
    <3>. QED
      BY <1>3, <3>2, ParentIsPrefix, PathAssumption DEF Exists, Closed
  <2>2. ASSUME p \in Prefixes(Parent(p)) PROVE FALSE
    BY <2>1, <2>2, PrefixOfPrefix, ParentIsPrefix
  <2>3. PICK made \in Made(p) : tree = WithGroups(Parent(p), made)
    BY <1>3 DEF WithParents
  <2>4. p \notin DOMAIN tree
    BY <1>1, <2>2, <2>3 DEF WithGroups, Missing
  <2>5. Parent(p) \in DOMAIN tree
    BY <2>1, <2>3, WayIsPrefixes DEF WithGroups, Missing
  <2>. QED
    BY <2>1, <2>3, <2>4, <2>5, GroupsHang, MadeIsNat
<1>. QED
  BY <1>2, <1>3

\* The tree stays closed and its valid nodes hang, whatever is created below
\* whatever and whichever creations fail.
LEMMA StepTree ==
  ASSUME Closed(nodes), Hangs(nodes), [Next]_vars
  PROVE  Closed(nodes') /\ Hangs(nodes')
<1>1. CASE UNCHANGED nodes
  BY <1>1
<1>2. ASSUME NEW p \in Path, CreateGroup(p) PROVE Closed(nodes') /\ Hangs(nodes')
  <2>1. UNCHANGED nodes \/ \E made \in Made(p) : nodes' = WithGroups(p, made)
    BY <1>2 DEF CreateGroup
  <2>. QED
    BY <1>1, <2>1, GroupsHang, MadeIsNat
<1>3. ASSUME NEW p \in Path, CreateDataset(p) PROVE Closed(nodes') /\ Hangs(nodes')
  <2>1. CASE UNCHANGED nodes
    BY <1>1, <2>1
  <2>2. ASSUME ~Exists(p), NEW tree \in WithParents(p)
        PROVE  Closed(tree) /\ Hangs(tree) /\ p \notin DOMAIN tree /\ Parent(p) \in DOMAIN tree
    BY <2>2, ParentsHang
  <2>3. CASE ~Exists(p) /\ nodes' \in WithParents(p)
    BY <2>2, <2>3
  <2>4. ASSUME ~Exists(p), NEW tree \in WithParents(p), NEW fine \in BOOLEAN,
               nodes' = WithDataset(tree, p, fine)
        PROVE  Closed(nodes') /\ Hangs(nodes')
    BY <2>2, <2>4, DatasetHangs
  <2>. QED
    BY <1>3, <2>1, <2>3, <2>4 DEF CreateDataset, Outcome
<1>4. ASSUME NEW p \in Path, RefusePush(p) PROVE UNCHANGED nodes
  BY <1>4 DEF RefusePush
<1>5. ASSUME NEW p \in Path, NEW v \in Value, Push(p, v) PROVE UNCHANGED nodes
  BY <1>5 DEF Push
<1>6. CASE Destroy \/ Crash \/ Ended \/ UNCHANGED vars
  BY <1>1, <1>6 DEF Destroy, Crash, Ended, vars
<1>. QED
  BY <1>1, <1>2, <1>3, <1>4, <1>5, <1>6 DEF Next

\* The invariant of the tree is inductive.
TreeInv == Closed(nodes) /\ Hangs(nodes)

LEMMA TreeInvariance == Spec => []TreeInv
<1>1. Init => TreeInv
  BY DEF Init, Closed, Hangs, TreeInv
<1>2. TreeInv /\ [Next]_vars => TreeInv'
  BY StepTree DEF TreeInv
<1>. QED
  BY <1>1, <1>2, PTL DEF Spec

\* The parent of every node is a node: nodes.at(parent_path) never throws,
\* whatever was created below whatever, and in whatever order.
THEOREM ParentsStay == Spec => []ParentsPresent
<1>1. TreeInv => ParentsPresent
  BY ParentIsPrefix DEF TreeInv, Closed, ParentsPresent, Exists
<1>. QED
  BY <1>1, TreeInvariance, PTL

\* A node whose handle is valid hangs below valid nodes that may have children,
\* whichever creations of the library fail.
THEOREM ValidHandlesStay == Spec => []ValidHandlesHang
<1>1. TreeInv => ValidHandlesHang
  BY ParentIsPrefix DEF TreeInv, Closed, Hangs, ValidHandlesHang, Exists, Usable
<1>. QED
  BY <1>1, TreeInvariance, PTL
=============================================================================
