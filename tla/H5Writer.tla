------------------------------ MODULE H5Writer -------------------------------
(***************************************************************************)
(* The writer class (src/src/output/writer.cpp): one HDF5 file, the nodes  *)
(* map from paths to handles, and the stack_counter that numbers the rows  *)
(* pushed into each dataset.  The root rank calls it from one thread; what *)
(* is hard is what the HDF5 library does underneath: a handle may be       *)
(* invalid, a write may fail, a flush happens once per chunk only, and     *)
(* the process may die between two calls.                                  *)
(***************************************************************************)
EXTENDS Naturals, Sequences

CONSTANTS
  Name,     \* names of groups and datasets
  Path,     \* the paths in use: non-empty, closed under prefixes
  Value,    \* the data of one row
  Fill,     \* what HDF5 fills a row with that was never written
  Chunk,    \* chunk_size of every dataset, at creation and at every push
  MaxRows,  \* bound: pushes accepted per dataset
  Faults    \* bound: the sets of faults considered

Prefixes(p) == {SubSeq(p, 1, k) : k \in 1 .. Len(p)}

ASSUME PathAssumption ==
  /\ Path \subseteq Seq(Name) /\ <<>> \notin Path
  /\ \A p \in Path : Prefixes(p) \subseteq Path
ASSUME ChunkAssumption == Chunk \in [Path -> Nat \ {0}]
ASSUME MaxRowsAssumption == MaxRows \in Nat
ASSUME FillAssumption == Fill \notin Value
ASSUME FaultsAssumption == Faults \subseteq SUBSET {"library", "death"}

VARIABLES
  nodes,    \* writer::nodes: the type of every node and whether its hid is valid
  counter,  \* writer::stack_counter, 1 for a dataset never pushed into
  rows,     \* the rows of every dataset as the HDF5 library holds them
  synced,   \* how many of them it has written to the disk
  mode,     \* "open", then "closed" by the destructor or "dead" by a crash
  last,     \* the last call: what, where, what it returned
  faults    \* what may go wrong in this run

vars == <<nodes, counter, rows, synced, mode, last, faults>>

\* Calls of the HDF5 library may fail by themselves; the process may die.
Faulty == "library" \in faults
Mortal == "death" \in faults

-----------------------------------------------------------------------------
Root == <<>>
Parent(p) == SubSeq(p, 1, Len(p) - 1)

\* A path is in use once it is a key of nodes.
Exists(p) == p \in DOMAIN nodes
Datasets == {p \in DOMAIN nodes : nodes[p].type = "dataset"}

\* HDF5 creates an object below a valid group or file only.
Usable(p) == nodes[p].ok /\ nodes[p].type # "dataset"

\* Mutated form of Base: parent_path is not advanced over existing groups.
BaseOfFile(p) == Root

\* The deepest node on the way to p: the first H5Gcreate2 is called on it.
Base(p) ==
  LET onTheWay == {q \in Prefixes(p) \cup {Root} : Exists(q)}
  IN  CHOOSE q \in onTheWay : \A r \in onTheWay : Len(r) <= Len(q)

\* Mutated form of Missing: the groups on the way are not created.
MissingLast(p) == {p} \ DOMAIN nodes

Missing(p) == Prefixes(p) \ DOMAIN nodes

\* nodes with the groups that create_group(p) inserts: each is created below
\* the one before, so once a creation fails all the deeper ones fail; the
\* node is inserted all the same.  made is how deep HDF5 gets.
WithGroups(p, made) ==
  [q \in DOMAIN nodes \cup Missing(p) |->
     IF Exists(q) THEN nodes[q]
     ELSE [type |-> "group", ok |-> Usable(Base(p)) /\ Len(q) <= made]]

\* How deep the creation of the groups on the way to p may get.
Made(p) == IF Faulty THEN 0 .. Len(p) ELSE {Len(p)}

\* What a call of the library that should succeed may do.
Outcome == IF Faulty THEN BOOLEAN ELSE {TRUE}

\* A call that writes no row, and a push that tried to.
Did(op, p, ret) ==
  last' = [op |-> op, path |-> p, ret |-> ret, cell |-> "none"]
Pushed(p, hit) ==
  last' = [op |-> "push", path |-> p, ret |-> IF hit THEN "0" ELSE "1",
           cell |-> IF hit THEN "kept" ELSE "lost"]

Init ==
  /\ nodes = [p \in {Root} |-> [type |-> "file", ok |-> TRUE]]
  /\ counter = [p \in Path |-> 1]
  /\ rows = [p \in Path |-> <<>>]
  /\ synced = [p \in Path |-> 0]
  /\ mode = "open"
  /\ last = [op |-> "create_file", path |-> Root, ret |-> "0", cell |-> "none"]
  /\ faults \in Faults

-----------------------------------------------------------------------------
\* create_group(p): 1 when the path is in use, else every missing group.
CreateGroup(p) ==
  /\ mode = "open"
  /\ \/ /\ Exists(p)
        /\ Did("create_group", p, "1")
        /\ UNCHANGED nodes
     \/ /\ ~Exists(p)
        /\ \E made \in Made(p) : nodes' = WithGroups(p, made)
        /\ Did("create_group", p, "0")
  /\ UNCHANGED <<counter, rows, synced, mode, faults>>

\* The node of dataset p below its parent's node in tree.
WithDataset(tree, p, fine) ==
  LET parent == tree[Parent(p)]
  IN  [q \in DOMAIN tree \cup {p} |->
         IF q = p
           THEN [type |-> "dataset",
                 ok |-> parent.ok /\ parent.type # "dataset" /\ fine]
           ELSE tree[q]]

\* The nodes by the time create_datanode(p) runs: a parent that is missing was
\* created as a group, whatever that returned.
WithParents(p) ==
  IF Exists(Parent(p)) THEN {nodes} ELSE {WithGroups(Parent(p), made) : made \in Made(p)}

\* create_dataset(p): 1 when the path is in use.  create_datanode() throws when
\* the parent is a dataset or the compression cannot be set; the groups that
\* were created for it stay.
CreateDataset(p) ==
  /\ mode = "open"
  /\ \/ /\ Exists(p)
        /\ Did("create_dataset", p, "1")
        /\ UNCHANGED nodes
     \/ /\ ~Exists(p)
        /\ Faulty \/ Parent(p) \in Datasets
        /\ nodes' \in WithParents(p)
        /\ Did("create_dataset", p, "throw")
     \/ /\ ~Exists(p)
        /\ Parent(p) \notin Datasets
        /\ \E tree \in WithParents(p), fine \in Outcome : nodes' = WithDataset(tree, p, fine)
        /\ Did("create_dataset", p, "0")
  /\ UNCHANGED <<counter, rows, synced, mode, faults>>

\* push() returns 1 at once: no such node, not a dataset, or another length.
RefusePush(p) ==
  /\ mode = "open"
  /\ Did("push", p, "1")
  /\ UNCHANGED <<nodes, counter, rows, synced, mode, faults>>

\* The rows of p once H5Dset_extent asked for n of them.
Extended(p, n) ==
  [k \in 1 .. n |-> IF k \in DOMAIN rows[p] THEN rows[p][k] ELSE Fill]

\* What H5Dflush leaves on the disk, its status is ignored.
Flushed(p) == IF Faulty THEN synced[p] .. Len(rows'[p]) ELSE {Len(rows'[p])}

\* Mutated forms of CountPush: a failed write leaves the counter alone; the
\* counter starts again once the stack is full.
CountPushOnSuccess(p, written) ==
  counter' = IF written THEN [counter EXCEPT ![p] = @ + 1] ELSE counter
CountPushInStack(p, written) ==
  counter' = [counter EXCEPT ![p] = IF @ % Chunk[p] = 0 THEN 1 ELSE @ + 1]

\* ++stack_counter, whatever the status of the write.
CountPush(p, written) == counter' = [counter EXCEPT ![p] = @ + 1]

\* The stack is full at every multiple of chunk_size.
FlushWhenFull(p) == IF counter[p] % Chunk[p] = 0 THEN Flushed(p) ELSE {synced[p]}

\* push(v) onto p: extend to stack_counter rows, write the last one, flush if
\* the stack is full, count.  The status of the extension is overwritten; a
\* write outside the extent fails, so its status tells.
Push(p, v) ==
  /\ mode = "open"
  /\ p \in Datasets
  /\ counter[p] <= MaxRows
  /\ \E extended, written \in Outcome :
       LET grown == IF nodes[p].ok /\ extended THEN Extended(p, counter[p])
                    ELSE rows[p]
           hit == counter[p] \in DOMAIN grown /\ written
       IN  /\ rows' = [rows EXCEPT ![p] =
                         IF hit THEN [grown EXCEPT ![counter[p]] = v] ELSE grown]
           /\ \E s \in FlushWhenFull(p) : synced' = [synced EXCEPT ![p] = s]
           /\ CountPush(p, hit)
           /\ Pushed(p, hit)
  /\ UNCHANGED <<nodes, mode, faults>>

\* Mutated form of Destroyed: the file is closed without the flush.
DestroyedUnflushed == {synced}

\* How many rows of every dataset the disk may hold, flushed ones included.
Kept ==
  {k \in [Datasets -> 0 .. MaxRows] : \A p \in Datasets : k[p] \in synced[p] .. Len(rows[p])}

\* What is on the disk once every dataset and the file were flushed.
Destroyed ==
  IF Faulty
    THEN {[p \in Path |-> IF p \in Datasets THEN k[p] ELSE 0] : k \in Kept}
    ELSE {[p \in Path |-> Len(rows[p])]}

\* ~writer(): flush and close everything.
Destroy ==
  /\ mode = "open"
  /\ mode' = "closed"
  /\ synced' \in Destroyed
  /\ Did("destroy", Root, "0")
  /\ UNCHANGED <<nodes, counter, rows, faults>>

\* The process dies: the disk keeps what was flushed, and possibly more.
Crash ==
  /\ Mortal
  /\ mode = "open"
  /\ mode' = "dead"
  /\ \E kept \in Kept :
       rows' = [p \in Path |-> IF p \in Datasets THEN SubSeq(rows[p], 1, kept[p]) ELSE <<>>]
  /\ Did("crash", Root, "0")
  /\ UNCHANGED <<nodes, counter, synced, faults>>

Ended == mode # "open" /\ UNCHANGED vars

Next ==
  \/ \E p \in Path :
       CreateGroup(p) \/ CreateDataset(p) \/ RefusePush(p)
       \/ \E v \in Value : Push(p, v)
  \/ Destroy
  \/ Crash
  \/ Ended

Spec == Init /\ [][Next]_vars
-----------------------------------------------------------------------------
\* nodes.at(parent_path) never throws: whatever was created below whatever, in
\* whatever order, the parent of a node is in the map (writer.cpp 267-284,
\* 325-345).
ParentsPresent == \A p \in DOMAIN nodes \ {Root} : Exists(Parent(p))

\* A node whose handle is valid hangs below nodes whose handles are valid and
\* that may have children, although create_group() goes through an existing
\* dataset and inserts whatever H5Gcreate2 returned (writer.cpp 249-283).
ValidHandlesHang ==
  \A p \in DOMAIN nodes \ {Root} :
    nodes[p].ok => Exists(Parent(p)) /\ Usable(Parent(p))

\* A row on the disk is never rewritten, truncated or lost again, by a later
\* push, the destructor or a crash (writer.cpp 452-466, 480).
FlushedRowsStand ==
  [][\A p \in Path :
       /\ synced[p] <= synced'[p]
       /\ \A k \in 1 .. synced[p] :
            k \in DOMAIN rows'[p] /\ rows'[p][k] = rows[p][k]]_vars

\* The logs a client of the writer sees: a cell per push that was not refused,
\* the missing ones at the end included; what a dead process left is only what
\* is in the file.
Cells(p) == IF mode = "dead" THEN Len(rows[p]) ELSE counter[p] - 1
Log == INSTANCE AppendLog WITH
  Name <- Path,
  Lost <- Fill,
  log <- [p \in Datasets |->
            [k \in 1 .. Cells(p) |->
               IF k \in DOMAIN rows[p] THEN rows[p][k] ELSE Fill]],
  durable <- [p \in Datasets |-> synced[p]],
  answer <- last.cell,
  up <- mode = "open"

\* The writer keeps the promise of AppendLog: the k-th push onto a dataset owns
\* row k and tells truly whether its data got there, even when the library
\* fails to extend, write or flush (writer.cpp 425-489).
KeepsTheLogs == Log!Spec
=============================================================================
