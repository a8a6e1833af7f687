------------------------------ MODULE NodeTree -------------------------------
(***************************************************************************)
(* The nodes of a writer as C++ objects (hdf5::node, src/src/output/       *)
(* writer.cpp): each owns the handles of one HDF5 object and points to its *)
(* parent and its children, all of them by raw pointer.  The map of the    *)
(* writer is unordered, so clean_nodes() deletes the nodes in any order;   *)
(* the destructor of a node closes the nodes below it recursively, which   *)
(* stay in the map to be deleted later.                                    *)
(*                                                                         *)
(* One step here is one turn of the loop in node::close().                 *)
(***************************************************************************)
EXTENDS Naturals, Sequences

CONSTANTS
  Node,   \* the objects that may be allocated
  Root,   \* that of the file
  Null    \* nullptr

ASSUME NodeAssumption == Root \in Node /\ Null \notin Node

VARIABLES
  phase,     \* "open", then "cleaning" once clean_nodes() runs
  inMap,     \* the objects that are allocated: node* values of the map
  handle,    \* "none" before the object is created, then "open", "closed"
  parent,    \* node::parent
  children,  \* node::children, with nullptr in the slots of removed ones
  stack,     \* the calls of close() that run: node and loop index
  below      \* which object each one was created below, in the HDF5 file

treeVars == <<phase, inMap, handle, parent, children, stack, below>>

-----------------------------------------------------------------------------
TreeInit ==
  /\ phase = "open"
  /\ inMap = {Root}
  /\ handle = [n \in Node |-> IF n = Root THEN "open" ELSE "none"]
  /\ parent = [n \in Node |-> Null]
  /\ children = [n \in Node |-> <<>>]
  /\ stack = <<>>
  /\ below = [n \in Node |-> Null]

\* new node(parent_ptr, id, type), inserted into the map.
Insert(p, n) ==
  /\ phase = "open"
  /\ p \in inMap
  /\ handle[n] = "none"
  /\ inMap' = inMap \cup {n}
  /\ handle' = [handle EXCEPT ![n] = "open"]
  /\ parent' = [parent EXCEPT ![n] = p]
  /\ children' = [children EXCEPT ![p] = Append(@, n)]
  /\ below' = [below EXCEPT ![n] = p]
  /\ UNCHANGED <<phase, stack>>

\* The destructor of the writer reaches clean_nodes().
Clean ==
  /\ phase = "open"
  /\ phase' = "cleaning"
  /\ UNCHANGED <<inMap, handle, parent, children, stack, below>>

\* The loop of clean_nodes() deletes the next node, whichever that is.
Delete(n) ==
  /\ phase = "cleaning"
  /\ stack = <<>>
  /\ n \in inMap
  /\ stack' = << [node |-> n, next |-> 1] >>
  /\ UNCHANGED <<phase, inMap, handle, parent, children, below>>

Running == stack[Len(stack)]
AtEnd == Running.next > Len(children[Running.node])
Caller == SubSeq(stack, 1, Len(stack) - 1)

\* Mutated forms of Turn: close() leaves the children alone; it forgets to
\* advance its index; it starts below the first child.
TurnWithoutChildren(c) ==
  /\ stack' = Append(Caller, [Running EXCEPT !.next = @ + 1])
  /\ UNCHANGED <<phase, inMap, handle, parent, children, below>>
TurnInPlace(c) ==
  /\ stack' = stack \o IF c = Null THEN <<>> ELSE << [node |-> c, next |-> 1] >>
  /\ UNCHANGED <<phase, inMap, handle, parent, children, below>>
\* One turn of the loop over the children: a child that is not null is closed.
Turn(c) ==
  /\ stack' = Append(Caller, [Running EXCEPT !.next = @ + 1])
              \o IF c = Null THEN <<>> ELSE << [node |-> c, next |-> 1] >>
  /\ UNCHANGED <<phase, inMap, handle, parent, children, below>>

Descend ==
  /\ stack # <<>>
  /\ ~AtEnd
  /\ Turn(children[Running.node][Running.next])

\* Mutated form of WithoutChild: the slot of the parent keeps the pointer.
KeepingChild(n) == [children EXCEPT ![n] = <<>>]

\* children.clear() and remove_from_parent(): the slot of n becomes null.
WithoutChild(n) ==
  [m \in Node |->
     IF m = n THEN <<>>
     ELSE IF m = parent[n]
       THEN [k \in DOMAIN children[m] |->
               IF children[m][k] = n THEN Null ELSE children[m][k]]
       ELSE children[m]]

\* Mutated form of Freed: the map is cleared after the first delete.
FreedAll(n) == IF Caller = <<>> THEN inMap ELSE {}

\* The object is freed when the delete expression itself ends.
Freed(n) == IF Caller = <<>> THEN {n} ELSE {}

\* The rest of close(): cut the pointers, close the handle, shuffle().
Finish ==
  /\ stack # <<>>
  /\ AtEnd
  /\ LET n == Running.node
     IN  /\ children' = WithoutChild(n)
         /\ parent' = [parent EXCEPT ![n] = Null]
         /\ handle' = [handle EXCEPT ![n] = "closed"]
         /\ inMap' = inMap \ Freed(n)
  /\ stack' = Caller
  /\ UNCHANGED <<phase, below>>

Emptied == inMap = {} /\ UNCHANGED treeVars

TreeNext ==
  \/ \E n \in Node : Delete(n) \/ \E p \in Node : Insert(p, n)
  \/ Clean
  \/ Descend
  \/ Finish
  \/ Emptied

TreeSpec == TreeInit /\ [][TreeNext]_treeVars

\* The destructor runs to its end once it was called.
Teardown == (\E n \in Node : Delete(n)) \/ Descend \/ Finish
FairSpec == TreeSpec /\ WF_treeVars(Teardown)
-----------------------------------------------------------------------------
\* No pointer leads to an object that was freed, and close() never runs on
\* one, in whatever order the map hands out the nodes (writer.cpp 48-68,
\* 156-167).
NoDanglingPointer ==
  /\ \A n \in inMap :
       /\ parent[n] \in inMap \cup {Null}
       /\ \A k \in DOMAIN children[n] : children[n][k] \in inMap \cup {Null}
  /\ \A d \in DOMAIN stack : stack[d].node \in inMap

\* An HDF5 object is closed before the one it was created below: the file
\* last (writer.cpp 66-109).
ClosedFromTheLeaves ==
  \A n \in Node :
    below[n] # Null /\ handle[n] = "open" => handle[below[n]] = "open"

\* Every handle that was opened is closed when the map is empty.
NothingLeaks ==
  inMap = {} => \A n \in Node : handle[n] # "open"

\* The destructor of the writer comes to its end.
CleaningEnds == phase = "cleaning" ~> inMap = {}
=============================================================================
