------------------------------ MODULE AppendLog ------------------------------
(***************************************************************************)
(* What the writer class promises to the monitor that pushes into it: a    *)
(* set of named logs, one cell per accepted push in the order of the       *)
(* pushes, whatever happens to the write itself.  A cell whose write       *)
(* failed is Lost and the push says so.  A prefix of every log is durable  *)
(* and only grows; the end of the process keeps every log, its death keeps *)
(* at least the durable prefix.                                            *)
(***************************************************************************)
EXTENDS Naturals, Sequences

CONSTANTS
  Name,    \* the names a log may have
  Value,   \* what is pushed
  Lost     \* the content of a cell whose write failed

VARIABLES
  log,      \* the cells of every log created so far
  durable,  \* how many of them a death of the process cannot undo
  answer,   \* what the last call said of a value: "kept", "lost" or "none"
  up        \* whether the process runs

vars == <<log, durable, answer, up>>

Init ==
  /\ log = [n \in {} |-> <<>>]
  /\ durable = [n \in {} |-> 0]
  /\ answer = "none"
  /\ up = TRUE

Create(n) ==
  /\ up
  /\ n \in Name \ DOMAIN log
  /\ log' = [m \in DOMAIN log \cup {n} |-> IF m = n THEN <<>> ELSE log[m]]
  /\ durable' = [m \in DOMAIN log \cup {n} |-> IF m = n THEN 0 ELSE durable[m]]
  /\ answer' = "none"
  /\ UNCHANGED up

\* The cell is added whether the value reached it or not.
Push(n, v) ==
  /\ up
  /\ n \in DOMAIN log
  /\ \/ answer' = "kept" /\ log' = [log EXCEPT ![n] = Append(@, v)]
     \/ answer' = "lost" /\ log' = [log EXCEPT ![n] = Append(@, Lost)]
  /\ \E d \in durable[n] .. Len(log'[n]) : durable' = [durable EXCEPT ![n] = d]
  /\ UNCHANGED up

\* A call that creates no log and pushes nothing.
Other ==
  /\ up
  /\ answer' = "none"
  /\ UNCHANGED <<log, durable, up>>

Close ==
  /\ up
  /\ up' = FALSE
  /\ answer' = "none"
  /\ UNCHANGED log
  /\ durable' \in [DOMAIN log -> Nat]
  /\ \A n \in DOMAIN log : durable'[n] \in durable[n] .. Len(log[n])

Die ==
  /\ up
  /\ up' = FALSE
  /\ answer' = "none"
  /\ DOMAIN log' = DOMAIN log
  /\ \A n \in DOMAIN log :
        \E k \in durable[n] .. Len(log[n]) : log'[n] = SubSeq(log[n], 1, k)
  /\ UNCHANGED durable

Next ==
  \/ \E n \in Name : Create(n) \/ \E v \in Value : Push(n, v)
  \/ Other
  \/ Close
  \/ Die

Spec == Init /\ [][Next]_vars
=============================================================================
