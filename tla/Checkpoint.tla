----------------------------- MODULE Checkpoint -----------------------------
(***************************************************************************)
(* What the restart files of Gadget-4 promise to the user of a long run    *)
(* (src/gadget4/documentation/02_running.md): a program that dies is       *)
(* resumed from the last state it saved, saving is atomic, and only the    *)
(* user can make a saved state disappear.  RestartFiles implements it with *)
(* one file of every task and one backup of each.  Nothing is promised any *)
(* more after a lapse, something that went wrong unnoticed.                *)
(***************************************************************************)
EXTENDS Naturals

CONSTANT Nothing      \* no state was saved

VARIABLES
  up,       \* the program works
  work,     \* how far it came
  stored,   \* the state it would be resumed from
  sound     \* there was no lapse

vars == <<up, work, stored, sound>>

Init == up = FALSE /\ work = 0 /\ stored = Nothing /\ sound = TRUE

\* A new run, in a directory without saved states.
StartNew == ~up /\ stored = Nothing /\ up' = TRUE /\ work' = 0 /\ UNCHANGED <<stored, sound>>

\* A run goes on where the saved state is.
Resume == ~up /\ stored # Nothing /\ up' = TRUE /\ work' = stored /\ UNCHANGED <<stored, sound>>

Advance == up /\ work' = work + 1 /\ UNCHANGED <<up, stored, sound>>

Save == up /\ stored' = work /\ UNCHANGED <<up, work, sound>>

\* The program ends or dies, at any time.
Die == up /\ up' = FALSE /\ work' = 0 /\ UNCHANGED <<stored, sound>>

\* The user removes what was saved.
Forget == ~up /\ stored' = Nothing /\ UNCHANGED <<up, work, sound>>

\* From a lapse on anything may happen.
Lapse == ~sound'

Next == StartNew \/ Resume \/ Advance \/ Save \/ Die \/ Forget \/ Lapse

Spec == Init /\ [][Next]_vars
=============================================================================
