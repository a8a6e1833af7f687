------------------------------ MODULE MCMonitor ------------------------------
(***************************************************************************)
(* Instances of Monitor for TLC: centres are integers, plus a NaN that is  *)
(* close to nothing, as the garbage of an uninitialised double may be.     *)
(***************************************************************************)
EXTENDS Monitor, Integers

CONSTANT NaN

\* Options of the .cfg files.
CONSTANTS MaxPos, Threshold

Positions == 0 .. MaxPos
MCCenter == Positions \cup {NaN}
MCOffset == {-1, 0, 1}

\* A centre stays inside the positions of the instance.
MCMoved(c, d) ==
  IF c = NaN THEN NaN
  ELSE IF c + d \in Positions THEN c + d ELSE c

MCClose(c, d) ==
  /\ c # NaN
  /\ d # NaN
  /\ c - d <= Threshold
  /\ d - c <= Threshold

AllModules == [md |-> 2, ptc |-> 3, orb |-> 4, grp |-> 3]

AllSites == <<"axis", "sbar", "sbuckle", "an", "radius", "dispersion">>

Zeroed == {0}
=============================================================================
