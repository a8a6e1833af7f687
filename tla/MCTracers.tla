------------------------------ MODULE MCTracers ------------------------------
(***************************************************************************)
(* A small galaxy for the module Tracers: two tracers and two anchors on   *)
(* both sides of a centre that starts away from the origin and moves.      *)
(***************************************************************************)
EXTENDS Tracers, TLC

MCStartPos == 7 :> 2 @@ 8 :> -3
MCAnchor == {-1, 1}
MCDrift == {1}
=============================================================================
