--------------------------- MODULE MCRestartFiles ---------------------------
(***************************************************************************)
(* Four tasks on two nodes for the module RestartFiles: the order of the   *)
(* scheduler is 0, 2, 1, 3.                                                *)
(***************************************************************************)
EXTENDS RestartFiles, TLC

MCNode == 0 :> 0 @@ 1 :> 0 @@ 2 :> 1 @@ 3 :> 1
=============================================================================
