----------------------- MODULE MCApprovalCoordinator -----------------------
(***************************************************************************)
(* Instances of ApprovalCoordinator for TLC.                               *)
(***************************************************************************)
EXTENDS ApprovalCoordinator
=============================================================================
