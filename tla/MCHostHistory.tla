---------------------------- MODULE MCHostHistory ----------------------------
(***************************************************************************)
(* The instance of MCHost, with the write history of HostHistory.         *)
(***************************************************************************)
EXTENDS MCHost, HostHistory
=============================================================================
