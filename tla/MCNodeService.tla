----------------------------- MODULE MCNodeService -----------------------------
(***************************************************************************)
(* An instance of the node's service for TLC.                              *)
(***************************************************************************)
EXTENDS NodeService
================================================================================
