---------------------------- MODULE MCMcpClient ------------------------------
(***************************************************************************)
(* Instances of McpClient for TLC.                                          *)
(***************************************************************************)
EXTENDS McpClient
=============================================================================
