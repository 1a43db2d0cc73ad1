----------------------------- MODULE MCNvmeQueue -----------------------------
(***************************************************************************)
(* Instances of NvmeQueue for TLC: its constants are numbers and are given *)
(* in the configurations.                                                  *)
(***************************************************************************)
EXTENDS NvmeQueue
=============================================================================
