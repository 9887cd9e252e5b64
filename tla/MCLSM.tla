------------------------------- MODULE MCLSM --------------------------------
(***************************************************************************)
(* Small instances of LSM for TLC.                                          *)
(***************************************************************************)
EXTENDS LSM

MCRecords == 1..2
MCMaxSize == [l \in 0..(MaxLevel - 1) |-> l + 1]
=============================================================================
