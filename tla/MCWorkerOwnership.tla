--------------------------- MODULE MCWorkerOwnership ---------------------------
(***************************************************************************)
(* Small instances of WorkerOwnership for TLC.                             *)
(***************************************************************************)
EXTENDS WorkerOwnership

CONSTANTS i1, i2
=============================================================================
