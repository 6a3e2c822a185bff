--------------------------- MODULE MCWorkerFleet ---------------------------
(***************************************************************************)
(* Instances of WorkerFleet for TLC.                                       *)
(***************************************************************************)
EXTENDS WorkerFleet

CONSTANTS s1, s2

\* Two profiles of a submission, then another one.
MCJobs == <<s1, s1, s2>>
=============================================================================
