-------------------------- MODULE MCBenchPipeline --------------------------
(***************************************************************************)
(* Instances of BenchPipeline for TLC.                                     *)
(***************************************************************************)
EXTENDS BenchPipeline, TLC

CONSTANTS s1, s2, w1, w2, p1, p2

\* Both submissions hash to one partition.
SamePartition == [s \in {s1, s2} |-> p1]

\* Each submission has a partition of its own.
OwnPartition == (s1 :> p1) @@ (s2 :> p2)

\* A single submission.
OnlyPartition == s1 :> p1

\* Workers are interchangeable.
WorkerSymmetry == Permutations({w1, w2})

=============================================================================
