-------------------------- MODULE MCProcessingJobs --------------------------
(***************************************************************************)
(* Instances of ProcessingJobs for TLC: jobs j1 and j2 ingest source d1,   *)
(* j3 ingests it once more or, as Mixed, is a job of another kind.         *)
(***************************************************************************)
EXTENDS ProcessingJobs, TLC

CONSTANTS j1, j2, j3, d1, w1, w2

PairSource  == (j1 :> d1 @@ j2 :> d1)
MixedSource == (j1 :> d1 @@ j2 :> d1 @@ j3 :> NoDataset)
TripleSource == (j1 :> d1 @@ j2 :> d1 @@ j3 :> d1)

WorkerSymmetry == Permutations({w1, w2})
=============================================================================
