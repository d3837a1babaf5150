--------------------------- MODULE MCProjectPipeline ---------------------------
(* Instances of ProjectPipeline for TLC. *)
EXTENDS ProjectPipeline, TLC

\* The workers of a kind are interchangeable (safety runs only).
WorkerSymmetry == Permutations(PrepWorker) \cup Permutations(CompileWorker)
=============================================================================
