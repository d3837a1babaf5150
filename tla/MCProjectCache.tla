------------------------------ MODULE MCProjectCache ------------------------------
(* Instances of ProjectCache for TLC. *)
EXTENDS ProjectCache, TLC

\* Compilations are interchangeable, and so are contents: they are only compared.
CacheSymmetry == Permutations(Build) \cup Permutations(Content)
=============================================================================
