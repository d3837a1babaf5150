------------------------------ MODULE MCModuleStore ------------------------------
(* Instances of ModuleStore for TLC. *)
EXTENDS ModuleStore, TLC

\* Goroutines are interchangeable, and so are the contents of the source: both sets
\* are only compared with themselves.
StoreSymmetry == Permutations(Thread) \cup Permutations(Version)
=============================================================================
