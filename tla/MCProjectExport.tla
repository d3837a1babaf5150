------------------------------ MODULE MCProjectExport ------------------------------
(* Instances of ProjectExport and ModuleLink for TLC. *)
EXTENDS ModuleLink, TLC

CONSTANTS w1, w2, u1, u2, libP, libQ, pa, pb, qa

\* Package libP of two files depends on libQ, and libQ on libP.
MCFilesOf == (libP :> {pa, pb}) @@ (libQ :> {qa})
MCDepsOf  == (libP :> {libQ}) @@ (libQ :> {libP})
\* Two directories of one unit each, which both need libP.
MCGroupOf == (u1 :> 1) @@ (u2 :> 2)
MCNeeds   == (u1 :> {libP}) @@ (u2 :> {libP})

\* Workers are interchangeable, and so are the two files of libP.
ExportSymmetry == Permutations({w1, w2}) \cup Permutations({pa, pb})
=============================================================================
