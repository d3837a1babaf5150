------------------------------- MODULE ModuleLink -------------------------------
(****************************************************************************)
(* What a compilation makes of the modules an export has embedded: the two  *)
(* linkers that read the .se files of ProjectExport.  One makes modules and *)
(* owners units of a project (expandSemanticProjectModules,                 *)
(* internal/backend/semantic_project_modules.go), the other merges them     *)
(* into a single program (LinkEmbeddedSemanticModules,                      *)
(* semantic_module_embedding.go).  Both are sequential and change no unit,  *)
(* so they are functions of the files.                                      *)
(*                                                                          *)
(* A file that is not whole does not parse.  Modules that embedded modules  *)
(* import in their turn, which the first linker takes from the store, are   *)
(* left out.                                                                *)
(****************************************************************************)
EXTENDS ProjectExport

ASSUME ModuleLinkAssumption == IsFiniteSet(Unit) /\ IsFiniteSet(File)

EntriesOf(u) == {m \in File : target[u].entry[m] # Nobody}
OwnersIn(u)  == {target[u].entry[m] : m \in EntriesOf(u)} \cap Unit

\* The units grow while the cursor moves over them; an owner that is a unit already
\* is not read again.
ProjectUnits(selection) ==
    LET grow[S \in SUBSET Unit] ==
            LET more == S \cup UNION {OwnersIn(u) : u \in S} IN IF more = S THEN S ELSE grow[more]
    IN  grow[selection]

Expands(selection)        == \A u \in ProjectUnits(selection) : Whole(u)
ProjectModules(selection) == {m \in File : Carriers(m) \cap ProjectUnits(selection) # {}}

\* seen: entries met, by module and owner, the latter as the unit spells it: relative
\* to its directory in a reference.
EntryKey(u, m) == IF target[u].entry[m] = Inline THEN <<m, u, 0>>
                                                 ELSE <<m, target[u].entry[m], GroupOf[u]>>
SeenKeys == File \X Unit \X (Groups \cup {0})

\* The walk through the entries, depth first: done holds the entries of unit it has
\* dealt with.
Visit == [unit : Unit, done : SUBSET File, seen : SUBSET SeenKeys, merged : SUBSET File, ok : BOOLEAN]

LinkEmbedded(start) ==
    LET walk[at \in Visit] ==
            LET left  == EntriesOf(at.unit) \ at.done
                m     == CHOOSE f \in left : TRUE
                owner == target[at.unit].entry[m]
                met   == [at EXCEPT !.seen = @ \cup {EntryKey(at.unit, m)}]
                after == IF EntryKey(at.unit, m) \in at.seen THEN at
                         ELSE IF owner = Inline THEN [met EXCEPT !.merged = @ \cup {m}]
                         ELSE IF Whole(owner) THEN walk[[met EXCEPT !.unit = owner, !.done = {}]]
                         ELSE [met EXCEPT !.ok = FALSE]
            IN  IF left = {} THEN at
                             ELSE walk[[after EXCEPT !.unit = at.unit, !.done = at.done \cup {m}]]
    IN  walk[[unit |-> start, done |-> {}, seen |-> {}, merged |-> {}, ok |-> TRUE]]

\* "Reference entries point at that owner .se file" (semantic_module_embedding.go:20):
\* of an export that reports success, any selection of units compiles with every module
\* its units name, and so does each unit alone.  An export that was resumed keeps
\* references to owners of the run before; they lead on to the module if the registry
\* was not kept in a file, every unit is whole, and no import failed or clashed.
EveryModuleLinks ==
    verdict = "ok" /\ (runs = 1 \/ (~persisted /\ \A u \in Unit : Whole(u))) =>
        LET lost     == IF runs = 1 THEN {} ELSE UNION {FilesOf[p] : p \in clashed \cup unavailable}
            Named(u) == EntriesOf(u) \ lost
        IN  /\ \A S \in (SUBSET Unit) \ {{}} :
                  Expands(S) /\ \A u \in S : Named(u) \subseteq ProjectModules(S)
            /\ \A u \in Unit : LET linked == LinkEmbedded(u) IN
                  linked.ok /\ Named(u) \subseteq linked.merged
=================================================================================
