------------------------------ MODULE ProjectCache ------------------------------
(****************************************************************************)
(* The two caches of CompileSemanticProject (and of the LLVM project        *)
(* compiler) under .semantic-cache: unit summaries, keyed by the size and   *)
(* modification time of the unit, and compiled fragments, keyed by the      *)
(* semantic root that the summary states and the fingerprint of all         *)
(* summaries (internal/backend/semantic_project_compile.go).  A unit is     *)
(* read up to twice by one build, and nothing is locked: builds of several  *)
(* processes share the caches while units are edited and builds die.        *)
(*                                                                          *)
(* Contents stand for a unit's bytes and for the root computed from them.   *)
(* A record that is cut short does not decode and is a miss, so saving one  *)
(* is one step.  expandSemanticProjectModules, which reads the units before *)
(* the caches are asked, leaves no state behind.                            *)
(****************************************************************************)
EXTENDS Integers, FiniteSets

CONSTANTS
    UnitCount,   \* units 1..UnitCount, in the order of p.Units
    Build,       \* compilations that can run at once
    Content,     \* contents a unit can have
    MaxEdits,    \* bound on edits, of all units
    MaxBuilds,   \* bound on compilations started
    MaxCrashes   \* bound on compilations that die

ASSUME ProjectCacheAssumption ==
    /\ UnitCount \in Nat \ {0} /\ Build # {} /\ Content # {}
    /\ MaxEdits \in Nat /\ MaxBuilds \in Nat /\ MaxCrashes \in Nat

Unit   == 1..UnitCount
Stamp  == 0..MaxEdits                       \* size and modification time
Absent == "absent"
ASSUME AbsentAssumption == Absent \notin Content
Maybe  == Content \cup {Absent}

VARIABLES
    source,      \* contents of each unit file
    stamp,       \* its size and modification time: no two edits share them
    summaries,   \* project-summary-unit-<key>.json: the root stated for (unit, stamp)
    fragments,   \* project-unit-<key>.json: what it was compiled from
    build,       \* state of each compilation
    builds, crashes, edits,
    \* history
    racedStamps, \* stamps that an edit during some compilation produced
    racedContent \* contents that an edit during some compilation replaced

vars == <<source, stamp, summaries, fragments, build, builds, crashes, edits, racedStamps, racedContent>>
disk    == <<summaries, fragments>>
history == <<racedStamps, racedContent>>

\* next: the unit the present loop is at; root: p.Index.Units, and unit.SemanticRoot;
\* body: contents waiting for a worker; fragment: contents the unit's code comes from.
Idle == [pc |-> "idle", next |-> 1, root |-> [u \in Unit |-> Absent], body |-> [u \in Unit |-> Absent],
         fragment |-> [u \in Unit |-> Absent]]

Keys == Unit \X [Unit -> Content]

Init ==
    /\ source \in [Unit -> Content]
    /\ stamp = [u \in Unit |-> 0]
    /\ summaries = [x \in Unit \X Stamp |-> Absent]
    /\ fragments = [k \in Keys |-> Absent]
    /\ build = [b \in Build |-> Idle]
    /\ builds = 0 /\ crashes = 0 /\ edits = 0
    /\ racedStamps = {} /\ racedContent = {}

At(b, pc)  == build[b].pc = pc
Active(b)  == build[b].pc # "idle"
More(b)    == build[b].next <= UnitCount

\* One turn of a loop over p.Units, and after the last the next stage.
Turn(b, record, stage) ==
    build' = [build EXCEPT ![b] =
        IF record.next < UnitCount THEN [record EXCEPT !.next = @ + 1]
                                   ELSE [record EXCEPT !.next = 1, !.pc = stage]]

Start(b) ==
    /\ At(b, "idle")
    /\ builds < MaxBuilds /\ builds' = builds + 1
    /\ build' = [build EXCEPT ![b] = [Idle EXCEPT !.pc = "load"]]
    /\ UNCHANGED <<source, stamp, disk, crashes, edits, history>>

-----------------------------------------------------------------------------
(* loadProjectSummaryCache, buildSemanticProjectSummaries, saveProjectSummaryCache *)

\* projectUnitSummaryCacheKey: what os.Stat says now.
OldKey(u)     == <<u, 0>>                                            \* mutant
SummaryKey(u) == <<u, stamp[u]>>

AlwaysCached(root) == TRUE                                           \* mutant
AllCached(root)    == \A u \in Unit : root[u] # Absent

\* Every record that is there goes to the index, also when another one is missing.
LoadSummary(b) ==
    LET u      == build[b].next
        record == [build[b] EXCEPT !.root[u] = summaries[SummaryKey(u)]]
    IN  /\ At(b, "load")
        /\ Turn(b, record, IF AllCached(record.root) THEN "fragments" ELSE "summarise")
        /\ UNCHANGED <<source, stamp, disk, builds, crashes, edits, history>>

Summarise(b) ==
    LET u == build[b].next IN
    /\ At(b, "summarise")
    /\ Turn(b, IF build[b].root[u] # Absent THEN build[b] ELSE [build[b] EXCEPT !.root[u] = source[u]], "save")
    /\ UNCHANGED <<source, stamp, disk, builds, crashes, edits, history>>

\* Every summary is saved, under the stamp the unit has by now.
SaveSummary(b) ==
    LET u == build[b].next IN
    /\ At(b, "save")
    /\ summaries' = [summaries EXCEPT ![SummaryKey(u)] = build[b].root[u]]
    /\ Turn(b, build[b], "fragments")
    /\ UNCHANGED <<source, stamp, fragments, builds, crashes, edits, history>>

-----------------------------------------------------------------------------
(* The fragments: the loader takes the units in order, workers compile in any *)

\* projectUnitCompileCacheKey: the unit, its root and the fingerprint of the index.
FragmentKey(b, u) == <<u, build[b].root>>

LoadFragment(b) ==
    LET u == build[b].next IN
    /\ At(b, "fragments") /\ More(b)
    /\ build' = [build EXCEPT ![b] =
           IF fragments[FragmentKey(b, u)] # Absent
           THEN [@ EXCEPT !.next = u + 1, !.fragment[u] = fragments[FragmentKey(b, u)]]
           ELSE [@ EXCEPT !.next = u + 1, !.body[u] = source[u]]]
    /\ UNCHANGED <<source, stamp, disk, builds, crashes, edits, history>>

\* CompileMachine, and the record saved: written to a temporary file whose name depends
\* on the key only, the old record removed, the file renamed.  Of two compilations
\* that do this at once either record stays, or none, when the second removal comes
\* after the first rename.
Compile(b) ==
    /\ At(b, "fragments")
    /\ \E u \in Unit :
          /\ build[b].body[u] # Absent
          /\ build' = [build EXCEPT ![b].body[u] = Absent, ![b].fragment[u] = build[b].body[u]]
          /\ \/ fragments' = [fragments EXCEPT ![FragmentKey(b, u)] = build[b].body[u]]
             \/ /\ \E c \in Build \ {b} : At(c, "fragments")
                /\ fragments' = [fragments EXCEPT ![FragmentKey(b, u)] = Absent]
    /\ UNCHANGED <<source, stamp, summaries, builds, crashes, edits, history>>

Ends(b) == build' = [build EXCEPT ![b] = Idle]

\* The fragments are linked and the result returned.
Link(b) ==
    /\ At(b, "fragments") /\ \A u \in Unit : build[b].fragment[u] # Absent
    /\ Ends(b)
    /\ UNCHANGED <<source, stamp, disk, builds, crashes, edits, history>>

-----------------------------------------------------------------------------

Edit(u) ==
    /\ edits < MaxEdits /\ edits' = edits + 1
    /\ stamp' = [stamp EXCEPT ![u] = @ + 1]
    /\ \E c \in Content \ {source[u]} : source' = [source EXCEPT ![u] = c]
    /\ IF \E b \in Build : Active(b)
       THEN /\ racedStamps' = racedStamps \cup {<<u, stamp'[u]>>}
            /\ racedContent' = racedContent \cup {<<u, source[u]>>}
       ELSE UNCHANGED <<racedStamps, racedContent>>
    /\ UNCHANGED <<disk, build, builds, crashes>>

Crash(b) ==
    /\ crashes < MaxCrashes /\ crashes' = crashes + 1
    /\ Active(b)
    /\ Ends(b)
    /\ UNCHANGED <<source, stamp, disk, builds, edits, history>>

Next ==
    \/ \E b \in Build :
          \/ Start(b) \/ LoadSummary(b) \/ Summarise(b) \/ SaveSummary(b)
          \/ LoadFragment(b) \/ Compile(b) \/ Link(b) \/ Crash(b)
    \/ \E u \in Unit : Edit(u)

Spec == Init /\ [][Next]_vars

-----------------------------------------------------------------------------
(* Properties *)

\* Types; and the index states a root for every unit once the summaries are done.
TypeOK ==
    /\ source \in [Unit -> Content] /\ stamp \in [Unit -> Stamp]
    /\ summaries \in [Unit \X Stamp -> Maybe]
    /\ fragments \in [Keys -> Maybe]
    /\ \A b \in Build :
          /\ build[b].pc \in {"idle", "load", "summarise", "save", "fragments"}
          /\ build[b].next \in 1..(UnitCount + 1)
          /\ build[b].root \in [Unit -> IF build[b].pc \in {"save", "fragments"} THEN Content ELSE Maybe]
          /\ build[b].body \in [Unit -> Maybe] /\ build[b].fragment \in [Unit -> Maybe]
    /\ builds \in 0..MaxBuilds /\ crashes \in 0..MaxCrashes /\ edits \in 0..MaxEdits
    /\ racedStamps \subseteq Unit \X Stamp /\ racedContent \subseteq Unit \X Content

\* A compilation links every unit as it is on disk when it ends, whatever others left
\* or are leaving in the caches and wherever they died, except a unit whose present
\* stamp comes from an edit during some compilation (its summary may be that of the
\* contents before) or whose present contents were replaced by such an edit (its
\* fragment may be of the contents after): one more edit in a quiet moment heals the
\* unit, and a race on one unit leaves the others alone.  This is of the two caches that
\* are modelled: a sidecar summary (semantic_project_compile.go:538-544) is found without
\* the stamp, and one that is left of other contents breaks it.
LinksWhatIsOnDisk ==
    [][\A b \in Build : Link(b) =>
          \A u \in Unit :
              <<u, stamp[u]>> \notin racedStamps =>
                  /\ build[b].root[u] = source[u]
                  /\ build[b].fragment[u] = source[u] \/ <<u, source[u]>> \in racedContent]_vars
=============================================================================
