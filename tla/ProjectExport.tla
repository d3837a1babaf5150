------------------------------ MODULE ProjectExport ------------------------------
(****************************************************************************)
(* semanticExportProject (cmd/r2many/main.go): package workers export the   *)
(* units of a project, each with the modules it imports embedded by         *)
(* EmbedSemanticModules (internal/backend/semantic_module_embedding.go),    *)
(* whose registry gives every module one owner.  Packages that the store    *)
(* does not hold are imported on the way (PackageStore).  An export may die *)
(* and be run again over what it has left on disk.                          *)
(*                                                                          *)
(* A module is a payload file of a package; a unit embeds the packages it   *)
(* needs in "all" mode.                                                     *)
(****************************************************************************)
EXTENDS PackageStore

CONSTANTS
    Unit,        \* source files, one .se each
    GroupOf,     \* [Unit -> 1..n]: directories, in the order they are sent
    Needs,       \* [Unit -> SUBSET Package]: Origin.Modules
    MaxRuns      \* bound on exports into one directory

ASSUME ProjectExportAssumption ==
    /\ GroupOf \in [Unit -> Nat \ {0}]
    /\ \A u \in Unit : \A g \in 1..GroupOf[u] : \E v \in Unit : GroupOf[v] = g
    /\ Needs \in [Unit -> SUBSET Package]
    /\ MaxRuns \in Nat \ {0}

Nobody == "nobody"
Inline == "inline"
NoUnit == "no unit"
NoPackage == "no package"
ASSUME MarkerAssumption == Nobody \notin Unit /\ Inline \notin Unit

VARIABLES
    persisted,   \* SEMANTIC_EMBED_REGISTRY names a file
    registry,    \* that file: [File -> Unit \cup {Nobody}]; one that does not parse reads as empty
    cut,         \* history: a death or an error fell into a write of that file
    owners,      \* the registry of the running process
    target,      \* the .se files: [state, entry, external] of each unit
    worker,      \* what each package worker is at
    nextGroup,   \* the directory the main goroutine sends next
    visited,     \* units this run has called visit on
    failed,      \* failed # 0
    verdict,     \* of this run
    runs

exportVars == <<persisted, registry, cut, owners, target, worker, nextGroup, visited, failed, verdict, runs>>
vars == <<storeVars, exportVars>>

NoOwners == [f \in File |-> Nobody]
NoTarget == [state |-> "absent", entry |-> NoOwners, external |-> {}]
Groups   == {GroupOf[u] : u \in Unit}

\* todo: packages left to resolve; pkg: the one being imported; modules: those left to claim;
\* entry and external: the metadata under construction.
Job(pc, g) == [pc |-> pc, group |-> g, unit |-> NoUnit, pkg |-> NoPackage, todo |-> {}, modules |-> {},
               entry |-> NoOwners, external |-> {}]

Init ==
    /\ StoreInit
    /\ persisted \in BOOLEAN
    /\ registry = NoOwners /\ owners = NoOwners /\ cut = FALSE
    /\ target = [u \in Unit |-> NoTarget]
    /\ worker = [t \in Thread |-> Job("job", 0)]
    /\ nextGroup = 1
    /\ visited = {}
    /\ failed = FALSE
    /\ verdict = "running"
    /\ runs = 1

At(t, pc)    == verdict = "running" /\ worker[t].pc = pc
Go(t, pc)    == worker' = [worker EXCEPT ![t].pc = pc]
NextFile(t)  == worker' = [worker EXCEPT ![t] = Job("visit", @.group)]

-----------------------------------------------------------------------------
(* The package workers *)

\* jobs is unbuffered: directories are taken in order, each by one worker, until the
\* channel is closed.
NeverClosed == TRUE                                                  \* mutant
JobsOpen    == nextGroup \in Groups

TakeJob(t) ==
    /\ At(t, "job")
    /\ JobsOpen
    /\ worker' = [worker EXCEPT ![t] = Job("visit", nextGroup)]
    /\ nextGroup' = nextGroup + 1
    /\ UNCHANGED <<storeVars, persisted, registry, cut, owners, target, visited, failed, verdict, runs>>

\* LowerNativeGoPackageEach calls visit for one file of the directory at a time, in
\* the order the lowering of the files ends.
NextUnit(t, u) ==
    /\ At(t, "visit")
    /\ GroupOf[u] = worker[t].group /\ u \notin visited
    /\ visited' = visited \cup {u}

\* failed++, under resultMu; the next file of the directory is taken.
ForgetFailure == UNCHANGED failed                                   \* mutant
CountFailure  == failed' = TRUE

\* The file could not be lowered, or lies outside the root of the project.
LowerFails(t) ==
    /\ \E u \in Unit : NextUnit(t, u)
    /\ failures < MaxFailures /\ failures' = failures + 1
    /\ CountFailure
    /\ UNCHANGED <<payload, manifest, stack, seen, answer, clashed, unavailable>>
    /\ UNCHANGED <<persisted, registry, cut, owners, target, worker, nextGroup, verdict, runs>>

\* Parsing or type checking the directory fails before its first file is visited.
PackageFails(t) ==
    /\ At(t, "visit")
    /\ \A u \in visited : GroupOf[u] # worker[t].group
    /\ failures < MaxFailures /\ failures' = failures + 1
    /\ CountFailure
    /\ worker' = [worker EXCEPT ![t] = Job("job", 0)]
    /\ UNCHANGED <<payload, manifest, stack, seen, answer, clashed, unavailable>>
    /\ UNCHANGED <<persisted, registry, cut, owners, target, nextGroup, visited, verdict, runs>>

\* "Keep a valid existing unit": one that exists and is not empty.
Keep(u) == target[u].state \in {"part", "whole"}

KeepUnit(t) ==
    /\ \E u \in Unit : NextUnit(t, u) /\ Keep(u)
    /\ UNCHANGED <<storeVars, persisted, registry, cut, owners, target, worker, nextGroup, failed, verdict, runs>>

BeginUnit(t) ==
    /\ \E u \in Unit :
          /\ NextUnit(t, u) /\ ~Keep(u)
          /\ worker' = [worker EXCEPT ![t].pc = "resolve", ![t].unit = u, ![t].todo = Needs[u]]
    /\ UNCHANGED <<storeVars, persisted, registry, cut, owners, target, nextGroup, failed, verdict, runs>>

GroupEnds(t) ==
    /\ At(t, "visit")
    /\ \A u \in Unit : GroupOf[u] = worker[t].group => u \in visited
    /\ worker' = [worker EXCEPT ![t] = Job("job", 0)]
    /\ UNCHANGED <<storeVars, persisted, registry, cut, owners, target, nextGroup, visited, failed, verdict, runs>>

-----------------------------------------------------------------------------
(* EmbedSemanticModules *)

\* resolveSemanticEmbeddingModules takes the stored package if every payload of its
\* manifest parses ...
ResolveStored(t) ==
    /\ At(t, "resolve")
    /\ \E p \in worker[t].todo :
          /\ Complete(p)
          /\ worker' = [worker EXCEPT ![t].pc = "claim", ![t].modules = FilesOf[p], ![t].todo = @ \ {p}]
    /\ UNCHANGED <<storeVars, persisted, registry, cut, owners, target, nextGroup, visited, failed, verdict, runs>>

\* ... and imports it otherwise.
ResolveImport(t) ==
    /\ At(t, "resolve")
    /\ \E p \in worker[t].todo :
          /\ ~Complete(p)
          /\ StartImport(t, p)
          /\ worker' = [worker EXCEPT ![t].pc = "import", ![t].pkg = p, ![t].todo = @ \ {p}]
    /\ UNCHANGED <<persisted, registry, cut, owners, target, nextGroup, visited, failed, verdict, runs>>

Import(t) ==
    /\ At(t, "import")
    /\ ImportStep(t)
    /\ UNCHANGED exportVars

\* After an import only the payloads that can be read are taken.  None, or an error,
\* makes the package an "external" entry, and the export goes on.
ReadableUnowned(p) == {f \in FilesOf[p] : payload[f] = "whole" /\ owners[f] = Nobody}   \* mutant
Readable(p) == IF manifest[p] = "whole" THEN {f \in FilesOf[p] : payload[f] = "whole"} ELSE {}

Imported(t) ==
    LET p == worker[t].pkg IN
    /\ At(t, "import") /\ ~Active(t)
    /\ worker' = IF answer[t] = "ok" /\ Readable(p) # {}
                 THEN [worker EXCEPT ![t].pc = "claim", ![t].pkg = NoPackage, ![t].modules = Readable(p)]
                 ELSE [worker EXCEPT ![t].pc = "resolve", ![t].pkg = NoPackage, ![t].external = @ \cup {p}]
    /\ UNCHANGED <<storeVars, persisted, registry, cut, owners, target, nextGroup, visited, failed, verdict, runs>>

AlwaysFree(m) == TRUE                                               \* mutant
Free(m)       == owners[m] = Nobody

\* os.WriteFile of the whole map, over the old file.  An error is dropped: the file
\* could not be opened and stays, or was truncated and not written to the end.
Save ==
    \/ registry' = owners' /\ UNCHANGED <<cut, failures>>
    \/ /\ failures < MaxFailures /\ failures' = failures + 1
       /\ registry' \in {registry, NoOwners} /\ cut' = TRUE

\* claim, under the lock of the registry.
Claim(t) ==
    LET u == worker[t].unit IN
    /\ At(t, "claim")
    /\ \E m \in worker[t].modules :
          /\ owners' = IF Free(m) THEN [owners EXCEPT ![m] = u] ELSE owners
          /\ IF Free(m) /\ persisted THEN Save ELSE UNCHANGED <<registry, cut, failures>>
          /\ worker' = [worker EXCEPT ![t].modules = @ \ {m},
                                       ![t].pc = IF worker[t].modules = {m} THEN "resolve" ELSE "claim",
                                       ![t].entry[m] = IF Free(m) THEN Inline ELSE owners[m]]
    /\ UNCHANGED <<payload, manifest, stack, seen, answer, clashed, unavailable>>
    /\ UNCHANGED <<persisted, target, nextGroup, visited, failed, verdict, runs>>

\* A module that cannot be serialised fails the unit, whose claims stay.
EmbedFails(t) ==
    /\ At(t, "claim")
    /\ failures < MaxFailures /\ failures' = failures + 1
    /\ CountFailure
    /\ NextFile(t)
    /\ UNCHANGED <<payload, manifest, stack, seen, answer, clashed, unavailable>>
    /\ UNCHANGED <<persisted, registry, cut, owners, target, nextGroup, visited, verdict, runs>>

-----------------------------------------------------------------------------
(* The unit file: opened with O_TRUNC and streamed to *)

Create(t) ==
    /\ At(t, "resolve") /\ worker[t].todo = {}
    /\ target' = [target EXCEPT ![worker[t].unit] = [NoTarget EXCEPT !.state = "empty"]]
    /\ Go(t, "stream")
    /\ UNCHANGED <<storeVars, persisted, registry, cut, owners, nextGroup, visited, failed, verdict, runs>>

Stream(t) ==
    /\ At(t, "stream")
    /\ target' = [target EXCEPT ![worker[t].unit].state = "part"]
    /\ Go(t, "finish")
    /\ UNCHANGED <<storeVars, persisted, registry, cut, owners, nextGroup, visited, failed, verdict, runs>>

Finish(t) ==
    /\ At(t, "finish")
    /\ target' = [target EXCEPT ![worker[t].unit] =
           [state |-> "whole", entry |-> worker[t].entry, external |-> worker[t].external]]
    /\ NextFile(t)
    /\ UNCHANGED <<storeVars, persisted, registry, cut, owners, nextGroup, visited, failed, verdict, runs>>

WriteFails(t) ==
    /\ At(t, "stream") \/ At(t, "finish")
    /\ failures < MaxFailures /\ failures' = failures + 1
    /\ CountFailure
    /\ NextFile(t)
    /\ UNCHANGED <<payload, manifest, stack, seen, answer, clashed, unavailable>>
    /\ UNCHANGED <<persisted, registry, cut, owners, target, nextGroup, visited, verdict, runs>>

-----------------------------------------------------------------------------
(* The process *)

\* wg.Wait(), then the exit status.
Return ==
    /\ verdict = "running" /\ ~JobsOpen
    /\ \A t \in Thread : worker[t].pc = "job"
    /\ verdict' = IF failed THEN "error" ELSE "ok"
    /\ UNCHANGED <<storeVars, persisted, registry, cut, owners, target, worker, nextGroup, visited, failed, runs>>

\* A death inside claim can find the registry truncated.
Saving == persisted /\ \E t \in Thread : At(t, "claim") /\ \E m \in worker[t].modules : Free(m)

Crash ==
    /\ verdict = "running" /\ runs < MaxRuns
    /\ failures < MaxFailures /\ failures' = failures + 1
    /\ StoreCrash
    /\ worker' = [t \in Thread |-> Job("job", 0)]
    /\ verdict' = "killed"
    /\ \/ UNCHANGED <<registry, cut>>
       \/ Saving /\ registry' = NoOwners /\ cut' = TRUE
    /\ UNCHANGED <<persisted, owners, target, nextGroup, visited, failed, runs>>

\* The export is started again with the same arguments, whatever became of it.
Resume ==
    /\ verdict # "running" /\ runs < MaxRuns
    /\ owners' = IF persisted THEN registry ELSE NoOwners
    /\ nextGroup' = 1 /\ visited' = {} /\ failed' = FALSE
    /\ verdict' = "running"
    /\ runs' = runs + 1
    /\ UNCHANGED <<storeVars, persisted, registry, cut, target, worker>>

Next ==
    \/ \E t \in Thread :
          \/ TakeJob(t) \/ PackageFails(t) \/ LowerFails(t) \/ KeepUnit(t) \/ BeginUnit(t) \/ GroupEnds(t)
          \/ ResolveStored(t) \/ ResolveImport(t) \/ Import(t) \/ Imported(t)
          \/ Claim(t) \/ EmbedFails(t)
          \/ Create(t) \/ Stream(t) \/ Finish(t) \/ WriteFails(t)
    \/ Return \/ Crash \/ Resume

Spec == Init /\ [][Next]_vars

-----------------------------------------------------------------------------
(* Properties *)

TypeOK ==
    /\ StoreTypeOK
    /\ persisted \in BOOLEAN /\ cut \in BOOLEAN
    /\ registry \in [File -> Unit \cup {Nobody}] /\ owners \in [File -> Unit \cup {Nobody}]
    /\ target \in [Unit -> [state : {"absent", "empty", "part", "whole"},
                            entry : [File -> Unit \cup {Nobody, Inline}], external : SUBSET Package]]
    /\ worker \in [Thread -> [pc : {"job", "visit", "resolve", "import", "claim", "stream", "finish"},
                              group : Groups \cup {0}, unit : Unit \cup {NoUnit}, pkg : Package \cup {NoPackage},
                              todo : SUBSET Package, modules : SUBSET File,
                              entry : [File -> Unit \cup {Nobody, Inline}], external : SUBSET Package]]
    /\ nextGroup \in Nat /\ visited \subseteq Unit /\ failed \in BOOLEAN
    /\ verdict \in {"running", "ok", "error", "killed"} /\ runs \in 1..MaxRuns

Whole(u)    == target[u].state = "whole"
Carriers(m) == {u \in Unit : Whole(u) /\ target[u].entry[m] = Inline}

\* "Inline entries contain the canonical module payload exactly once in a project"
\* (semantic_module_embedding.go:18), the at-most-once half: in one run, and with a
\* registry file in any number of runs, errors and deaths, no two units carry one
\* module.  Once a write of that file was cut short this is no longer promised: the next
\* run may read no owners, keep the finished units and claim their modules again.
InlineOnce == (runs = 1 \/ (persisted /\ ~cut)) => \A m \in File : Cardinality(Carriers(m)) <= 1

\* A finished unit has an entry for every payload of every package it needs, however
\* the workers race to import the package, unless two wrote it at once or an import
\* of it failed.
EmbedsEverything ==
    \A u \in Unit : Whole(u) =>
        \A p \in Needs[u] \ (clashed \cup unavailable) :
            \A m \in FilesOf[p] : target[u].entry[m] # Nobody

\* "Resume exports are safe because each unit is an independent artifact. Keep a valid
\* existing unit" (cmd/r2many/main.go:488): an export that reports success has left
\* every unit whole.
ResumeIsSafe == verdict = "ok" => \A u \in Unit : Whole(u)
=============================================================================
