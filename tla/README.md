# Verification of the Code Transpiler's concurrent core

TLA+ models, TLC runs and TLAPS proofs for `Code-Transpiler`, a Go program that
turns source text of many languages into one semantic representation (the
universal AST, UAST), writes it as `.se`/`.sp`/`.spz`, and lowers it to other
languages or to native executables. The repository has a command line
(`cmd/r2many`), a project exporter (`cmd/go-semantic-project`) and a GUI
(`internal/ui`). Most of its code is sequential translation; this project is
about the parts that keep state, run concurrently, are cancelled, fail half
way, or order things.

Paths below are relative to `src/`; `SPC` is
`internal/backend/semantic_project_compile.go`.

## 1. Inventory

| Component | State | Operations | What makes it correct |
|---|---|---|---|
| **Project unit pipeline** (`SPC:1068-1520`) | four bounded channels, the `bodyTokens` semaphore, a cancellable context, the fragment cache, `results`, `unit.SemanticRoot`, `p.Index` | load, parse, compile, write, collect, check entry, merge, link | at most W programs in memory; nobody sends on a closed channel; an executable comes out only if every unit delivered; cancellation never drops a good unit; the call returns and leaves no goroutine |
| **Streaming scheduler** (`streaming_lowering.go:463-598`) | job queue, error slot, workers | partition, submit, run, report | every unit runs before nil is returned; an error is never lost; the call returns |
| **UAST interpreter tasks** (`runtime_uast_primitives.go`, `runtime.go:133-230`, `runtime_windows_threads.go`) | task registry, wait group, done channels, output builders, native handles, lexical scopes | spawn, await, join, consume output, settle | output of every thread exactly once; nothing runs at the end; join is idempotent |
| **GUI session** (`internal/ui/ui.go`) | busy flag, generations, result channels, panes, chosen languages, status | convert, run, save as, build, drain results, edit, choose, new | the latest conversion wins; busy ends; a conversion owns its input |
| **Background highlighter** (`internal/highlight/service.go`) | one request slot, a result channel of two, a context | submit (latest wins), scan, publish (oldest dropped), apply | tokens fit the text they colour; the last request is answered; a frame never blocks |
| **Module store and resolver** (`semantic_module.go`, `semantic_module_resolver.go`) | module directories, temporary directories named by key and pid, the directory cache | put, remove, import a file or a directory, look up | a module that was put stays whole; a cached answer is of the present source |
| **Package import** (`semantic_package_import.go`) | package folders: payloads and a `.smod` manifest | look up, fetch, analyse, write, import dependencies | a manifest promises only payloads that can be read; a successful import is closed under dependencies |
| **Batch exporters** (`cmd/r2many`, `cmd/go-semantic-project`) | package workers, unit files, a failure count | take a directory, lower, keep or write a unit, return | success means every unit is on disk and whole |
| **Module embedding and linking** (`semantic_module_embedding.go`, `semantic_project_modules.go`) | `owners` registry in memory and in a shared file, embedding metadata of the `.se` files | resolve, claim, embed, expand, link | one inline payload per module; every reference leads to it |
| **Project caches** (`SPC:533-765, 1527-1712`) | summary and fragment records on disk | load, rebuild, save | a compilation links what is on disk; a partial record is never used |
| **Executable closure** (`semantic_executable_closure.go`) | worklist, reachable functions and units, initializer order | visit, close units, select initializers, order | exactly what is reachable; initializers follow their dependencies; the loops end |
| **Frontends, UAST, transports, back ends, matrices, reports** | none beyond a call | translation | instruction and language semantics, out of scope here |

Interactions: the command line and the GUI call the pipeline, the pipeline
calls `CompileMachine` for each unit, and `CompileMachine` calls the streaming
scheduler. The GUI runs programs on the interpreter and colours text through
the highlighter; both meet it only through channels drained once per frame.
An exporter's package workers share the embedding registry through a mutex and
the package folders of the module store through nothing at all; exporters share
both across processes. Compilations read the unit files that exporters write,
link the modules embedded in them, decide by the closure which of them to
compile, and share the caches.

Hard behaviours: interleavings of four stages with cancellation and early exits
(pipeline); bare sends beside a closer; workers that leave early (scheduler);
nested and concurrent awaits, a start that fails, a wait group that may touch
zero (tasks); results that overtake each other and are dropped at full
channels (GUI, highlighter); files that are removed and written again with no
lock, by goroutines and processes that race or die (store, packages); claims and
partial files that outlive an exporter (embedding, export); sources edited while
they are compiled or imported (caches, store). Every one of them is a line of
`PROJECT.json`'s hazards.

## 2. Plan

The order puts the code that every compilation goes through first. Done:

1. `ProjectPipeline` with the abstract `ProjectCompile`.
2. `BoundedUnits`, the scheduler inside each unit's compilation.
3. `TaskRuntime`, the interpreter's threads and channels.
4. `GuiSession` and 5. `HighlightService`, the GUI's background work.
6. `ModuleStore`, the durable store under imports.
7. `PackageStore`, package folders; `ProjectExport`, which extends it to the
   project exporter with the embedding registry; `ModuleLink`, which extends that
   to the two linkers that read what was exported.
8. `ProjectCache`, the caches under concurrent compilations.
9. `InitializerOrder` and `ExecutableClosure`.
10. A proof module for each of 1 to 6, one for 7 (`ProjectExportProofs`, which
   covers `PackageStore` and `ModuleLink` too) and one for 8: section 5.

Left: the partition of functions into units with its contract
`StreamingPlan.validate` as pure functions. Theorems that are missing are about
liveness or about the closure of 9 (section 5, at its end).

## 3. Modules

### ProjectPipeline, ProjectCompile, MCProjectPipeline

`ProjectPipeline` models `CompileSemanticProject` from the creation of its
channels to its return. One variable stands for each goroutine or group of
goroutines (`loader`, `prep`, `comp`, `writer`, `caller`), holding where it is
and what it carries; `queue` and `closed` are the four Go channels, `bodyTokens`
the semaphore, `cancelled` the context. A blocking operation is an action of its
own, so every send, receive, close and `select` may interleave with every other.
Local work between two of them (parsing, compiling) happens in one step.

- Units are their positions; `outcome[u]` is the stage at which the file of unit
  `u` fails (`read`, `parse`, `compile`) or `"nil"`. Every assignment is an initial
  state.
- The fragment cache is the set of complete records, keyed by unit and by what
  `unit.SemanticRoot` was derived from. The other parts of the key do not change
  during a call. Initially it holds records for any units that once compiled,
  including units whose file has since become unreadable: the loader asks the
  cache before it opens the file.
- `Collect`, `CheckEntry`, `MergeFailed`, `MergeUnit` and `Link` are the caller.
  `CheckEntry` keeps the two entry errors, `MergeFailed` the return at the first
  failed unit, `MergeUnit` the assignment to `unit.SemanticRoot` and the return at
  a symbol that another unit defines. That clash may be found in any delivered
  unit and is returned at once, also when a unit behind it has failed; what the
  symbols are is left open. The link errors after the loop are one
  nondeterministic verdict of `Link`.
- Every return runs the deferred `cancel()`; goroutines run on after it, and the
  model follows them.
- The process can end in two ways. `SendOnClosed` is the run-time panic of the two
  sends that have no `select`. `MergeRaces` is the race of the merge, which writes
  `p.Index.Symbols` and `p.Index.Units`, with a compile worker that a failure has
  cancelled and that still ranges over them (`machine_compile.go:698-702`): Go ends
  the process when it notices, and need not notice.

`ProjectCompile` is what a caller may rely on: each unit is reported at most
once, one verdict is returned, `linked` and `linkError` need a report without
error from every unit, a clash needs one such report, and the process ends only
after a reported failure. `Implements` maps the pipeline to it (`report` is `results`,
`verdict` is where the caller is).

### BoundedUnits

`runBoundedUnits` statement by statement: the submit loop, the jobs channel of
capacity 2W, the error slot of capacity 1, workers that leave at an error, at a
closed queue or at the end of the context. `bad` is the set of units on which
the callback fails.

### TaskRuntime

A thread is the caller of `RunSemantic` (0) or a task, named by its position in
the task registry. The interpreted program is arbitrary: a thread may print,
spawn, await any declared task, fail or end at each point. `Spawn`, `Start`,
`StartFails` and `Declare` split `spawnUASTTask` where the child can run in
between; `CloseDone` and `Leave` are the two deferred calls of the child, in
their order; `WaitTask` to `Consume` are `waitRunUASTTask`, `join` and
`consumeTaskOutput`, with `join` split at its system calls because it holds no
lock; `WaitAll` and `Sweep` are the end of `RunSemantic`. Handle calls fail on a
closed handle. (Windows may reuse a closed handle's value; that is left out.)
Output is a count of lines per printing thread.

The program has one channel: `BeginSend`/`SendValue` and
`BeginReceive`/`ReceiveValue` split each operation where it blocks, `CloseOp` is
close. A send on a closed channel is a Go panic in the goroutine that
interprets the thread; nothing recovers it, so it ends the process (phase
`panic`). A value is a count, the capacity a constant (1024 in the code).

### GuiSession

The UI thread alternates between draining the three result channels and
handling clicks; each click that starts work appends a job, a goroutine that
reads its pane (at the click for conversions and builds, later for runs and
saves), works, and offers its result without blocking. Conversions and runs
carry their generation, which is the number of the job. A build reports on the
save channel. `outcome` tells conversions with and without code and error apart;
that of runs and saves only shows in wording and is left out, as are the chosen
languages, which decide no step.

### HighlightService

Submit's three selects are `Offer`, `Evict` and `Send` on the UI thread; the loop
is `Take`, `Read`, `Publish`, `MakeRoom` and `Retry`. The request carries the
editor itself, so `Read` takes what the editor holds by then. A conversion's
result brings its own tokens and a new generation (`ApplyConversion`), or, beside
an error, no tokens at all (`Bare`). Typing in the left editor and choosing a
language make a generation and a request (`Change`). The right editor can be typed
in as well, but its events are only drained (`TypeRight`); like New, which empties
both editors, this leaves the generation as it was. `unannounced` names the editors
changed in one of these two ways since their last generation.

### ModuleStore

Every goroutine belongs to a process and runs imports and removals on one store.
A module is keyed by the contents its hash was computed from and the contents
its program was lowered from, which `ImportMiss` and `ImportHash` read at two
times. `EnterPut` to `Rename` are `Put` step by step: the temporary directory
named by key and pid, the three files, the test for an old module, its removal
file by file, the rename, which fails onto a directory that is not empty. A file
write is one step. Errors of the file system are actions too: `PutFails` ends a
`Put` at its directory, its files or its rename, and `RemoveFails` a removal that
stops part-way, after which `RemoveModule` returns and `Put`, which drops the error,
goes on to a rename that then fails. `Matches` is `openDirectoryCache`: it needs the manifest and
the payload of a published directory (a temporary one never verifies, its name
is not its key). `stored`, `collided`, `torn`, `raced` and `stale` are history.

### PackageStore, ProjectExport, ModuleLink, MCProjectExport

`PackageStore` is `importPackageDepth` with a stack of calls for each goroutine:
a lookup that asks whether payloads exist, a miss that removes the folder and
makes it again, payloads written by the pool and again one by one, the manifest,
and only then the dependencies, each once per import. Opening a file truncates
it and closing it makes it whole; in between it is torn. Removal and creation of
the folder are one step. A failure unwinds all calls and leaves the files.

`ProjectExport` extends it to `semanticExportProject`. `TakeJob` to `GroupEnds` are
the package workers, `ResolveStored` to `EmbedFails` is `EmbedSemanticModules` with
the claim under the registry's lock, `Create` to `WriteFails` the unit file. The
registry file, if there is one, is truncated and written again at each claim
(`Save`): the write may fail, which the code does not notice, or the process die
in it (`Crash`), and the file is then left as it was or reads as empty. `cut`
remembers that this has happened. `LowerFails`, `PackageFails`, `EmbedFails`,
`WriteFails`, a failed `Save`, the import's failures and `Crash` share one bound. `Crash` ends the process
anywhere, `Resume` starts the same export again. A lowering calls visit for one
file at a time (`visitMu`), so a worker is in one unit at a time.

`ModuleLink` adds what a compilation makes of the files:
`expandSemanticProjectModules` as the closure of units under owners, and
`linkEmbeddedSemanticModules` as the recursive walk with its `seen` set, whose keys
spell an owner relative to the unit that names it. Both are functions of the
files; modules that embedded modules import in their turn are left out. The walk is
one recursive function of a record: `done` says which entries of `unit` it has
dealt with, the rest is what the code hands on.

### ProjectCache, MCProjectCache

A compilation is four loops: load summaries, rebuild the missing ones, save them
all, and load or compile fragments, the last in any order. `stamp` is a unit's
size and modification time; no two edits share one. The summary of a unit is its
root, and a root stands for the contents it was computed from. Records are saved
in one step, because one that is cut short does not decode. Two compilations
that save one record at once may leave none (write, remove, rename on one
temporary name), which `Compile` allows. `edits` bounds the edits; `racedStamps`
and `racedContent` remember the stamps made, and the contents replaced, by edits
that fell into some compilation. Two caches are left out: the sidecar summaries,
which are found by the unit's path without its stamp (`SPC:538, 767-779`), and
`nativeLoweringCache`, keyed by the stated root like the fragments, whose wrong
hits fall under the same exception as theirs.

### InitializerOrder, ExecutableClosure, MCExecutableClosure

`InitializerOrder` has Tarjan's components, their order and the initializers'
order as recursive functions, with indices, low links and the stack as in the
code. `ExecutableClosure` is the worklist algorithm around them. Functions are
numbers in the order of their identifiers; the kind of a function (with a body,
only declared, outside the program, missing) stands for what name resolution and
external contracts find. The two worklist loops differ in the code, and in the
model: only the first tests `queued`. An initializer depends only on others of
its unit; a unit that is reached by a call from an initializer runs its own
initializers in a later round, after the caller's. References to globals that no
unit defines are left out: they lead nowhere.

## 4. Runs

| Run | Instance | What it shows |
|---|---|---|
| `pipeline` | 3 units, 2 + 2 workers, queues of 2, entry known only from bodies, fairness | the memory bound, what cancellation and `linked` mean, quiescence of the merge, open channels, the failures it takes to end the process, the refinement of `ProjectCompile`; the call returns and every goroutine ends |
| `pipeline_abort` | 3 units, entry indexed, symmetry of workers | *violated:* two bad units can end the process by a send on a closed channel |
| `bounded_units` | 7 units, 2 workers, a context that may end | nil means everything ran; errors are reported; the call returns unless all workers left and units remain |
| `task_runtime` | 2 tasks, 6 operations in all, a channel of one, Windows | output exactly once, quiescent sweep, readers see final output, `RunSemantic` returns unless the program blocks itself |
| `task_join` | the same | *violated:* concurrent joins of one task turn its success into an error |
| `gui_session` | 3 jobs, 1 edit, the code's capacities | busy ends unless a result was lost; the pane ends with the latest conversion, made from the text of its click |
| `highlight_service` | 3 contents and 3 generations per editor, the code's capacities | tokens fit the text and the last request is answered, but for New and typing on the right; Submit never blocks |
| `module_store` | 3 goroutines in 1 or 2 processes, 2 contents, 3 calls, 1 edit, 1 death, errors of the file system at any step | a module that was put is whole outside the named windows; a stale answer needs an edit between lowering and hashing |
| `project_export` | 2 workers, 2 directories of one unit, 2 packages in a cycle, 1 failure, death or cut write, 3 exports | hits are readable, imports closed, payloads carried once, every module linked, nothing left out |
| `export_resume` | the same | *violated:* a resumed export keeps a partial file and reports success |
| `project_cache` | 2 units, 2 contents, 2 compilations at once and 3 in all, 2 edits, 1 death | a compilation links what is on disk when it ends, racing edits excepted |
| `closure` | 3 units, 9 functions, any subset of 5 imports, 5 calls, a reference, 2 orderings, a shared package | the closure is reachability; initializers are in order; the loops end |

**Bounds.** Three units with queues of two let a queue fill, a stage block on the
next one, and two failures overtake a third unit; two workers a stage are enough
for one to leave while another still holds a body. `pipeline` uses no symmetry,
because it checks liveness; the symmetries of the other runs are of model values
that are only compared. Seven units exceed the four-slot queue of two workers by
three, the number at which a deserted submit loop blocks. Two tasks give nested
spawns, two awaiters of one task, circular awaits, and two threads at one channel
while the third awaits them; six operations let one thread spawn both, and a
channel of one fills. Three jobs overfill a result channel of two and let a
conversion be overtaken twice. Three generations an editor give more requests
than the slot and the result channel hold together. In the store two goroutines
share a process and a third may run in another; three calls are a put, another
over it and a removal. Three exports are a death or a failure (a cut registry write among them) and what
comes after it; a package of two files can be torn half way, and the cycle of two packages
makes an import come across itself. Three compilations are one that fills the
cache, one that races with an edit and one that reads what the two have left.
Three units have every cycle of imports that the ordering tells apart; the unit
that is only called by an initializer needs the second round.

**Fairness.** Weak fairness of each goroutine: the Go scheduler runs every
goroutine that can run, and a `select` with a ready case proceeds. No strong
fairness is assumed: no lock is contended and every channel operation that
matters stays enabled until it is taken. In `BoundedUnits` the end of the context
(`Cancel`) is never forced. In `TaskRuntime` the interpreted threads are weakly
fair: a program that loops for ever is cut by the step limit.
`ExecutableClosure` is one sequential function and is weakly fair as a whole.
The store, export and cache models state no fairness and check safety only.
Deadlock is checked for the pipeline and the GUI. Elsewhere the system stops by
itself: calls and exports return, an interpreted program may block itself, and
the highlighter stops after Close.

**Mutants.** Every property is violated by a mutant of the code that a slip could
have produced: a token released twice or never, a missing `continue` after a
report, a channel closed before its last sender is done, cancellation on the
wrong result, an off-by-one in a capacity, a wait-group increment after the
start, a read moved into the goroutine, a dropped generation test, a manifest
written before its payloads, a temporary name without the pid, a failure that is
not counted, a claim without its test, modules skipped because they have an owner, a cache key without the stamp, a round of
initializers too few.

## 5. Theorems

TLAPS checks the following for every value of the constants, so for any number
of units, workers, tasks, jobs, generations, processes, packages, edits, deaths
and runs. Every safety invariant and action property of the passing runs has a
theorem, but for the three named at the end. Each proof has the same shape: an
inductive invariant `...Inv` with the lemmas `...Init` and `...Step` (one step of the
proof per action, and lemmas for the parts an action can disturb), the theorem
that it always holds, and one theorem per property that follows from it.

**ProjectPipelineProofs.**

- *BodiesBounded*, *PipelineTypes*: `TypeOK /\ TokenAccounting /\ BodyBound`. `BodyBound` (at most W
  parsed programs alive) is not inductive: a parser that acquires a token does
  not know the number of live bodies. `TokenAccounting` is the strengthening: the
  tokens in the semaphore equal the bodies with parsers, in `prepareCh` and with
  compile workers. `TokenDelta` counts with the cardinality of finite sets, and
  `TokenFrame` covers every action that moves no body.
- *NoOtherPanic*: `SendersFindOpen`, by `CloseOrder`: a channel is closed only when
  all its senders are done, stage by stage, and who is done never sends again.
- *UnitsConserved*: each unit is in at most one place (loader, channel, goroutine,
  collected results), no channel repeats one, and until a failure is recorded
  each is somewhere. No property of a run says so; the next five need it, since
  none of them can be seen from the state of one goroutine.
- *CancelIsCaused*, *LinkIsSound*, *MergeIsQuiescent*, *CrashTakesFailures*:
  `CancelHasCause`, `LinkedIsSound`, `QuiescentMerge`, `CrashNeedsFailures`. The last
  says that a send on a closed channel needs two bad units, and that merge and
  workers meet on the index only after a recorded failure; one bad unit can end the
  process in the second way.
  `PipelineInv` adds to conservation that goroutines stop only at the end of their
  input while no failure is recorded (`Quiet`), what the caller has established in
  each phase (`CallerInv`), and that what travels is what the file of its unit
  deserves (`Origin`). A linked executable has a report from each unit because the
  result channel is closed only when nothing is on its way (`ClosedIsFinished`).
- *PipelineNeverStuck*: no deadlock. `CanMove` collects what each goroutine needs for
  its next step; a state without it is one in which the process has panicked, or
  the call has returned and left nothing running. `DoneOrder` says what a goroutine
  leaves behind when it stops: a closed channel, the end of its input, or a
  cancelled context. While the caller collects (`CollectingMoves`), an empty result
  channel frees the writer, this the compile workers and the loader; a compile
  worker that waits sees an empty `prepareCh`, so no token is out (`TokenAccounting`)
  and no parser waits for one. Once it has returned (`ReturnedMoves`), cancellation
  and the closed result channel drive out the rest in the order of the stages.
- *PipelineImplements*: `Implements`, the refinement of `ProjectCompile`. Each step
  is one report, one verdict, or a stutter.

**BoundedUnitsProofs.** *SchedulerType*, *NilIsComplete*, *ErrorsSurface*: `TypeOK`,
`NilMeansAll`, `ErrorIsReported`. The invariant accounts for every submitted unit
(queued, held or run), for why a worker left and why the queue was closed, and
keeps the first error in its slot. *StuckOnlyIfDeserted*: the call can go on, or has
returned, unless all workers have left at failing units and the submitter waits at a
full queue; *GoodUnitsNeverBlock* is its consequence for units that all succeed, and
the reason why this defect of the code is latent. They are what `ReturnsUnlessDeserted`
needs besides fairness.

**TaskRuntimeProofs.** *TaskTypes*, *SweepIsQuiescent*, *OutputIsFinal*,
*OutputIsExact*: `TypeOK`, `QuiescentSweep`, `ReadersSeeFinalOutput`,
`OutputExactlyOnce`. The wait group is the cardinality of the set of live tasks
(`CountInv`), which is why it never goes below zero. The lines of each thread are
in exactly one builder among those that nobody has taken over (`LinesInv`): two
awaiters of one task cannot both have them. The invariant is `RunInv`, or that a
send on a closed channel has ended the process (`Crashed`). *OnlyProgramsBlock*: if no
thread can take a step before the run has ended, then the awaits of the program form a
circle (`Stuck`) or its threads wait at the channel (`Blocked`), the two exceptions of
`Settles`. It rests on `ChildInv`: a registered task that does not run is with a parent
that is about to start it or is done, and who has a handle has run, so that nobody
waits for a `done` channel that nobody will close.

**HighlightServiceProofs.** *SubmitNeverBlocks*, *LastRequestIsAnswered*,
*StaleTokensAreDropped*: `TypeOK`, `LastRequestIsShown`, and the action property
`TokensFitText`. `FitInv`: a result of the latest generation of its editor was
scanned from what the editor holds, although the text is read long after the
request was made; editors in `unannounced` are excepted. `AnswerInv` follows the last request from the slot through the
loop and the channel to the editor; it needs that the request is the only one
left behind it and its answer the newest, so that nobody evicts either.

**GuiSessionProofs.** *GuiTypes*, *ConversionsOwnTheirSource*, *IdleAtTheEnd*,
*LatestConversionIsShown*: `TypeOK`, `ConversionOwnsSource`, `BusyEnds`,
`LatestConversionWins`. `BusyInv`: while the window is busy and no result was lost,
some result is still to come that will clear the flag. A channel carries only
results of its kind, of goroutines that have ended (`ChannelInv`).

**ModuleStoreProofs.** *StoreTypes*, *StoreNamesAreWhole*, *StaleAnswersNeedARace*:
`TypeOK`, `StoreIsWhole`, `StaleNeedsRacingEdit`. A temporary directory holds what
its one writer has written unless two goroutines of a process were seen to put
one key (`CollideInv`, `TmpInv`); so each name is whole and put, or gone, or being
taken apart, or one over which somebody died or was stopped by an error
(`WholeAt`).

**ProjectExportProofs**, for `ProjectExport`, the `PackageStore` in it and `ModuleLink`.
*ExportHasTypes*, *HitsAreReadable*, *ImportsAreClosed*, *UnitsEmbedEverything*,
*ModulesAreInlineOnce*: `TypeOK`, `HitIsReadable`, `ImportedIsClosed`,
`EmbedsEverything`, `InlineOnce`. The store's part says of every call on every stack
what it has left in its folder, if no second goroutine came to write there
(`DiskInv`), that a manifest is begun after the last payload (`ManifestInv`), and
that a package an import came across is called or done with (`SeenInv`), which is
what makes cycles of dependencies end in a closed store. The export's part follows
each package a unit needs through its worker (`EntryInv`) and says that who
carries a module inline, or is about to, is its owner (`OwnerInv`), as long as the
owners are of one history (`OneHistory`): the first run, or a registry file of which
no write was cut short, which then holds what the process knows (`RegistryInv`).

*ModulesLink*: `EveryModuleLinks`, in three parts. First, that the two recursions
are what they look like. `RecursionSolved` shows that a recursion whose calls
become smaller has a solution, by approximations right up to size n and the least
size at which none is; sizes are the units not yet reached (`GrowerSolves`), and
for the walk the keys not yet seen and then the entries not yet done
(`WalkerSolves`). What the solutions compute follows from a counterexample of
least size: the units of a project are closed under owners (`ProjectUnitsClosed`),
the walk meets every entry of every unit it enters (`WalkerWalks`,
`LinkEmbeddedClosed`), also when `seen` stops it at an entry that another unit has
spelled alike. Second, *LinksAreInvariant*: `LinkInv` says of every unit a worker
is at what it has still to claim (`VisitInv`), that the registry of one run and its
workers agree (`ClaimInv`), and, in `RefInv`, that every unit has an age, the run
that finished it, such that a reference of a finished unit leads to one that
carries the module or, if finished, was finished by a later run. `FirstRunInv` is
that nothing is left out of a run that was never interrupted. Third, references end:
among the units that need a module and do not carry it, one of the last age has
nowhere to refer to (`LastUnit`, `EntryLeads`).

**ProjectCacheProofs.** *CacheHasTypes*, *CompilationsLinkTheDisk*: `TypeOK` and the
action property `LinksWhatIsOnDisk`. A root that is stated, in memory or in a
record of the present stamp, is of the present contents, or the stamp comes from a
racing edit and the root is of contents that one replaced (`RootInv`,
`SummaryInv`); contents read or cached under a root have it, or were replaced under
it (`BodyInv`). It holds of compilations that were edited under just as well: the
property makes no exception for them, only for units.

Assumptions are those of the modules, which TLC evaluates in the runs:
`UnitsAssumption`, `WorkersAssumption` (finite nonempty worker sets, no more parsers
than compile workers, no more of these than units: the clamps at `SPC:1140-1163`
and 1249-1252), `EntryAssumption`; for the scheduler a finite nonempty worker set,
not larger than the units; nonempty process, thread, compilation and content
sets; positive capacities; packages with files of their own. `ModuleLinkAssumption`
(finitely many units and module files) is needed for the linkers' recursions to
end. `NoFileAssumption`, `MarkerAssumption` and `AbsentAssumption` say that the
markers for "no file", "nobody", "inline" and "absent" are no files, units or
contents.

Only model-checked:

- liveness under fairness (`Termination`, `Settles`, `ReturnsUnlessDeserted`,
  `Terminates`) and `ENABLED`, which the prover does not treat. The theorems on stuck
  states above are stated with guards instead; on the instances of the runs, TLC finds
  `CanMove` and `SomeThreadCanMove` true exactly in the states with a step of a
  goroutine. They say that somebody can always move, not that the system gets
  anywhere;
- `TypeOK`, `ClosureIsReachability` and `InitializersInOrder` of `ExecutableClosure`.
  They depend on Tarjan's components and a nested postorder, functions of several
  arguments in several mutually dependent recursions, which the back ends do not
  accept in the form that is close to the code; a proof would be one of Tarjan's
  algorithm first.

## 6. Findings

1. **A second failing unit ends the process** (`SPC:1235, 1272` against
   `1344-1352`; run `pipeline_abort`). The bare send of a second error may hit the
   result channel that the first one's cancellation has closed.
2. **Joining a native thread twice at once is not idempotent**
   (`runtime_windows_threads.go:44`; run `task_join`).
3. **A resumed export keeps partial units** (`cmd/r2many/main.go:490`; run
   `export_resume`). A unit file that an export died over, or failed to write to
   the end, is not empty and counts as done; the resumed export reports success.

Observed on the way, each an exception that a checked property names:

- After one failure the merge writes the maps of `p.Index` while a compile worker of
  a cancelled unit may still read them (`SPC:1419, 1426`, `machine_compile.go:698`):
  a data race over which Go may end the process (`CrashNeedsFailures`).
- Text typed in the right editor makes no new generation and no request
  (`ui.go:359-364`), and New makes none for either (`ui.go:491`): a highlight in flight
  then puts the tokens of the old text on the new one (`TokensFitText`), and typed
  text keeps them (`LastRequestIsShown`).
- The submit loop of the bounded scheduler waits for ever once all workers have
  left at errors (`streaming_lowering.go:564`, `ReturnsUnlessDeserted`). Latent: the
  only callback fails on empty units, which the partition never builds.
- With `SEMANTIC_EMBED_REGISTRY`, a death between a claim and the file of its
  owner loses the module for good: the resumed export takes the owner for a
  unit that carries it (`semantic_module_embedding.go:228`, `EveryModuleLinks`).
- A registry write that fails or dies half way leaves a file that reads as empty,
  and both errors are dropped (`semantic_module_embedding.go:231`, 42): the resumed
  export claims modules that finished units carry, and they are carried twice
  (`InlineOnce`).
- `Put` has a window without a module between removal and rename, drops the error
  of a removal that stops part-way, and two goroutines of one process share a
  temporary directory (`semantic_module.go:322, 349`, `StoreIsWhole`); `docs/SEMANTIC_MODULE_SYSTEM.md:8` calls the store atomic.
- A directory edited between lowering and hashing is stored under the wrong hash
  (`semantic_module_resolver.go:827`, `StaleNeedsRacingEdit`).
- A unit edited while it is compiled may leave a summary of the old contents under
  the new stamp; the unit is compiled wrongly until its next edit
  (`SPC:1694`, `LinksWhatIsOnDisk`).

## 7. Not modelled

The translation itself (frontends, UAST transformations, code generators,
transports) is sequential and data-heavy: its correctness is semantic, and its
inputs are beyond enumeration. Generated tables, evidence reports, corpora, the
C++ runtime and vendored headers hold no state. They are most of the repository's
lines, which is why the modules stand for a small share of them.

Within the modelled components: metrics and texts of errors; the linker's
arithmetic, unit selection and worker sizing of the pipeline; step limits and
scopes of the interpreted program; languages, settings and module dialogs of the
GUI; archives, registries and downloads of the package import; the selection of
needed symbols when modules are embedded, and modules that embedded modules
import at link time; several exporting processes at once; summary sidecars
(`SPC:538`) and recovered callable contracts beside the caches; name resolution
and signatures in the closure; the Go type checker's importer.
