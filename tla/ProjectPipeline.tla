---------------------------- MODULE ProjectPipeline ----------------------------
(****************************************************************************)
(* The unit pipeline of CompileSemanticProject                              *)
(* (internal/backend/semantic_project_compile.go): a loader, preparation    *)
(* workers, compile workers, a fragment writer and the collecting caller,   *)
(* joined by four bounded Go channels and a cancellable context.            *)
(*                                                                          *)
(*   loader --load--> prep --prepare--> compile --fragment--> writer        *)
(*     |               |                           ^             |          *)
(*     +-- cached -----|---------------------------+             v          *)
(*     +-- read error -+-- parse error ---------------------> result        *)
(*                                                                          *)
(* What travels is an item: the index of a unit in p.Units and the error    *)
(* met so far.  A file is reduced to the stage at which it fails, a         *)
(* semantic root to what it was derived from.                               *)
(****************************************************************************)
EXTENDS Integers, Sequences, FiniteSets

CONSTANTS
    UnitCount,       \* len(p.Units)
    PrepWorker,      \* the preparation goroutines
    CompileWorker,   \* the compile goroutines
    EntryRequested,  \* opts.EntryPoint != ""
    IndexedEntry,    \* units whose summary lists the entry (entryByUnit)
    BodyEntry        \* units whose body defines the entry

Unit == 1..UnitCount
W    == Cardinality(CompileWorker)   \* "workers", and the size of every queue

ASSUME UnitsAssumption == UnitCount \in Nat \ {0}
\* The clamps of the worker count: 1 <= prepWorkers <= workers <= len(p.Units).
ASSUME WorkersAssumption ==
    /\ IsFiniteSet(CompileWorker) /\ IsFiniteSet(PrepWorker)
    /\ CompileWorker # {} /\ PrepWorker # {}
    /\ Cardinality(PrepWorker) <= W /\ W <= UnitCount
ASSUME EntryAssumption ==
    /\ EntryRequested \in BOOLEAN
    /\ IndexedEntry \subseteq Unit /\ BodyEntry \subseteq Unit

Failure == {"read", "parse", "compile"}
Item    == [unit : Unit, err : Failure \cup {"nil"}]
Idle    == [unit |-> 1, err |-> "nil"]      \* what an idle goroutine holds: unused
Channel == {"load", "prepare", "fragment", "result"}

VARIABLES
    outcome,      \* the stage at which each unit's file fails, or "nil"
    cache,        \* completed fragment records: <<unit, root>> of their keys
    loader,       \* [pc, at]: the loader and its loop index
    prep, comp,   \* [pc, item] of every preparation and compile goroutine
    writer,       \* [pc, item] of the fragment writer
    queue,        \* contents of the four channels
    closed,       \* the channels that have been closed
    bodyTokens,   \* tokens in the bodyTokens semaphore
    cancelled,    \* ctx.Done() is closed
    caller,       \* [pc, at]: the calling goroutine and its merge index
    results,      \* the collector's slice; "none" is a zero unitResult
    root          \* what unit.SemanticRoot is the hash of

disk  == <<outcome, cache>>
pipes == <<queue, closed>>
main  == <<caller, results, root>>
vars  == <<disk, loader, prep, comp, writer, pipes, bodyTokens, cancelled, main>>

Returns  == {"entryNotFound", "entryDuplicate", "unitError", "clash", "linked", "linkError"}
Returned == caller.pc \in Returns
\* The two ways the process ends: a send on a closed channel, a fatal map access.
Panicked == caller.pc \in {"sentOnClosed", "racedOnIndex"}

Init ==
    /\ outcome \in [Unit -> Failure \cup {"nil"}]
    /\ cache \in SUBSET {<<u, "summary">> : u \in {v \in Unit : outcome[v] \in {"nil", "read"}}}
    /\ loader = [pc |-> "next", at |-> 1]
    /\ prep = [p \in PrepWorker |-> [pc |-> "recv", item |-> Idle]]
    /\ comp = [c \in CompileWorker |-> [pc |-> "recv", item |-> Idle]]
    /\ writer = [pc |-> "recv", item |-> Idle]
    /\ queue = [ch \in Channel |-> <<>>] /\ closed = {}
    /\ bodyTokens = 0
    /\ cancelled = FALSE
    /\ caller = [pc |-> "collect", at |-> 1]
    /\ results = [u \in Unit |-> "none"]
    /\ root = [u \in Unit |-> "summary"]

\* A buffered Go channel of capacity W.
Send(ch, x) ==
    /\ ch \notin closed /\ Len(queue[ch]) < W
    /\ queue' = [queue EXCEPT ![ch] = Append(@, x)]
    /\ UNCHANGED closed
Receive(ch) ==
    /\ queue[ch] # <<>>
    /\ queue' = [queue EXCEPT ![ch] = Tail(@)]
    /\ UNCHANGED closed
Close(ch)   == closed' = closed \cup {ch} /\ UNCHANGED queue
Drained(ch) == queue[ch] = <<>> /\ ch \in closed

\* The bodyTokens semaphore.
AcquireUnbounded == bodyTokens' = bodyTokens + 1                     \* mutant
Acquire          == bodyTokens < W /\ bodyTokens' = bodyTokens + 1
ReleaseTwice     == bodyTokens' = bodyTokens - 2                     \* mutant
ReleaseForgotten == UNCHANGED bodyTokens                             \* mutant
Release          == bodyTokens' = bodyTokens - 1

-----------------------------------------------------------------------------
(* The loader goroutine *)

\* The head of the loop: the range ends or ctx.Done() is polled; then the
\* fragment cache is asked, before the file is opened.
LoaderNext ==
    /\ loader.pc = "next"
    /\ loader' = [loader EXCEPT !.pc =
           IF loader.at > UnitCount \/ cancelled THEN "close"
           ELSE IF <<loader.at, root[loader.at]>> \in cache THEN "sendCached"
           ELSE IF outcome[loader.at] = "read" THEN "sendErr" ELSE "sendLoad"]
    /\ UNCHANGED <<disk, prep, comp, writer, pipes, bodyTokens, cancelled, main>>

\* After a send, the next unit; the mutant forgets the two continues.
LoaderFallsThrough == IF loader.pc # "sendLoad"                      \* mutant
                      THEN loader' = [loader EXCEPT !.pc = "sendLoad"]
                      ELSE loader' = [pc |-> "next", at |-> loader.at + 1]
LoaderAdvance      == loader' = [pc |-> "next", at |-> loader.at + 1]

\* Only a read error is sent with no select on ctx.Done().
LoaderSend ==
    /\ \/ loader.pc = "sendCached" /\ Send("fragment", [unit |-> loader.at, err |-> "nil"])
       \/ loader.pc = "sendLoad"   /\ Send("load", [unit |-> loader.at, err |-> "nil"])
       \/ loader.pc = "sendErr"    /\ Send("result", [unit |-> loader.at, err |-> "read"])
    /\ LoaderAdvance
    /\ UNCHANGED <<disk, prep, comp, writer, bodyTokens, cancelled, main>>

LoaderCancelled ==
    /\ loader.pc \in {"sendCached", "sendLoad"} /\ cancelled
    /\ loader' = [loader EXCEPT !.pc = "close"]
    /\ UNCHANGED <<disk, prep, comp, writer, pipes, bodyTokens, cancelled, main>>

LoaderClose ==
    /\ loader.pc = "close"
    /\ Close("load")
    /\ loader' = [loader EXCEPT !.pc = "done"]
    /\ UNCHANGED <<disk, prep, comp, writer, bodyTokens, cancelled, main>>

Loader == LoaderNext \/ LoaderSend \/ LoaderCancelled \/ LoaderClose

-----------------------------------------------------------------------------
(* The preparation goroutines and the one that closes prepareCh *)

PrepReceive(p) ==
    /\ prep[p].pc = "recv"
    /\ Receive("load")
    /\ prep' = [prep EXCEPT ![p] = [pc |-> "acquire", item |-> Head(queue["load"])]]
    /\ UNCHANGED <<disk, loader, comp, writer, bodyTokens, cancelled, main>>

PrepAcquire(p) ==
    /\ prep[p].pc = "acquire"
    /\ Acquire
    /\ prep' = [prep EXCEPT ![p].pc = "parse"]
    /\ UNCHANGED <<disk, loader, comp, writer, pipes, cancelled, main>>

\* A parse error gives the token back before it is reported.
PrepParse(p) ==
    /\ prep[p].pc = "parse"
    /\ IF outcome[prep[p].item.unit] = "parse"
       THEN prep' = [prep EXCEPT ![p].pc = "sendErr"] /\ Release
       ELSE prep' = [prep EXCEPT ![p].pc = "sendPrepared"] /\ UNCHANGED bodyTokens
    /\ UNCHANGED <<disk, loader, comp, writer, pipes, cancelled, main>>

\* A parse error is sent with no select; the token travels with a program.
PrepSend(p) ==
    /\ \/ prep[p].pc = "sendErr"
          /\ Send("result", [unit |-> prep[p].item.unit, err |-> "parse"])
       \/ prep[p].pc = "sendPrepared" /\ Send("prepare", prep[p].item)
    /\ prep' = [prep EXCEPT ![p] = [pc |-> "recv", item |-> Idle]]
    /\ UNCHANGED <<disk, loader, comp, writer, bodyTokens, cancelled, main>>

\* The range over loadCh ends, or a select takes ctx.Done().
PrepExit(p) ==
    /\ \/ prep[p].pc = "recv" /\ Drained("load") /\ UNCHANGED bodyTokens
       \/ prep[p].pc = "acquire" /\ cancelled /\ UNCHANGED bodyTokens
       \/ prep[p].pc = "sendPrepared" /\ cancelled /\ Release
    /\ prep' = [prep EXCEPT ![p] = [pc |-> "done", item |-> Idle]]
    /\ UNCHANGED <<disk, loader, comp, writer, pipes, cancelled, main>>

Prep(p) == PrepReceive(p) \/ PrepAcquire(p) \/ PrepParse(p) \/ PrepSend(p) \/ PrepExit(p)

PrepareCloser ==
    /\ "prepare" \notin closed
    /\ \A p \in PrepWorker : prep[p].pc = "done"
    /\ Close("prepare")
    /\ UNCHANGED <<disk, loader, prep, comp, writer, bodyTokens, cancelled, main>>

-----------------------------------------------------------------------------
(* The compile goroutines and the one that closes fragmentCh *)

CompileReceive(c) ==
    /\ comp[c].pc = "recv"
    /\ Receive("prepare")
    /\ comp' = [comp EXCEPT ![c] = [pc |-> "compile", item |-> Head(queue["prepare"])]]
    /\ UNCHANGED <<disk, loader, prep, writer, bodyTokens, cancelled, main>>

\* CompileMachine.  A success is saved in the fragment cache under the root
\* the unit has by then; the body is dropped and its token released.
CompileUnit(c) ==
    LET u == comp[c].item.unit
        e == IF outcome[u] = "compile" THEN "compile" ELSE "nil"
    IN /\ comp[c].pc = "compile"
       /\ cache' = IF e = "nil" THEN cache \cup {<<u, root[u]>>} ELSE cache
       /\ Release
       /\ comp' = [comp EXCEPT ![c] = [pc |-> "send", item |-> [unit |-> u, err |-> e]]]
       /\ UNCHANGED <<outcome, loader, prep, writer, pipes, cancelled, main>>

CompileSend(c) ==
    /\ comp[c].pc = "send"
    /\ Send("fragment", comp[c].item)
    /\ comp' = [comp EXCEPT ![c] = [pc |-> "recv", item |-> Idle]]
    /\ UNCHANGED <<disk, loader, prep, writer, bodyTokens, cancelled, main>>

\* The range over prepareCh ends, or the select on fragmentCh takes ctx.Done().
CompileExit(c) ==
    /\ \/ comp[c].pc = "recv" /\ Drained("prepare")
       \/ comp[c].pc = "send" /\ cancelled
    /\ comp' = [comp EXCEPT ![c] = [pc |-> "done", item |-> Idle]]
    /\ UNCHANGED <<disk, loader, prep, writer, pipes, bodyTokens, cancelled, main>>

Compile(c) == CompileReceive(c) \/ CompileUnit(c) \/ CompileSend(c) \/ CompileExit(c)

\* loadWG.Wait(); compileWG.Wait()
LoaderDone          == loader.pc = "done"                            \* mutant
FragmentSendersDone == loader.pc = "done" /\ \A c \in CompileWorker : comp[c].pc = "done"

FragmentCloser ==
    /\ "fragment" \notin closed
    /\ FragmentSendersDone
    /\ Close("fragment")
    /\ UNCHANGED <<disk, loader, prep, comp, writer, bodyTokens, cancelled, main>>

-----------------------------------------------------------------------------
(* The fragment writer *)

WriterReceive ==
    /\ writer.pc = "recv"
    /\ Receive("fragment")
    /\ writer' = [pc |-> "send", item |-> Head(queue["fragment"])]
    /\ UNCHANGED <<disk, loader, prep, comp, bodyTokens, cancelled, main>>

WriterSend ==
    /\ writer.pc = "send"
    /\ Send("result", writer.item)
    /\ writer' = [pc |-> "recv", item |-> Idle]
    /\ UNCHANGED <<disk, loader, prep, comp, bodyTokens, cancelled, main>>

\* Either way out of the loop runs the deferred close(resultCh).
WriterExit ==
    /\ \/ writer.pc = "recv" /\ Drained("fragment")
       \/ writer.pc = "send" /\ cancelled
    /\ Close("result")
    /\ writer' = [pc |-> "done", item |-> Idle]
    /\ UNCHANGED <<disk, loader, prep, comp, bodyTokens, cancelled, main>>

Writer == WriterReceive \/ WriterSend \/ WriterExit

-----------------------------------------------------------------------------
(* The caller: collect, check the entry, merge, link.  Every return runs the *)
(* deferred cancel().                                                        *)

CancelOnAny(x)   == TRUE                                             \* mutant
CancelOnGood(x)  == x.err = "nil"                                    \* mutant
CancelOnError(x) == x.err # "nil"

Collect ==
    LET x == Head(queue["result"]) IN
    /\ caller.pc = "collect"
    /\ Receive("result")
    /\ results' = [results EXCEPT ![x.unit] = x.err]
    /\ cancelled' = (cancelled \/ CancelOnError(x))
    /\ UNCHANGED <<disk, loader, prep, comp, writer, bodyTokens, caller, root>>

\* A compile error still carries hasEntry; a unit that never reported does not.
EntryUnits == IndexedEntry \cup {u \in BodyEntry : results[u] \in {"nil", "compile"}}

CheckEntry ==
    /\ caller.pc = "collect" /\ Drained("result")
    /\ \E next \in {"merge", "entryDuplicate", "entryNotFound"} :
          /\ next = IF ~EntryRequested THEN "merge"
                    ELSE IF \E u, v \in EntryUnits : u # v THEN "entryDuplicate"
                    ELSE IF EntryUnits = {} THEN "entryNotFound" ELSE "merge"
          /\ caller' = [caller EXCEPT !.pc = next]
          /\ cancelled' = (cancelled \/ next # "merge")
    /\ UNCHANGED <<disk, loader, prep, comp, writer, pipes, bodyTokens, results, root>>

CompileFailed(u) == results[u] = "compile"                           \* mutant
Failed(u)        == results[u] \in Failure

Merging == caller.pc = "merge" /\ caller.at \in Unit

\* The loop stops at the first unit with an error,
MergeFailed ==
    /\ Merging /\ Failed(caller.at)
    /\ caller' = [caller EXCEPT !.pc = "unitError"]
    /\ cancelled' = TRUE
    /\ UNCHANGED <<disk, loader, prep, comp, writer, pipes, bodyTokens, results, root>>

\* or, whatever became of the units behind it, at the first delivered one that
\* defines a symbol of another unit.
MayClash == results[caller.at] = "nil" /\ UnitCount > 1

\* Each unit before that gets the hash of its fragment hashes, whether it has
\* fragments or not.
MergeUnit ==
    /\ Merging /\ ~Failed(caller.at)
    /\ root' = [root EXCEPT ![caller.at] =
                    IF results[caller.at] = "nil" THEN "fragments" ELSE "empty"]
    /\ \/ caller' = [caller EXCEPT !.at = @ + 1] /\ UNCHANGED cancelled
       \/ MayClash /\ caller' = [caller EXCEPT !.pc = "clash"] /\ cancelled' = TRUE
    /\ UNCHANGED <<disk, loader, prep, comp, writer, pipes, bodyTokens, results>>

\* Unresolved relocations, a missing native entry and image errors are one failure.
Link ==
    /\ caller.pc = "merge" /\ caller.at > UnitCount
    /\ \E verdict \in {"linked", "linkError"} : caller' = [caller EXCEPT !.pc = verdict]
    /\ cancelled' = TRUE
    /\ UNCHANGED <<disk, loader, prep, comp, writer, pipes, bodyTokens, results, root>>

Caller == Collect \/ CheckEntry \/ MergeFailed \/ MergeUnit \/ Link

-----------------------------------------------------------------------------
\* The two sends on resultCh with no select panic once the writer closed it.
SendOnClosed ==
    /\ "result" \in closed
    /\ loader.pc = "sendErr" \/ \E p \in PrepWorker : prep[p].pc = "sendErr"
    /\ caller' = [caller EXCEPT !.pc = "sentOnClosed"]
    /\ UNCHANGED <<disk, loader, prep, comp, writer, pipes, bodyTokens, cancelled,
                   results, root>>

\* The merge writes the symbols of a delivered unit into the map that CompileMachine
\* looks up and ranges over; where Go notices the two at once, it ends the process.
MergeRaces ==
    /\ Merging /\ results[caller.at] = "nil"
    /\ \E c \in CompileWorker : comp[c].pc = "compile"
    /\ caller' = [caller EXCEPT !.pc = "racedOnIndex"]
    /\ UNCHANGED <<disk, loader, prep, comp, writer, pipes, bodyTokens, cancelled,
                   results, root>>

Crash == SendOnClosed \/ MergeRaces

GoroutinesDone ==
    /\ loader.pc = "done" /\ writer.pc = "done"
    /\ \A p \in PrepWorker : prep[p].pc = "done"
    /\ \A c \in CompileWorker : comp[c].pc = "done"
    /\ closed = Channel

\* The process has ended, or the call has returned and left nothing running.
Terminated == (Panicked \/ (Returned /\ GoroutinesDone)) /\ UNCHANGED vars

Next ==
    \/ /\ ~Panicked
       /\ \/ Loader \/ Writer \/ Caller
          \/ \E p \in PrepWorker : Prep(p)
          \/ \E c \in CompileWorker : Compile(c)
          \/ PrepareCloser \/ FragmentCloser
          \/ Crash
    \/ Terminated

\* The Go scheduler runs every goroutine that can run, and a select with a
\* ready case is not put off for ever.  A data race need not be noticed.
Fairness ==
    /\ WF_vars(~Panicked /\ Loader) /\ WF_vars(~Panicked /\ Writer)
    /\ WF_vars(~Panicked /\ Caller) /\ WF_vars(~Panicked /\ SendOnClosed)
    /\ \A p \in PrepWorker : WF_vars(~Panicked /\ Prep(p))
    /\ \A c \in CompileWorker : WF_vars(~Panicked /\ Compile(c))
    /\ WF_vars(~Panicked /\ PrepareCloser) /\ WF_vars(~Panicked /\ FragmentCloser)

Spec     == Init /\ [][Next]_vars
FairSpec == Spec /\ Fairness
-----------------------------------------------------------------------------
(* Properties *)

LoaderState == [pc : {"next", "sendCached", "sendLoad", "sendErr", "close", "done"},
                at : 1..(UnitCount + 1)]
PrepState   == [pc : {"recv", "acquire", "parse", "sendErr", "sendPrepared", "done"},
                item : Item]
CompState   == [pc : {"recv", "compile", "send", "done"}, item : Item]
WriterState == [pc : {"recv", "send", "done"}, item : Item]
CallerState == [pc : {"collect", "merge", "sentOnClosed", "racedOnIndex"} \cup Returns,
                at : 1..(UnitCount + 1)]

\* Type invariant: every goroutine, channel and table of the pipeline stays in
\* its domain; the semaphore never goes below zero, which in the code would be
\* a goroutine blocked for ever on an empty bodyTokens.
TypeOK ==
    /\ outcome \in [Unit -> Failure \cup {"nil"}]
    /\ cache \subseteq Unit \X {"summary", "fragments", "empty"}
    /\ loader \in LoaderState /\ (loader.pc \in {"sendCached", "sendLoad", "sendErr"} => loader.at \in Unit)
    /\ prep \in [PrepWorker -> PrepState]
    /\ comp \in [CompileWorker -> CompState]
    /\ writer \in WriterState
    /\ queue \in [Channel -> Seq(Item)]
    /\ closed \subseteq Channel
    /\ bodyTokens \in Nat
    /\ cancelled \in BOOLEAN
    /\ caller \in CallerState
    /\ results \in [Unit -> Failure \cup {"nil", "none"}]
    /\ root \in [Unit -> {"summary", "fragments", "empty"}]

PrepHolders == {p \in PrepWorker : prep[p].pc \in {"parse", "sendPrepared"}}
CompHolders == {c \in CompileWorker : comp[c].pc = "compile"}
LiveBodies  == Cardinality(PrepHolders) + Len(queue["prepare"]) + Cardinality(CompHolders)

\* Every parsed program in memory, with a preparation worker, in prepareCh or
\* with a compile worker, is paid for by exactly one token, on every path:
\* parse error, cancellation, compile error and success.
TokenAccounting == bodyTokens = LiveBodies

\* "only W units may hold a complete canonical body at once".
BodyBound == LiveBodies <= W

\* The context is cancelled only because the caller has already recorded the
\* failure of a unit or is returning: cancellation alone never drops a unit.
CancelHasCause == cancelled => Returned \/ Panicked \/ \E u \in Unit : Failed(u)

\* An executable comes out only if every unit delivered its fragments, and
\* every unit whose file is bad was covered by a complete cache record.
LinkedIsSound ==
    caller.pc = "linked" =>
        \A u \in Unit : /\ results[u] = "nil"
                       /\ (outcome[u] = "nil" \/ <<u, "summary">> \in cache)

\* While no failure is recorded, the caller merges only when the loader and
\* all workers are done, so nobody else touches the index and the units.
QuiescentMerge ==
    caller.pc \in {"merge", "clash", "linked", "linkError"} /\ ~(\E u \in Unit : Failed(u))
        => loader.pc = "done" /\ \A c \in CompileWorker : comp[c].pc = "done"

\* A goroutine that is about to send finds its channel open, the two bare
\* sends of an error on resultCh excepted.
SendersFindOpen ==
    /\ loader.pc = "sendLoad" => "load" \notin closed
    /\ loader.pc = "sendCached" => "fragment" \notin closed
    /\ \A p \in PrepWorker : prep[p].pc = "sendPrepared" => "prepare" \notin closed
    /\ \A c \in CompileWorker : comp[c].pc = "send" => "fragment" \notin closed
    /\ writer.pc = "send" => "result" \notin closed

\* The process ends over a send on a closed channel only if two units are bad, and
\* over the index that merge and workers share only once a failure was recorded: a
\* project of good units never brings the process down, one with a single bad unit
\* only by the second way.
CrashNeedsFailures ==
    /\ caller.pc = "sentOnClosed" =>
           \E u, v \in Unit : u # v /\ outcome[u] # "nil" /\ outcome[v] # "nil"
    /\ caller.pc = "racedOnIndex" => \E u \in Unit : Failed(u)

\* The call ends: the caller returns and no goroutine is left behind, whatever
\* fails and whenever the context is cancelled, unless the process panics.
Termination == <>(Panicked \/ (Returned /\ GoroutinesDone))

\* uast_contracts.go:166 "never let one unit abort a project measurement or
\* compilation process": the report of a bad unit never ends the process.
NeverAborts == caller.pc # "sentOnClosed"

\* What the call promises, without the pipeline.
Abstract == INSTANCE ProjectCompile
    WITH report  <- results,
         verdict <- IF caller.pc \in {"collect", "merge"} THEN "running"
                    ELSE IF Panicked THEN "panicked" ELSE caller.pc
Implements == Abstract!Spec
=============================================================================
