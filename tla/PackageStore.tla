------------------------------ MODULE PackageStore ------------------------------
(****************************************************************************)
(* ImportPackage (internal/backend/semantic_package_import.go): the package *)
(* folders of the module store, filled by goroutines that import a package  *)
(* and, after its manifest, its dependencies.  Nothing locks a folder: an   *)
(* import that misses removes it and writes it anew.  The module of the     *)
(* caller (ProjectExport) starts imports, dies and shares the process.      *)
(*                                                                          *)
(* A file stands for a source file that becomes a payload; os.RemoveAll and *)
(* MkdirAll are one step, for a folder that is half removed is a miss too.  *)
(****************************************************************************)
EXTENDS Integers, Sequences, FiniteSets

CONSTANTS
    Thread,      \* goroutines that may import
    Package,
    File,        \* payload files, of all packages
    FilesOf,     \* [Package -> SUBSET File], disjoint
    DepsOf,      \* [Package -> SUBSET Package]: what the manifests declare
    MaxFailures  \* bound on failures, of imports and of the caller, and on deaths

ASSUME PackageStoreAssumption ==
    /\ FilesOf \in [Package -> (SUBSET File) \ {{}}]
    /\ \A p, q \in Package : p # q => FilesOf[p] \cap FilesOf[q] = {}
    /\ DepsOf \in [Package -> SUBSET Package]
    /\ MaxFailures \in Nat

VARIABLES
    payload,     \* [File -> {"absent", "torn", "whole"}]
    manifest,    \* [Package -> {"absent", "torn", "whole"}]: <name>.smod
    stack,       \* the calls of importPackageDepth of each goroutine
    seen,        \* the packages its ImportPackage has come across
    answer,      \* what its ImportPackage returned
    failures,    \* failures and deaths so far
    clashed,     \* history: packages two goroutines were writing at once
    unavailable  \* history: packages an import has failed on

storeVars == <<payload, manifest, stack, seen, answer, failures, clashed, unavailable>>

NoFile  == "no file"
ASSUME NoFileAssumption == NoFile \notin File

Phase   == {"analyse", "rewrite"}
Writing == Phase \cup {"manifest", "sync"}
Frame   == [pkg : Package, pc : {"lookup", "deps"} \cup Writing,
            left : SUBSET File, open : File \cup {NoFile}, deps : SUBSET Package]
Call(p) == [pkg |-> p, pc |-> "lookup", left |-> {}, open |-> NoFile, deps |-> {}]

StoreInit ==
    /\ payload = [f \in File |-> "absent"]
    /\ manifest = [p \in Package |-> "absent"]
    /\ stack = [t \in Thread |-> <<>>]
    /\ seen = [t \in Thread |-> {}]
    /\ answer = [t \in Thread |-> "none"]
    /\ failures = 0
    /\ clashed = {} /\ unavailable = {}

Active(t)  == stack[t] # <<>>
Top(t)     == Head(stack[t])
SetTop(t, frame) == stack' = [stack EXCEPT ![t] = <<frame>> \o Tail(@)]
WritersOf(p) == {t \in Thread : Active(t) /\ Top(t).pkg = p /\ Top(t).pc \in Writing}

\* existingPackageManifest: a manifest that parses and whose payloads all exist
\* (os.Stat: their contents are not looked at).
Promised(p) == {payload[f] : f \in FilesOf[p]}
Exists(p)   == manifest[p] = "whole" /\ "absent" \notin Promised(p)
Complete(p) == manifest[p] = "whole" /\ Promised(p) = {"whole"}

-----------------------------------------------------------------------------
(* importPackageDepth *)

Enter(frame, pc) ==
    [frame EXCEPT !.pc = pc,
                  !.left = IF pc \in Phase THEN FilesOf[frame.pkg] ELSE {},
                  !.deps = IF pc = "deps" THEN DepsOf[frame.pkg] ELSE {}]

StartImport(t, p) ==
    /\ stack' = [stack EXCEPT ![t] = <<Call(p)>>]
    /\ seen' = [seen EXCEPT ![t] = {p}]
    /\ answer' = [answer EXCEPT ![t] = "none"]
    /\ UNCHANGED <<payload, manifest, failures, clashed, unavailable>>

\* A hit goes on to the dependencies of the stored manifest.
Lookup(t) ==
    /\ Active(t) /\ Top(t).pc = "lookup"
    /\ Exists(Top(t).pkg)
    /\ SetTop(t, Enter(Top(t), "deps"))
    /\ UNCHANGED <<payload, manifest, seen, answer, failures, clashed, unavailable>>

\* A miss: the source is fetched, and the folder removed and made again.
Fetch(t) ==
    LET p == Top(t).pkg IN
    /\ Active(t) /\ Top(t).pc = "lookup"
    /\ ~Exists(p)
    /\ payload' = [f \in File |-> IF f \in FilesOf[p] THEN "absent" ELSE payload[f]]
    /\ manifest' = [manifest EXCEPT ![p] = "absent"]
    /\ SetTop(t, [Top(t) EXCEPT !.pc = "analyse", !.left = FilesOf[p]])
    /\ clashed' = IF WritersOf(p) # {} THEN clashed \cup {p} ELSE clashed
    /\ UNCHANGED <<seen, answer, failures, unavailable>>

\* os.WriteFile of a payload, by the worker pool and again, one by one, after it.
\* The folder of the file is created first, so that the write finds one.
OpenPayload(t) ==
    /\ Active(t) /\ Top(t).pc \in Phase /\ Top(t).open = NoFile
    /\ \E f \in Top(t).left :
          /\ payload' = [payload EXCEPT ![f] = "torn"]
          /\ SetTop(t, [Top(t) EXCEPT !.open = f, !.left = @ \ {f}])
    /\ UNCHANGED <<manifest, seen, answer, failures, clashed, unavailable>>

\* The next phase: every file analysed, every file written again, the manifest
\* written, and only then the dependencies imported.
PhaseAfterEarly(pc) ==                                              \* mutant
    CASE pc = "analyse" -> "manifest"
      [] pc = "sync"    -> "rewrite"
      [] pc = "rewrite" -> "deps"
PhaseAfter(pc) ==
    CASE pc = "analyse" -> "rewrite"
      [] pc = "rewrite" -> "manifest"
      [] pc = "sync"    -> "deps"

ClosePayload(t) ==
    /\ Active(t) /\ Top(t).open # NoFile
    \* when another import has removed the folder meanwhile, the bytes may go to a
    \* file that has no name any more
    /\ \/ payload[Top(t).open] = "torn" /\ payload' = [payload EXCEPT ![Top(t).open] = "whole"]
       \/ Top(t).pkg \in clashed /\ UNCHANGED payload
    /\ LET closed == [Top(t) EXCEPT !.open = NoFile] IN
       SetTop(t, IF closed.left = {} THEN Enter(closed, PhaseAfter(closed.pc)) ELSE closed)
    /\ UNCHANGED <<manifest, seen, answer, failures, clashed, unavailable>>

OpenManifest(t) ==
    /\ Active(t) /\ Top(t).pc = "manifest"
    /\ manifest' = [manifest EXCEPT ![Top(t).pkg] = "torn"]
    /\ SetTop(t, [Top(t) EXCEPT !.pc = "sync"])
    /\ UNCHANGED <<payload, seen, answer, failures, clashed, unavailable>>

CloseManifest(t) ==
    /\ Active(t) /\ Top(t).pc = "sync"
    /\ \/ manifest[Top(t).pkg] = "torn" /\ manifest' = [manifest EXCEPT ![Top(t).pkg] = "whole"]
       \/ Top(t).pkg \in clashed /\ UNCHANGED manifest
    /\ SetTop(t, Enter(Top(t), PhaseAfter("sync")))
    /\ UNCHANGED <<payload, seen, answer, failures, clashed, unavailable>>

\* ensurePackageDependencies, one dependency after the other; one that this call has
\* come across already counts as imported.
Descend(t) ==
    /\ Active(t) /\ Top(t).pc = "deps"
    /\ \E d \in Top(t).deps :
          LET rest == [Top(t) EXCEPT !.deps = @ \ {d}] IN
          /\ stack' = [stack EXCEPT ![t] =
                 IF d \in seen[t] THEN <<rest>> \o Tail(@) ELSE <<Call(d), rest>> \o Tail(@)]
          /\ seen' = [seen EXCEPT ![t] = @ \cup {d}]
    /\ UNCHANGED <<payload, manifest, answer, failures, clashed, unavailable>>

Pop(t) == stack' = [stack EXCEPT ![t] = Tail(@)]

CallReturns(t) ==
    /\ Active(t) /\ Top(t).pc = "deps" /\ Top(t).deps = {}
    /\ Pop(t)
    /\ answer' = IF Len(stack[t]) = 1 THEN [answer EXCEPT ![t] = "ok"] ELSE answer
    /\ UNCHANGED <<payload, manifest, seen, failures, clashed, unavailable>>

\* A fetch, or an analysis, fails: the whole chain of calls returns the error, and
\* what has been written, manifests of packages above included, stays.
UnwindTop(t) ==                                                      \* mutant
    /\ Pop(t)
    /\ answer' = IF Len(stack[t]) = 1 THEN [answer EXCEPT ![t] = "error"] ELSE answer
Unwind(t) ==
    /\ stack' = [stack EXCEPT ![t] = <<>>]
    /\ answer' = [answer EXCEPT ![t] = "error"]

CallFails(t) ==
    /\ failures < MaxFailures
    /\ Active(t)
    /\ \/ Top(t).pc = "lookup" /\ ~Exists(Top(t).pkg)
       \/ Top(t).pc = "rewrite" /\ Top(t).left = FilesOf[Top(t).pkg]
    /\ Unwind(t)
    /\ failures' = failures + 1
    /\ unavailable' = unavailable \cup {stack[t][i].pkg : i \in DOMAIN stack[t]}
    /\ UNCHANGED <<payload, manifest, seen, clashed>>

ImportStep(t) ==
    \/ Lookup(t) \/ Fetch(t) \/ OpenPayload(t) \/ ClosePayload(t)
    \/ OpenManifest(t) \/ CloseManifest(t) \/ Descend(t) \/ CallReturns(t) \/ CallFails(t)

\* The process dies with its goroutines; the store is what is on disk.  The caller's
\* step counts the death.
StoreCrash ==
    /\ stack' = [t \in Thread |-> <<>>]
    /\ seen' = [t \in Thread |-> {}]
    /\ answer' = [t \in Thread |-> "none"]
    /\ UNCHANGED <<payload, manifest, clashed, unavailable>>

-----------------------------------------------------------------------------
(* Properties *)

StoreTypeOK ==
    /\ payload \in [File -> {"absent", "torn", "whole"}]
    /\ manifest \in [Package -> {"absent", "torn", "whole"}]
    /\ \A t \in Thread : \A i \in DOMAIN stack[t] : stack[t][i] \in Frame
    /\ seen \in [Thread -> SUBSET Package]
    /\ answer \in [Thread -> {"none", "ok", "error"}]
    /\ failures \in 0..MaxFailures
    /\ clashed \subseteq Package /\ unavailable \subseteq Package

\* A lookup that hits finds payloads that parse, although it only asks whether they
\* exist: the manifest is written after the last payload is whole, and a death in
\* between leaves no manifest.  Two goroutines that write one package lose this.
HitIsReadable == \A p \in Package \ clashed : Exists(p) => Complete(p)

\* "A package manifest is not complete until every declared dependency is durably
\* available in the same store" (semantic_package_import.go:799): holds when
\* ImportPackage has returned without error, of every package it came across.
ImportedIsClosed ==
    \A t \in Thread : answer[t] = "ok" =>
        \A p \in seen[t] : DepsOf[p] \subseteq seen[t] /\ (Complete(p) \/ p \in clashed)
=============================================================================
