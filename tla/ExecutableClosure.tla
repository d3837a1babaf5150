---------------------------- MODULE ExecutableClosure ----------------------------
(****************************************************************************)
(* BuildExecutableClosure (internal/backend/semantic_executable_closure.go):*)
(* from the entry function and the summaries of all units, the functions    *)
(* and units an executable needs and the initializers it runs, in order.    *)
(* A worklist of functions is emptied, units are closed under imports, the  *)
(* initializers of the units are put on the worklist, and so on until       *)
(* nothing changes.  The summaries are chosen in the initial state and stay.*)
(****************************************************************************)
EXTENDS InitializerOrder

CONSTANTS
    Entry,         \* the entry function
    Kind,          \* [Function -> {"body", "declared", "outside", "missing"}]; outside: a
                   \* function of another library, or of the runtime
    UnitOf,        \* [Function -> Unit], of those with a definition or declaration
    MayCall,       \* pairs of functions of which the summaries hold any subset,
    MayRefer,      \* pairs of a function and the unit of a global,
    MayPrecede,    \* pairs of initializers of one unit, the second before the first,
    MayImport,     \* pairs of units, the first imports the second
    MayShare       \* sets of two units of one package, or of one module

ASSUME ExecutableClosureAssumption ==
    /\ Entry \in Function /\ 0 \notin Function
    /\ Kind \in [Function -> {"body", "declared", "outside", "missing"}]
    /\ UnitOf \in [Function -> Unit]
    /\ \A u \in Unit : \A i \in DOMAIN Initializers[u] : UnitOf[Initializers[u][i]] = u
    /\ MayCall \subseteq Function \X Function /\ MayRefer \subseteq Function \X Unit
    /\ MayPrecede \subseteq Function \X Function
    /\ MayImport \subseteq Unit \X Unit /\ MayShare \subseteq SUBSET Unit

VARIABLES
    calls, refers, precedes, imports, share,   \* the summaries
    phase,
    queue,        \* functions to visit, in order
    queued, visited,
    units,        \* unitSet
    selected,     \* initializerSet
    order,        \* closure.InitializerFunctions
    round,        \* initializers this round has still to look at
    changed,      \* of the outer loop
    unresolved    \* closure.Unresolved: pairs of a caller and what it needs

input == <<calls, refers, precedes, imports, share>>
vars  == <<input, phase, queue, queued, visited, units, selected, order, round, changed, unresolved>>

AnInitializer   == 0                          \* the caller "<initializer>"
OfKind(S, k)    == {f \in S : Kind[f] = k}
HasCode(f)      == Kind[f] \in {"body", "declared"}                \* mutant
HasBody(f)      == Kind[f] = "body"
Resolves(f)     == Kind[f] \in {"body", "declared"}
Calls(f)        == {pair[2] : pair \in {c \in calls : c[1] = f}}
Refers(f)       == {pair[2] : pair \in {c \in refers : c[1] = f}}
Before(f)       == {pair[2] : pair \in {c \in precedes : c[1] = f}}
ImportsOf(u)    == {pair[2] : pair \in {c \in imports : c[1] = u}}

Init ==
    /\ calls \in SUBSET MayCall /\ refers \in SUBSET MayRefer
    /\ precedes \in SUBSET MayPrecede /\ imports \in SUBSET MayImport
    /\ share \in SUBSET MayShare
    /\ phase = "calls"
    /\ queue = <<Entry>> /\ queued = {Entry} /\ visited = {}
    /\ units = {} /\ selected = {} /\ order = <<>> /\ round = <<>>
    /\ changed = FALSE
    /\ unresolved = {}

-----------------------------------------------------------------------------

\* closeProjectPackageUnits: units of the same package or module, and imported units.
Neighbours(S) == {v \in Unit : \E u \in S : {u, v} \in share \/ v \in ImportsOf(u)}
CloseUnits(S) ==
    LET grow[T \in SUBSET Unit] == IF Neighbours(T) \subseteq T THEN T ELSE grow[T \cup Neighbours(T)]
    IN  grow[S]

\* The head of the worklist: what it calls joins the worklist unless it is known, the
\* units of the globals it refers to are needed.  A declaration without a body makes
\* its unit needed and the closure unresolved.
Visit(f, known) ==
    /\ visited' = visited \cup {f}
    /\ IF HasBody(f)
       THEN /\ units' = units \cup {UnitOf[f]} \cup Refers(f)
            /\ queue' = Tail(queue) \o Ascending({g \in Calls(f) \ known : Resolves(g)})
            /\ unresolved' = unresolved \cup ({f} \X OfKind(Calls(f), "missing"))
       ELSE /\ units' = units \cup {UnitOf[f]}
            /\ queue' = Tail(queue)
            /\ unresolved' = unresolved \cup {<<f, f>>}

\* The first loop, from the entry.
Known == queued \cup visited

VisitCalls ==
    /\ phase = "calls" /\ queue # <<>>
    /\ Visit(Head(queue), Known)
    /\ queued' = queued \cup ToSet(queue')
    /\ UNCHANGED <<input, phase, selected, order, round, changed>>

CallsEnd ==
    /\ phase = "calls" /\ queue = <<>>
    /\ units' = CloseUnits(units)
    /\ phase' = "initializers"
    /\ UNCHANGED <<input, queue, queued, visited, selected, order, round, changed, unresolved>>

\* A round over the initializers of all units reached by now, those of earlier rounds
\* skipped ...
BeginRound ==
    /\ phase = "initializers"
    \* \E x \in {e} gives e a name, and TLC evaluates it once
    /\ \E deps  \in {[u \in units |-> (ImportsOf(u) \cap units) \ {u}]} :
       \E found \in {SortedComponents(Components(units, deps))} :
       \E named \in {Named(found)} :
       \E needs \in {ComponentDeps(named, deps)} :
       \E names \in {Postorder(Ascending(DOMAIN named), needs)} :
       \E line  \in {UnitOrder(named, names)} :
       \E all   \in {InitializersIn(line)} :
       \E inner \in {InitializerDeps(all, [f \in Function |-> Before(f)])} :
           round' = Postorder(all, inner)
    /\ changed' = FALSE
    /\ phase' = "round"
    /\ UNCHANGED <<input, queue, queued, visited, units, selected, order, unresolved>>

\* ... each put on the worklist with what it depends on.
SelectInitializer ==
    /\ phase = "round" /\ round # <<>>
    /\ round' = Tail(round)
    /\ LET f == Head(round) IN
       CASE f \in selected -> UNCHANGED <<queue, queued, selected, order, changed, unresolved>>
         [] f \notin selected /\ ~HasBody(f) ->
               /\ selected' = selected \cup {f}
               /\ unresolved' = unresolved \cup {<<AnInitializer, f>>}
               /\ UNCHANGED <<queue, queued, order, changed>>
         [] f \notin selected /\ HasBody(f) ->
               /\ selected' = selected \cup {f}
               /\ order' = Append(order, f)
               /\ queue' = queue \o SelectSeq(<<f>> \o Ascending(Before(f) \ {f}), LAMBDA g : g \notin Known)
               /\ queued' = queued \cup {f} \cup Before(f)
               /\ changed' = TRUE
               /\ UNCHANGED unresolved
    /\ UNCHANGED <<input, phase, visited, units>>

\* The second loop does not look at queued: a function may be in the worklist twice.
Drain ==
    /\ phase = "round" /\ round = <<>> /\ queue # <<>>
    /\ IF Head(queue) \in visited
       THEN queue' = Tail(queue) /\ UNCHANGED <<visited, units, unresolved>>
       ELSE Visit(Head(queue), {})
    /\ UNCHANGED <<input, phase, queued, selected, order, round, changed>>

\* Another round if an initializer was selected, or if the imports of the units reached
\* by now add a unit.
OneRound(closed)     == closed # units                               \* mutant
Endless(closed)      == TRUE                                         \* mutant
AnotherRound(closed) == changed \/ closed # units

RoundEnds ==
    LET closed == CloseUnits(units) IN
    /\ phase = "round" /\ round = <<>> /\ queue = <<>>
    /\ units' = closed
    /\ phase' = IF AnotherRound(closed) THEN "initializers" ELSE "done"
    /\ UNCHANGED <<input, queue, queued, visited, selected, order, round, changed, unresolved>>

Next == VisitCalls \/ CallsEnd \/ BeginRound \/ SelectInitializer \/ Drain \/ RoundEnds

Spec     == Init /\ [][Next]_vars
FairSpec == Spec /\ WF_vars(Next)

-----------------------------------------------------------------------------
(* Properties *)

TypeOK ==
    /\ calls \subseteq MayCall /\ refers \subseteq MayRefer /\ precedes \subseteq MayPrecede
    /\ imports \subseteq MayImport /\ share \subseteq MayShare
    /\ phase \in {"calls", "initializers", "round", "done"}
    /\ queue \in Seq({f \in Function : Resolves(f)})
    /\ queued \subseteq Function /\ visited \subseteq Function
    /\ units \subseteq Unit /\ selected \subseteq Function
    /\ order \in Seq(OfKind(Function, "body"))
    /\ changed \in BOOLEAN
    /\ round \in Seq(Function)
    /\ unresolved \subseteq (Function \cup {AnInitializer}) \X Function

\* What an executable needs, as reachability in one graph whose nodes are functions
\* and units: <<"f", f>> and <<"u", u>>.
Successors(n) ==
    IF n[1] = "f"
    THEN {<<"f", g>> : g \in {g \in Calls(n[2]) : Resolves(g) /\ HasBody(n[2])}}
         \cup {<<"u", UnitOf[n[2]]>>}
         \cup {<<"u", u>> : u \in {u \in Refers(n[2]) : HasBody(n[2])}}
    ELSE {<<"u", u>> : u \in Neighbours({n[2]})}
         \cup {<<"f", f>> : f \in {f \in ToSet(Initializers[n[2]]) : HasBody(f)}}
Needed ==
    LET reach[S \in SUBSET ({"f"} \X Function \cup {"u"} \X Unit)] ==
            LET more == S \cup UNION {Successors(n) : n \in S} IN IF more = S THEN S ELSE reach[more]
    IN  reach[{<<"f", Entry>>}]

\* The two worklists, the closure of the units and the rounds over the initializers
\* together compute exactly the functions and units that are reachable, an initializer
\* of a unit reached only through another initializer included; no round is missing
\* and the executable is refused exactly if something reachable has no definition.
ClosureIsReachability ==
    phase = "done" =>
        /\ visited = {f \in Function : <<"f", f>> \in Needed}
        /\ units = {u \in Unit : <<"u", u>> \in Needed}
        /\ selected = UNION {ToSet(Initializers[u]) : u \in units}
        /\ unresolved = {} <=>
              /\ \A f \in visited \cup selected : HasBody(f)
              /\ \A f \in visited : OfKind(Calls(f), "missing") = {}

ImportedFrom(u) ==
    LET reach[S \in SUBSET Unit] ==
            LET more == S \cup UNION {ImportsOf(v) : v \in S} IN IF more = S THEN S ELSE reach[more]
    IN  reach[ImportsOf(u)]

\* Whatever round selected them: every initializer runs once, those of an imported unit
\* before those of its importer unless each imports the other, and within a unit an
\* initializer after the one it is declared to depend on unless each does.
InitializersInOrder ==
    \A i, j \in DOMAIN order : i < j =>
        LET f == order[i]  g == order[j]
            u == UnitOf[f] v == UnitOf[g]
        IN  /\ f # g
            /\ u # v => v \notin ImportedFrom(u) \/ u \in ImportedFrom(v)
            /\ g \in Before(f) => f \in Before(g)

\* The loops end.
Terminates == <>(phase = "done")
=================================================================================
