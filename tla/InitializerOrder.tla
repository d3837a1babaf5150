----------------------------- MODULE InitializerOrder -----------------------------
(****************************************************************************)
(* The order in which a linked program runs the initializers of its units:  *)
(* orderedProjectInitializerUnits and orderedProjectInitializerSummaries    *)
(* (internal/backend/semantic_executable_closure.go).  Units and functions  *)
(* are numbers in the order of their identifiers, by which the code sorts.  *)
(****************************************************************************)
EXTENDS Integers, Sequences, FiniteSets, FiniteSetsExt, SequencesExt

CONSTANTS
    UnitCount,
    Function,      \* the functions of all units, missing and external ones included
    Initializers   \* [Unit -> Seq(Function)]: by (Order, ID)

Unit == 1..UnitCount

ASSUME InitializerOrderAssumption ==
    /\ UnitCount \in Nat \ {0} /\ Function \subseteq Nat
    /\ Initializers \in [Unit -> Seq(Function)]

Ascending(S) == SetToSortSeq(S, <)

\* Depth first, postorder: v is put after what it depends on, unless that is being
\* visited (open).  deps[v] are taken in order, and so are the roots.
Postorder(roots, deps) ==
    LET Node == DOMAIN deps
        visit[list \in Seq(Node), open \in SUBSET Node, out \in Seq(Node)] ==
            IF list = <<>> THEN out
            ELSE LET v == Head(list) IN
                 visit[Tail(list), open, IF v \in open \/ Contains(out, v) THEN out
                                         ELSE Append(visit[deps[v], open \cup {v}, out], v)]
    IN  visit[roots, {}, <<>>]

-----------------------------------------------------------------------------
(* orderedProjectInitializerUnits *)

\* strongConnect for every unit that has no index yet: Tarjan's components, each when
\* its first unit is left.  from is the caller's unit, or 0.
Components(units, deps) ==
    LET State == [index : [units -> Nat], low : [units -> Nat], stack : Seq(units),
                  found : Seq(SUBSET units), next : Nat]
        enter[t \in State, v \in units] ==
            [t EXCEPT !.index[v] = t.next, !.low[v] = t.next, !.next = @ + 1, !.stack = Append(@, v)]
        pop[t \in State, at \in Nat] ==
            [t EXCEPT !.stack = SubSeq(@, 1, at - 1),
                      !.found = Append(@, ToSet(SubSeq(t.stack, at, Len(t.stack))))]
        leave[t \in State, v \in units] ==
            IF t.low[v] # t.index[v] THEN t
            ELSE pop[t, CHOOSE i \in DOMAIN t.stack : t.stack[i] = v]
        lower[t \in State, from \in units \cup {0}, n \in Nat] ==
            IF from # 0 /\ n < t.low[from] THEN [t EXCEPT !.low[from] = n] ELSE t
        return[t \in State, v \in units, from \in units \cup {0}] == lower[t, from, t.low[v]]
        connect[list \in Seq(units), from \in units \cup {0}, t \in State] ==
            IF list = <<>> THEN t
            ELSE LET v == Head(list) IN
                 connect[Tail(list), from,
                     IF t.index[v] = 0
                     THEN return[leave[connect[Ascending(deps[v]), v, enter[t, v]], v], v, from]
                     ELSE IF Contains(t.stack, v) THEN lower[t, from, t.index[v]] ELSE t]
    IN  connect[Ascending(units), 0,
                [index |-> [v \in units |-> 0], low |-> [v \in units |-> 0], stack |-> <<>>,
                 found |-> <<>>, next |-> 1]].found

\* Components are named by their first unit, which also orders them; between them the
\* dependencies decide.
Named(components) == [k \in {Min(ToSet(c)) : c \in components} |-> CHOOSE c \in components : c[1] = k]
SortedComponents(found) == {Ascending(found[i]) : i \in DOMAIN found}

NoDeps(named, deps) == [k \in DOMAIN named |-> <<>>]                 \* mutant
ComponentDeps(named, deps) ==
    [k \in DOMAIN named |->
        Ascending({m \in DOMAIN named \ {k} :
                       \E v \in ToSet(named[k]), w \in ToSet(named[m]) : w \in deps[v]})]

\* order: of the components, by name.
UnitOrder(named, order) == FlattenSeq([i \in DOMAIN order |-> named[order[i]]])

-----------------------------------------------------------------------------
(* orderedProjectInitializerSummaries *)

InitializersIn(order) == FlattenSeq([i \in DOMAIN order |-> Initializers[order[i]]])

\* before[f]: the initializers of its unit that f declares as dependencies.
InitializerDeps(all, before) ==
    [f \in ToSet(all) |-> SelectSeq(Ascending(before[f]), LAMBDA g : Contains(all, g))]
===================================================================================
