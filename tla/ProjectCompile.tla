---------------------------- MODULE ProjectCompile ----------------------------
(****************************************************************************)
(* What CompileSemanticProject promises its caller about the units, with no *)
(* goroutines: reports arrive in any order, each unit at most once; the     *)
(* call links only when every unit has reported fragments, gives up early   *)
(* only when a failure has been reported, and finds two definitions of a    *)
(* symbol only in what units have reported.                                 *)
(****************************************************************************)
CONSTANT Unit
VARIABLES report, verdict

Failure == {"read", "parse", "compile"}
Verdict == {"entryNotFound", "entryDuplicate", "unitError", "clash", "linked", "linkError"}

Init ==
    /\ report = [u \in Unit |-> "none"]
    /\ verdict = "running"

SomeFailure  == \E u \in Unit : report[u] \in Failure
AllDelivered == \A u \in Unit : report[u] = "nil"
AllReported  == \A u \in Unit : report[u] # "none"

\* A unit reports, once.
Record(u, e) ==
    /\ verdict = "running"
    /\ report[u] = "none"
    /\ report' = [report EXCEPT ![u] = e]
    /\ UNCHANGED verdict

Return(v) ==
    /\ verdict = "running"
    /\ v \in {"linked", "linkError"} => AllDelivered
    /\ v = "unitError" => SomeFailure
    /\ v = "clash" => \E u \in Unit : report[u] = "nil"
    /\ v \in {"entryNotFound", "entryDuplicate", "clash"} => AllReported \/ SomeFailure
    /\ verdict' = v
    /\ UNCHANGED report

\* The process may end, even after the return, but not without a failed unit.
Crash ==
    /\ verdict # "panicked"
    /\ SomeFailure
    /\ verdict' = "panicked"
    /\ UNCHANGED report

Next ==
    \/ \E u \in Unit, e \in Failure \cup {"nil"} : Record(u, e)
    \/ \E v \in Verdict : Return(v)
    \/ Crash

Spec == Init /\ [][Next]_<<report, verdict>>
=============================================================================
