------------------------------ MODULE BoundedUnits ------------------------------
(****************************************************************************)
(* runBoundedUnits (internal/backend/streaming_lowering.go): the bounded    *)
(* scheduler that CompileMachine runs over its streaming units.  A worker   *)
(* leaves at the first error it meets and nothing is cancelled by it.       *)
(****************************************************************************)
EXTENDS Integers, Sequences, FiniteSets

CONSTANTS
    UnitCount,     \* len(units)
    Worker,        \* the worker goroutines, after the clamp to len(units)
    Cancellable    \* may the context end (context.Background() never does)

Unit     == 1..UnitCount
W        == Cardinality(Worker)
Capacity == 2 * W                       \* cap(jobs)

ASSUME BoundedUnitsAssumption ==
    /\ UnitCount \in Nat \ {0}
    /\ IsFiniteSet(Worker) /\ Worker # {} /\ W <= UnitCount
    /\ Cancellable \in BOOLEAN

NoError == 0

VARIABLES
    bad,        \* the units on which fn returns an error
    next,       \* the unit the submitter is about to send
    jobs,       \* contents of the jobs channel
    jobsClosed,
    errs,       \* the buffered error, or NoError: cap(errs) is 1
    worker,     \* [pc, unit] of each worker
    cancelled,  \* ctx.Done() is closed
    ran,        \* the units fn has been called on
    verdict     \* "running", or what runBoundedUnits returned

vars == <<bad, next, jobs, jobsClosed, errs, worker, cancelled, ran, verdict>>

Init ==
    /\ bad \in SUBSET Unit
    /\ next = 1
    /\ jobs = <<>> /\ jobsClosed = FALSE
    /\ errs = NoError
    /\ worker = [w \in Worker |-> [pc |-> "recv", unit |-> NoError]]
    /\ cancelled = FALSE
    /\ ran = {}
    /\ verdict = "running"

HasRoomOffByOne == Len(jobs) <= Capacity                            \* mutant
HasRoom         == Len(jobs) < Capacity

\* The submit loop: a select between ctx.Done() and the send.
Submit ==
    /\ next \in Unit /\ ~jobsClosed
    /\ HasRoom
    /\ jobs' = Append(jobs, next)
    /\ next' = next + 1
    /\ UNCHANGED <<bad, jobsClosed, errs, worker, cancelled, ran, verdict>>

SubmitEndsEarly == next >= UnitCount \/ cancelled                   \* mutant
SubmitEnds      == next > UnitCount \/ cancelled

CloseJobs ==
    /\ ~jobsClosed
    /\ SubmitEnds
    /\ jobsClosed' = TRUE
    /\ UNCHANGED <<bad, next, jobs, errs, worker, cancelled, ran, verdict>>

Take(w) ==
    /\ worker[w].pc = "recv"
    /\ jobs # <<>>
    /\ worker' = [worker EXCEPT ![w] = [pc |-> "run", unit |-> Head(jobs)]]
    /\ jobs' = Tail(jobs)
    /\ UNCHANGED <<bad, next, jobsClosed, errs, cancelled, ran, verdict>>

IgnoreClose == FALSE                                                \* mutant
JobsEnded   == jobs = <<>> /\ jobsClosed

\* The select picks ctx.Done(), or finds jobs closed and empty.
Leave(w) ==
    /\ worker[w].pc = "recv"
    /\ cancelled \/ JobsEnded
    /\ worker' = [worker EXCEPT ![w].pc = "done"]
    /\ UNCHANGED <<bad, next, jobs, jobsClosed, errs, cancelled, ran, verdict>>

\* The error is offered to errs without blocking; the worker leaves either way.
ForgetError(u) == UNCHANGED errs                                    \* mutant
OfferError(u)  == errs' = IF errs = NoError THEN u ELSE errs

Run(w) ==
    LET u == worker[w].unit IN
    /\ worker[w].pc = "run"
    /\ ran' = ran \cup {u}
    /\ IF u \in bad THEN OfferError(u) ELSE UNCHANGED errs
    /\ worker' = [worker EXCEPT ![w] =
           [pc |-> IF u \in bad THEN "done" ELSE "recv", unit |-> NoError]]
    /\ UNCHANGED <<bad, next, jobs, jobsClosed, cancelled, verdict>>

\* wg.Wait(), then the buffered error, then ctx.Err().
Return ==
    /\ verdict = "running"
    /\ jobsClosed /\ \A w \in Worker : worker[w].pc = "done"
    /\ verdict' = IF errs # NoError THEN "error" ELSE IF cancelled THEN "cancelled" ELSE "nil"
    /\ UNCHANGED <<bad, next, jobs, jobsClosed, errs, worker, cancelled, ran>>

\* The owner of the context ends it.
Cancel ==
    /\ Cancellable /\ ~cancelled
    /\ cancelled' = TRUE
    /\ UNCHANGED <<bad, next, jobs, jobsClosed, errs, worker, ran, verdict>>

Next ==
    \/ Submit \/ CloseJobs \/ Return \/ Cancel
    \/ \E w \in Worker : Take(w) \/ Leave(w) \/ Run(w)

Spec == Init /\ [][Next]_vars
FairSpec ==
    /\ Spec
    /\ WF_vars(Submit \/ CloseJobs \/ Return)
    /\ \A w \in Worker : WF_vars(Take(w) \/ Leave(w) \/ Run(w))

-----------------------------------------------------------------------------
(* Properties *)

TypeOK ==
    /\ bad \subseteq Unit
    /\ next \in 1..(UnitCount + 1)
    /\ jobs \in Seq(Unit) /\ Len(jobs) <= Capacity
    /\ jobsClosed \in BOOLEAN
    /\ errs \in {NoError} \cup Unit
    /\ worker \in [Worker -> [pc : {"recv", "run", "done"}, unit : {NoError} \cup Unit]]
    /\ cancelled \in BOOLEAN
    /\ ran \subseteq Unit
    /\ verdict \in {"running", "nil", "error", "cancelled"}

\* A nil return means fn was called on every unit and failed on none.
NilMeansAll == verdict = "nil" => ran = Unit /\ bad = {}

\* An error met by any worker is what the call returns, even when a
\* cancellation or the errors of other workers race with it.
ErrorIsReported ==
    verdict \in {"nil", "cancelled"} => ran \cap bad = {}

GaveUp == {w \in Worker : worker[w].pc = "done"}

\* The call returns unless every worker has left and units remain to be sent.
ReturnsUnlessDeserted ==
    <>(verdict # "running" \/ (GaveUp = Worker /\ next \in Unit /\ ~cancelled))
=============================================================================
