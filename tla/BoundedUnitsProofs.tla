--------------------------- MODULE BoundedUnitsProofs ---------------------------
(****************************************************************************)
(* Theorems about BoundedUnits, for every number of units and workers and   *)
(* every set of failing units.                                              *)
(****************************************************************************)
EXTENDS BoundedUnits, FiniteSetTheorems, TLAPS

WorkerState == [pc : {"recv", "run", "done"}, unit : {NoError} \cup Unit]

\* The queue of runBoundedUnits has a capacity.
LEMMA CapacityType == Capacity \in Nat
<1>1. W \in Nat
  BY BoundedUnitsAssumption, FS_CardinalityType DEF W
<1>. QED  BY <1>1 DEF Capacity

-----------------------------------------------------------------------------
(* The inductive invariant *)

Queued(u)  == \E i \in 1..Len(jobs) : jobs[i] = u
Running(u) == \E w \in Worker : worker[w].pc = "run" /\ worker[w].unit = u

\* Every submitted unit is queued, with a worker, or was run.
Accounted == \A u \in Unit : u < next => u \in ran \/ Queued(u) \/ Running(u)

\* A worker that runs holds a unit; one that left had a reason.
WorkersHaveCause == \A w \in Worker :
    /\ worker[w].pc = "run" => worker[w].unit \in Unit
    /\ worker[w].pc = "done" => errs # NoError \/ cancelled \/ JobsEnded

\* A failure of fn stays in the buffer of errs.
FailuresKept == ran \cap bad # {} => errs # NoError

\* The channel is closed at the end of the units or on a cancellation, and the
\* call returns only after the last worker.
ClosedHasCause == jobsClosed => next > UnitCount \/ cancelled
ReturnIsLast   == verdict # "running" => jobsClosed /\ \A w \in Worker : worker[w].pc = "done"

SchedulerInv ==
    /\ TypeOK /\ Accounted /\ WorkersHaveCause /\ FailuresKept
    /\ ClosedHasCause /\ ReturnIsLast /\ NilMeansAll /\ ErrorIsReported

\* The scheduler begins with nothing submitted.
LEMMA SchedulerInit == Init => SchedulerInv
<1>. SUFFICES ASSUME Init PROVE SchedulerInv
  OBVIOUS
<1>1. TypeOK
  <2>1. jobs = <<>> /\ jobs \in Seq(Unit) /\ Len(jobs) <= Capacity
    BY CapacityType DEF Init
  <2>2. worker \in [Worker -> WorkerState]
    BY DEF Init, WorkerState
  <2>3. next \in 1..(UnitCount + 1)
    BY BoundedUnitsAssumption DEF Init
  <2>. QED  BY <2>1, <2>2, <2>3 DEF Init, TypeOK, WorkerState
<1>2. Accounted
  BY DEF Init, Accounted, Unit
<1>. QED
  BY <1>1, <1>2 DEF Init, SchedulerInv, WorkersHaveCause, FailuresKept, ClosedHasCause,
     ReturnIsLast, NilMeansAll, ErrorIsReported

\* What the queue holds after a send and after a receive.
LEMMA JobsAfterSend ==
    ASSUME jobs \in Seq(Unit), NEW u \in Unit, jobs' = Append(jobs, u)
    PROVE  /\ jobs' \in Seq(Unit) /\ Len(jobs') = Len(jobs) + 1
           /\ Queued(u)' /\ \A v : Queued(v) => Queued(v)'
<1>1. /\ jobs' \in Seq(Unit) /\ Len(jobs') = Len(jobs) + 1 /\ Len(jobs) \in Nat
      /\ jobs'[Len(jobs) + 1] = u /\ \A i \in 1..Len(jobs) : jobs'[i] = jobs[i]
  OBVIOUS
<1>. QED  BY <1>1 DEF Queued

\* A worker that receives takes the oldest unit; the others stay queued.
LEMMA JobsAfterReceive ==
    ASSUME jobs \in Seq(Unit), jobs # <<>>, jobs' = Tail(jobs)
    PROVE  /\ jobs' \in Seq(Unit) /\ Len(jobs') = Len(jobs) - 1 /\ Head(jobs) \in Unit
           /\ \A v : Queued(v) => Queued(v)' \/ v = Head(jobs)
<1>1. /\ jobs' \in Seq(Unit) /\ Len(jobs') = Len(jobs) - 1 /\ Len(jobs) \in Nat \ {0}
      /\ Head(jobs) \in Unit /\ Head(jobs) = jobs[1]
      /\ \A i \in 1..(Len(jobs) - 1) : jobs'[i] = jobs[i + 1]
  OBVIOUS
<1>2. ASSUME NEW v, Queued(v), v # Head(jobs) PROVE Queued(v)'
  <2>1. PICK i \in 1..Len(jobs) : jobs[i] = v
    BY <1>2 DEF Queued
  <2>2. i # 1
    BY <1>1, <1>2, <2>1
  <2>3. i - 1 \in 1..Len(jobs') /\ jobs'[i - 1] = v
    BY <1>1, <2>1, <2>2
  <2>. QED  BY <2>3 DEF Queued
<1>. QED  BY <1>1, <1>2

\* Every step of the submitter, the workers and the caller keeps the invariant.
LEMMA SchedulerStep == SchedulerInv /\ [Next]_vars => SchedulerInv'
<1>. SUFFICES ASSUME SchedulerInv, [Next]_vars PROVE SchedulerInv'
  OBVIOUS
<1>. USE DEF SchedulerInv
<1>a. Capacity \in Nat /\ UnitCount \in Nat \ {0}
  BY CapacityType, BoundedUnitsAssumption
<1>1. CASE Submit
  <2>1. PICK n \in Unit : n = next
    BY <1>1 DEF Submit
  <2>2. /\ jobs' \in Seq(Unit) /\ Len(jobs') = Len(jobs) + 1
        /\ Queued(n)' /\ \A v : Queued(v) => Queued(v)'
    BY <1>1, <2>1, JobsAfterSend DEF Submit, TypeOK
  <2>3. TypeOK'
    <3>1. next' \in 1..(UnitCount + 1)
      BY <1>1, <1>a DEF Submit, Unit
    <3>2. Len(jobs') <= Capacity
      BY <1>1, <1>a, <2>2 DEF Submit, HasRoom, TypeOK
    <3>. QED  BY <1>1, <2>2, <3>1, <3>2 DEF Submit, TypeOK
  <2>4. Accounted'
    <3>1. \A u \in Unit : u < next' => u < next \/ u = n
      BY <1>1, <2>1 DEF Submit, Unit
    <3>2. \A u : Running(u)' <=> Running(u)
      BY <1>1 DEF Submit, Running
    <3>. QED  BY <1>1, <2>2, <3>1, <3>2 DEF Submit, Accounted
  <2>5. WorkersHaveCause'
    <3>1. ~JobsEnded
      BY <1>1 DEF Submit, JobsEnded
    <3>. QED  BY <1>1, <3>1 DEF Submit, WorkersHaveCause
  <2>. QED
    BY <1>1, <2>3, <2>4, <2>5 DEF Submit, FailuresKept, ClosedHasCause, ReturnIsLast, NilMeansAll,
       ErrorIsReported
<1>2. CASE CloseJobs
  BY <1>2 DEF CloseJobs, SubmitEnds, TypeOK, Accounted, Queued, Running, WorkersHaveCause,
     JobsEnded, FailuresKept, ClosedHasCause, ReturnIsLast, NilMeansAll, ErrorIsReported
<1>3. ASSUME NEW w \in Worker, Take(w) PROVE SchedulerInv'
  <2>1. PICK h \in Unit : h = Head(jobs)
    BY <1>3, JobsAfterReceive DEF Take, TypeOK
  <2>2. /\ jobs' \in Seq(Unit) /\ Len(jobs') = Len(jobs) - 1
        /\ \A v : Queued(v) => Queued(v)' \/ v = h
    BY <1>3, <2>1, JobsAfterReceive DEF Take, TypeOK
  <2>3. /\ worker' = [worker EXCEPT ![w] = [pc |-> "run", unit |-> h]]
        /\ worker[w].pc = "recv" /\ jobs # <<>>
        /\ UNCHANGED <<bad, next, jobsClosed, errs, cancelled, ran, verdict>>
    BY <1>3, <2>1 DEF Take
  <2>4. /\ worker'[w].pc = "run" /\ worker'[w].unit = h
        /\ \A v \in Worker \ {w} : worker'[v] = worker[v]
    BY <2>3 DEF TypeOK
  <2>5. TypeOK'
    BY <1>a, <2>1, <2>3, <2>2 DEF TypeOK
  <2>6. Running(h)' /\ \A v \in Unit : Running(v) => Running(v)'
    BY <2>3, <2>4 DEF Running
  <2>7. Accounted'
    <3>1. \A u \in Unit : Queued(u) => Queued(u)' \/ Running(u)'
      BY <2>6, <2>2
    <3>. QED  BY <2>3, <2>6, <3>1 DEF Accounted
  <2>8. WorkersHaveCause'
    <3>1. ~JobsEnded
      BY <2>3 DEF JobsEnded
    <3>. QED  BY <2>1, <2>3, <2>4, <3>1 DEF WorkersHaveCause
  <2>. QED
    BY <2>3, <2>5, <2>7, <2>8 DEF FailuresKept, ClosedHasCause, ReturnIsLast, NilMeansAll,
       ErrorIsReported
<1>4. ASSUME NEW w \in Worker, Leave(w) PROVE SchedulerInv'
  <2>1. /\ worker[w].pc = "recv" /\ (cancelled \/ JobsEnded)
        /\ UNCHANGED <<bad, next, jobs, jobsClosed, errs, cancelled, ran, verdict>>
    BY <1>4 DEF Leave
  <2>2. /\ worker' \in [Worker -> WorkerState] /\ worker'[w].pc = "done"
        /\ \A v \in Worker \ {w} : worker'[v] = worker[v]
    BY <1>4 DEF Leave, TypeOK, WorkerState
  <2>3. \A u \in Unit : Running(u) => Running(u)'
    BY <2>1, <2>2 DEF Running
  <2>4. Accounted'
    <3>1. \A u : Queued(u)' <=> Queued(u)
      BY <2>1 DEF Queued
    <3>. QED  BY <2>1, <2>3, <3>1 DEF Accounted
  <2>5. WorkersHaveCause'
    BY <2>1, <2>2 DEF WorkersHaveCause, JobsEnded
  <2>. QED
    BY <2>1, <2>2, <2>4, <2>5 DEF TypeOK, WorkerState, FailuresKept, ClosedHasCause, ReturnIsLast,
       NilMeansAll, ErrorIsReported
<1>5. ASSUME NEW w \in Worker, Run(w) PROVE SchedulerInv'
  <2>. DEFINE u == worker[w].unit
  <2>1. /\ worker[w].pc = "run" /\ u \in Unit /\ ran' = ran \cup {u}
        /\ errs' = IF u \in bad /\ errs = NoError THEN u ELSE errs
        /\ UNCHANGED <<bad, next, jobs, jobsClosed, cancelled, verdict>>
    BY <1>5 DEF Run, OfferError, WorkersHaveCause
  <2>2. /\ worker'[w] = [pc |-> IF u \in bad THEN "done" ELSE "recv", unit |-> NoError]
        /\ \A v \in Worker \ {w} : worker'[v] = worker[v]
        /\ worker' \in [Worker -> WorkerState]
    BY <1>5 DEF Run, TypeOK, WorkerState
  <2>3. u # NoError /\ NoError \notin Unit
    BY <2>1 DEF Unit, NoError
  <2>4. \A v \in Unit : Running(v) => Running(v)' \/ v = u
    BY <2>2 DEF Running
  <2>. HIDE DEF u
  <2>5. TypeOK'
    BY <2>1, <2>2 DEF TypeOK, WorkerState
  <2>6. Accounted'
    BY <2>1, <2>4 DEF Accounted, Queued
  <2>7. WorkersHaveCause'
    BY <2>1, <2>2, <2>3 DEF WorkersHaveCause, JobsEnded
  <2>8. FailuresKept'
    BY <2>1, <2>3 DEF FailuresKept
  <2>9. verdict = "running"
    BY <2>1 DEF ReturnIsLast
  <2>. QED
    BY <2>1, <2>5, <2>6, <2>7, <2>8, <2>9 DEF ClosedHasCause, ReturnIsLast, NilMeansAll,
       ErrorIsReported
<1>6. CASE Return
  <2>1. /\ UNCHANGED <<bad, next, jobs, jobsClosed, errs, worker, cancelled, ran>>
        /\ jobsClosed /\ \A w \in Worker : worker[w].pc = "done"
        /\ verdict' = IF errs # NoError THEN "error" ELSE IF cancelled THEN "cancelled" ELSE "nil"
    BY <1>6 DEF Return
  <2>2. errs = NoError => ran \cap bad = {}
    BY DEF FailuresKept
  <2>3. errs = NoError /\ ~cancelled => ran = Unit
    <3>1. SUFFICES ASSUME errs = NoError, ~cancelled, NEW u \in Unit PROVE u \in ran
      BY DEF TypeOK
    <3>2. jobs = <<>>
      BY <2>1, <3>1, BoundedUnitsAssumption DEF WorkersHaveCause, JobsEnded
    <3>3. ~Queued(u) /\ ~Running(u)
      BY <2>1, <3>2 DEF Queued, Running
    <3>4. u < next
      BY <1>a, <2>1, <3>1 DEF ClosedHasCause, TypeOK, Unit
    <3>. QED  BY <3>3, <3>4 DEF Accounted
  <2>. QED
    BY <2>1, <2>2, <2>3 DEF TypeOK, Accounted, Queued, Running, WorkersHaveCause, JobsEnded,
       FailuresKept, ClosedHasCause, ReturnIsLast, NilMeansAll, ErrorIsReported
<1>7. CASE Cancel
  BY <1>7 DEF Cancel, TypeOK, Accounted, Queued, Running, WorkersHaveCause,
     JobsEnded, FailuresKept, ClosedHasCause, ReturnIsLast, NilMeansAll, ErrorIsReported
<1>8. CASE UNCHANGED vars
  BY <1>8 DEF vars, TypeOK, Accounted, Queued, Running, WorkersHaveCause,
     JobsEnded, FailuresKept, ClosedHasCause, ReturnIsLast, NilMeansAll, ErrorIsReported
<1>. QED  BY <1>1, <1>2, <1>3, <1>4, <1>5, <1>6, <1>7, <1>8 DEF Next

\* No submitted unit disappears, no error is overwritten and no worker leaves
\* without a reason.
THEOREM SchedulerIsInvariant == Spec => []SchedulerInv
  BY SchedulerInit, SchedulerStep, PTL DEF Spec

\* The scheduler stays in its domain: the queue never exceeds its capacity.
THEOREM SchedulerType == Spec => []TypeOK
<1>1. SchedulerInv => TypeOK
  BY DEF SchedulerInv
<1>. QED  BY <1>1, SchedulerIsInvariant, PTL

\* A nil result means that fn was called on every unit and failed on none.
THEOREM NilIsComplete == Spec => []NilMeansAll
<1>1. SchedulerInv => NilMeansAll
  BY DEF SchedulerInv
<1>. QED  BY <1>1, SchedulerIsInvariant, PTL

\* An error met by any worker is never hidden behind nil or a cancellation.
THEOREM ErrorsSurface == Spec => []ErrorIsReported
<1>1. SchedulerInv => ErrorIsReported
  BY DEF SchedulerInv
<1>. QED  BY <1>1, SchedulerIsInvariant, PTL
-----------------------------------------------------------------------------
(* When the call can get stuck *)

\* The error in the slot is that of a unit that was run and failed.
ErrorIsReal == errs # NoError => errs \in ran \cap bad

\* What the submitter, a worker and the caller need for their next step.
SubmitterCanMove == ~jobsClosed /\ ((next \in Unit /\ HasRoom) \/ SubmitEnds)
WorkerCanMove(w) ==
    \/ worker[w].pc = "recv" /\ (jobs # <<>> \/ cancelled \/ JobsEnded)
    \/ worker[w].pc = "run"
CallerCanMove    == verdict = "running" /\ jobsClosed /\ GaveUp = Worker
CanMove          == SubmitterCanMove \/ CallerCanMove \/ \E w \in Worker : WorkerCanMove(w)

\* The submitter waits at a full queue that nobody reads, and a unit has failed.
Deserted == GaveUp = Worker /\ next \in Unit /\ ~HasRoom /\ ran \cap bad # {}

\* The slot takes the error of the worker that offers it, and nothing else.
LEMMA ErrorIsRealStep == TypeOK /\ ErrorIsReal /\ [Next]_vars => ErrorIsReal'
<1>. SUFFICES ASSUME TypeOK, ErrorIsReal, [Next]_vars PROVE ErrorIsReal'
  OBVIOUS
<1>1. ASSUME NEW w \in Worker, Run(w) PROVE ErrorIsReal'
  BY <1>1 DEF Run, OfferError, ErrorIsReal
<1>2. CASE UNCHANGED <<bad, errs, ran>>
  BY <1>2 DEF ErrorIsReal
<1>3. CASE Submit \/ CloseJobs \/ Return \/ Cancel \/ UNCHANGED vars
  BY <1>2, <1>3 DEF Submit, CloseJobs, Return, Cancel, vars
<1>4. ASSUME NEW w \in Worker, Take(w) \/ Leave(w) PROVE ErrorIsReal'
  BY <1>2, <1>4 DEF Take, Leave
<1>. QED  BY <1>1, <1>3, <1>4 DEF Next

\* A call that cannot go on is deserted: nobody but the submitter is left, and
\* the queue it waits at is full.
LEMMA StuckIsDeserted ==
    ASSUME SchedulerInv, ErrorIsReal, verdict = "running", ~CanMove
    PROVE  Deserted
<1>. USE DEF SchedulerInv
<1>a. Capacity \in Nat /\ Capacity > 0
  <2>1. W \in Nat /\ W # 0
    BY BoundedUnitsAssumption, FS_CardinalityType, FS_EmptySet DEF W
  <2>. QED  BY <2>1 DEF Capacity
<1>1. \A w \in Worker : worker[w].pc \in {"recv", "run", "done"}
  BY DEF TypeOK
<1>2. ~jobsClosed
  <2>. SUFFICES ASSUME jobsClosed PROVE FALSE
    OBVIOUS
  <2>1. \A w \in Worker : worker[w].pc = "done"
    BY <1>1 DEF CanMove, WorkerCanMove, JobsEnded
  <2>. QED  BY <2>1 DEF CanMove, CallerCanMove, GaveUp
<1>3. next \in Unit /\ ~cancelled /\ ~HasRoom
  <2>1. ~SubmitEnds
    BY <1>2 DEF CanMove, SubmitterCanMove
  <2>2. next \in Unit
    BY <2>1, BoundedUnitsAssumption DEF SubmitEnds, TypeOK, Unit
  <2>. QED  BY <1>2, <2>1, <2>2 DEF CanMove, SubmitterCanMove, SubmitEnds
<1>4. jobs # <<>>
  BY <1>a, <1>3 DEF HasRoom
<1>5. \A w \in Worker : worker[w].pc = "done"
  BY <1>1, <1>4 DEF CanMove, WorkerCanMove
<1>6. ran \cap bad # {}
  <2>1. PICK w \in Worker : worker[w].pc = "done"
    BY <1>5, BoundedUnitsAssumption
  <2>2. errs # NoError
    BY <1>3, <1>4, <2>1 DEF WorkersHaveCause, JobsEnded
  <2>. QED  BY <2>2 DEF ErrorIsReal
<1>. QED  BY <1>3, <1>5, <1>6 DEF Deserted, GaveUp

\* The call gets stuck in one way only: every worker has left at a failing unit,
\* and the submitter waits at a full queue.  Until then, or until it returns, the
\* submitter, a worker or the caller can take its next step.
THEOREM StuckOnlyIfDeserted == Spec => [](verdict # "running" \/ CanMove \/ Deserted)
<1>1. Init => ErrorIsReal
  BY DEF Init, ErrorIsReal
<1>2. SchedulerInv /\ ErrorIsReal /\ [Next]_vars => ErrorIsReal'
  BY ErrorIsRealStep DEF SchedulerInv
<1>3. SchedulerInv /\ ErrorIsReal => verdict # "running" \/ CanMove \/ Deserted
  BY StuckIsDeserted
<1>. QED  BY <1>1, <1>2, <1>3, SchedulerIsInvariant, PTL DEF Spec

\* Units that all succeed never leave the call stuck: why the deserted submit loop
\* of the code has not been seen.
THEOREM GoodUnitsNeverBlock == Spec => [](bad = {} => verdict # "running" \/ CanMove)
<1>1. verdict # "running" \/ CanMove \/ Deserted => (bad = {} => verdict # "running" \/ CanMove)
  BY DEF Deserted
<1>. QED  BY <1>1, StuckOnlyIfDeserted, PTL
=============================================================================
