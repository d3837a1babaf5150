------------------------------ MODULE TaskRuntime ------------------------------
(****************************************************************************)
(* Concurrent tasks of the UAST interpreter: spawnUASTTask, AwaitExpr and   *)
(* the settling of tasks at the end of RunSemantic                          *)
(* (internal/backend/runtime_uast_primitives.go, runtime.go,                *)
(* runtime_windows_threads.go).                                             *)
(*                                                                          *)
(* Thread 0 is the caller of RunSemantic; a task is its position in the     *)
(* task registry.  The interpreted program is arbitrary: at every point a   *)
(* thread may print, spawn, await, use a channel, fail or end.  Text is     *)
(* reduced to the number of lines each thread printed, and the channels to  *)
(* one, which every thread knows, and to the number of values in it.        *)
(****************************************************************************)
EXTENDS Integers, FiniteSets

CONSTANTS
    TaskCount,   \* bound on the tasks a program spawns
    MaxOps,      \* bound on the operations all threads execute
    Capacity,    \* of a channel
    Windows      \* native threads with a handle to join, or goroutines

ASSUME TaskAssumption ==
    TaskCount \in Nat /\ MaxOps \in Nat /\ Capacity \in Nat /\ Windows \in BOOLEAN

Main   == 0
Task   == 1..TaskCount
Thread == Task \cup {Main}
NoTask == 0

VARIABLES
    pc,          \* where each thread is
    ops,         \* operations executed
    subject,     \* the task each thread is spawning, awaiting or sweeping
    registered,  \* len(*taskRegistry): tasks 1..registered exist
    declared,    \* tasks whose name a scope holds
    waitGroup,   \* the counter of st.tasks
    out,         \* out[t][u]: lines printed by u in the builder of t
    output,      \* task.output
    done,        \* tasks whose done channel is closed
    err,         \* task.err: "nil", "body", "start" or "join"
    consumed,    \* tasks whose outputOnce has fired
    joined,      \* nativeTaskControl.joined
    handle,      \* tasks with an open native handle
    channel,     \* [values: how many it holds, open: not closed]
    phase        \* of RunSemantic: "body", "sweep", then "ok" or "error"; or "panic"

taskVars == <<output, done, consumed>>
joinVars == <<joined, handle>>
vars == <<pc, ops, subject, registered, declared, waitGroup, out, taskVars,
          err, joinVars, channel, phase>>

Init ==
    /\ pc = [t \in Thread |-> IF t = Main THEN "run" ELSE "unborn"]
    /\ ops = 0
    /\ subject = [t \in Thread |-> NoTask]
    /\ registered = 0 /\ declared = {} /\ waitGroup = 0
    /\ out = [t \in Thread |-> [u \in Thread |-> 0]]
    /\ output = [t \in Task |-> [u \in Thread |-> 0]]
    /\ done = {} /\ consumed = {}
    /\ err = [t \in Task |-> "nil"]
    /\ joined = {} /\ handle = {}
    /\ channel = [values |-> 0, open |-> TRUE]
    /\ phase = "body"

Goto(t, l) == pc' = [pc EXCEPT ![t] = l]
\* A thread of a running program starts one more operation.
Operation(t) ==
    /\ pc[t] = "run" /\ ops < MaxOps
    /\ ops' = ops + 1

-----------------------------------------------------------------------------
(* The interpreted program *)

PrintLine(t) ==
    /\ Operation(t)
    /\ out' = [out EXCEPT ![t][t] = @ + 1]
    /\ UNCHANGED <<channel, pc, subject, registered, declared, waitGroup, taskVars, err,
                   joinVars, phase>>

AddLater == UNCHANGED waitGroup                                      \* mutant
Add      == waitGroup' = waitGroup + 1
DoneTwice == waitGroup' = waitGroup - 2                              \* mutant
Done      == waitGroup' = waitGroup - 1

\* registerTask and tasks.Add(1), in the parent, before the child can run.
Spawn(t) ==
    /\ Operation(t)
    /\ registered < TaskCount
    /\ registered' = registered + 1
    /\ Add
    /\ subject' = [subject EXCEPT ![t] = registered + 1]
    /\ Goto(t, "start")
    /\ UNCHANGED <<channel, declared, out, taskVars, err, joinVars, phase>>

\* startNativeTask succeeds: the child runs before its name is declared.
Start(t) ==
    LET c == subject[t] IN
    /\ pc[t] = "start"
    /\ pc' = [pc EXCEPT ![t] = "declare", ![c] = "run"]
    /\ handle' = IF Windows THEN handle \cup {c} ELSE handle
    /\ UNCHANGED <<channel, ops, subject, registered, declared, waitGroup, out, taskVars,
                   err, joined, phase>>

\* The parent's close(task.done); the mutant leaves awaiters waiting.
LeaveOpen(c)      == UNCHANGED done                                  \* mutant
CloseUnstarted(c) == done' = done \cup {c}

\* CreateThread fails: the parent settles the task itself.
StartFails(t) ==
    LET c == subject[t] IN
    /\ pc[t] = "start" /\ Windows
    /\ err' = [err EXCEPT ![c] = "start"]
    /\ Done
    /\ CloseUnstarted(c)
    /\ Goto(t, "declare")
    /\ UNCHANGED <<channel, ops, subject, registered, declared, out, output, consumed,
                   joinVars, phase>>

\* A spawn statement with a name declares it; a go_async expression does not.
Declare(t) ==
    /\ pc[t] = "declare"
    /\ declared' \in {declared, declared \cup {subject[t]}}
    /\ subject' = [subject EXCEPT ![t] = NoTask]
    /\ Goto(t, "run")
    /\ UNCHANGED <<channel, ops, registered, waitGroup, out, taskVars, err, joinVars, phase>>

Await(t) ==
    /\ Operation(t)
    /\ \E c \in declared : subject' = [subject EXCEPT ![t] = c]
    /\ Goto(t, "await")
    /\ UNCHANGED <<channel, registered, declared, waitGroup, out, taskVars, err, joinVars,
                   phase>>

\* A send waits for room, and a send on a closed channel panics; a receive waits for
\* a value or for the end of the channel; a channel is closed once.
BeginSend(t) ==
    /\ Operation(t)
    /\ Goto(t, "send")
    /\ UNCHANGED <<subject, registered, declared, waitGroup, out, taskVars, err, joinVars, channel, phase>>

SendFull == channel.open /\ channel.values = Capacity

SendValue(t) ==
    /\ pc[t] = "send" /\ ~SendFull
    /\ IF channel.open
       THEN /\ channel' = [channel EXCEPT !.values = @ + 1]
            /\ Goto(t, "run") /\ UNCHANGED phase
       ELSE /\ pc' = [u \in Thread |-> "dead"]
            /\ phase' = "panic" /\ UNCHANGED channel
    /\ UNCHANGED <<ops, subject, registered, declared, waitGroup, out, taskVars, err, joinVars>>

BeginReceive(t) ==
    /\ Operation(t)
    /\ Goto(t, "receive")
    /\ UNCHANGED <<subject, registered, declared, waitGroup, out, taskVars, err, joinVars, channel, phase>>

ReceiveEmpty == channel.open /\ channel.values = 0

ReceiveValue(t) ==
    /\ pc[t] = "receive" /\ ~ReceiveEmpty
    /\ channel' = [channel EXCEPT !.values = IF @ = 0 THEN 0 ELSE @ - 1]
    /\ Goto(t, "run")
    /\ UNCHANGED <<ops, subject, registered, declared, waitGroup, out, taskVars, err, joinVars, phase>>

CloseOp(t) ==
    /\ Operation(t)
    /\ channel' = [channel EXCEPT !.open = FALSE]
    /\ UNCHANGED <<pc, subject, registered, declared, waitGroup, out, taskVars, err, joinVars, phase>>

\* task.output: what its builder holds, the output it took from others included.
OwnLines(t) == [u \in Thread |-> IF u = t THEN out[t][t] ELSE 0]       \* mutant
Builder(t)  == out[t]

\* The body ends, with a value or with an error.  A task keeps its output.
EndBody(t) ==
    /\ pc[t] = "run"
    /\ IF t = Main
       THEN \E ok \in BOOLEAN :
              /\ Goto(t, IF ok THEN "wait" ELSE "returned")
              /\ phase' = IF ok THEN "body" ELSE "error"
              /\ UNCHANGED <<output, err>>
       ELSE /\ \E e \in {"nil", "body"} : err' = [err EXCEPT ![t] = e]
            /\ output' = [output EXCEPT ![t] = Builder(t)]
            /\ Goto(t, "close")
            /\ UNCHANGED phase
    /\ UNCHANGED <<channel, ops, subject, registered, declared, waitGroup, out, done,
                   consumed, joinVars>>

-----------------------------------------------------------------------------
(* The end of a task: close(task.done), then tasks.Done() *)

CloseDone(t) ==
    /\ pc[t] = "close"
    /\ done' = done \cup {t}
    /\ Goto(t, "leave")
    /\ UNCHANGED <<channel, ops, subject, registered, declared, waitGroup, out, output,
                   consumed, err, joinVars, phase>>

Leave(t) ==
    /\ pc[t] = "leave"
    /\ Done
    /\ Goto(t, "dead")
    /\ UNCHANGED <<channel, ops, subject, registered, declared, out, taskVars, err,
                   joinVars, phase>>

-----------------------------------------------------------------------------
(* waitRunUASTTask and consumeTaskOutput, by an awaiter or the final sweep *)

\* What the waiter does after task.done: a task that never started has no
\* native control.
WaitTask(t) ==
    LET c == subject[t] IN
    /\ pc[t] = "await"
    /\ c \in done
    /\ Goto(t, IF Windows /\ err[c] # "start" /\ c \notin joined THEN "join" ELSE "consume")
    /\ UNCHANGED <<channel, ops, subject, registered, declared, waitGroup, out, taskVars,
                   err, joinVars, phase>>

\* A failed join becomes the error of a task that had none.
JoinError(c) == err' = IF err[c] = "nil" THEN [err EXCEPT ![c] = "join"] ELSE err

\* WaitForSingleObject, which fails on a handle another waiter has closed.
JoinWait(t) ==
    LET c == subject[t] IN
    /\ pc[t] = "join"
    /\ IF c \in handle
       THEN pc[c] = "dead" /\ Goto(t, "closing") /\ UNCHANGED err
       ELSE JoinError(c) /\ Goto(t, "consume")
    /\ UNCHANGED <<channel, ops, subject, registered, declared, waitGroup, out, taskVars,
                   joinVars, phase>>

\* CloseHandle, which fails the second time.
JoinClose(t) ==
    LET c == subject[t] IN
    /\ pc[t] = "closing"
    /\ handle' = handle \ {c}
    /\ IF c \in handle THEN UNCHANGED err ELSE JoinError(c)
    /\ Goto(t, "joined")
    /\ UNCHANGED <<channel, ops, subject, registered, declared, waitGroup, out, taskVars,
                   joined, phase>>

\* t.joined = true, after the handle is closed.
JoinMark(t) ==
    /\ pc[t] = "joined"
    /\ joined' = joined \cup {subject[t]}
    /\ Goto(t, "consume")
    /\ UNCHANGED <<channel, ops, subject, registered, declared, waitGroup, out, taskVars,
                   err, handle, phase>>

Always(c) == TRUE                                                    \* mutant
Once(c)   == c \notin consumed

\* The builder of the waiter takes the output of the task, once; then an
\* awaiter goes on, fails with the task's error or catches it.
Consume(t) ==
    LET c == subject[t] IN
    /\ pc[t] = "consume"
    /\ IF Once(c)
       THEN out' = [out EXCEPT ![t] = [u \in Thread |-> out[t][u] + output[c][u]]]
       ELSE UNCHANGED out
    /\ consumed' = consumed \cup {c}
    /\ IF t = Main /\ phase = "sweep"
       THEN Goto(t, "sweep") /\ UNCHANGED subject
       ELSE Goto(t, "run") /\ subject' = [subject EXCEPT ![t] = NoTask]
    /\ UNCHANGED <<channel, ops, registered, declared, waitGroup, output, done, err, joinVars, phase>>

-----------------------------------------------------------------------------
(* The end of RunSemantic *)

\* tasks.Wait(), then the snapshot of the registry.
WaitAll ==
    /\ pc[Main] = "wait" /\ waitGroup = 0
    /\ Goto(Main, "sweep")
    /\ phase' = "sweep"
    /\ UNCHANGED <<channel, ops, subject, registered, declared, waitGroup, out, taskVars, err, joinVars>>

\* The next task of the snapshot, in registration order; then the return.
Sweep ==
    /\ pc[Main] = "sweep"
    /\ IF subject[Main] < registered
       THEN /\ subject' = [subject EXCEPT ![Main] = @ + 1]
            /\ Goto(Main, "await") /\ UNCHANGED phase
       ELSE Goto(Main, "returned") /\ phase' = "ok" /\ UNCHANGED subject
    /\ UNCHANGED <<channel, ops, registered, declared, waitGroup, out, taskVars, err, joinVars>>

ThreadStep(t) ==
    \/ PrintLine(t) \/ Spawn(t) \/ Start(t) \/ StartFails(t) \/ Declare(t)
    \/ Await(t) \/ BeginSend(t) \/ SendValue(t) \/ BeginReceive(t) \/ ReceiveValue(t)
    \/ CloseOp(t) \/ EndBody(t) \/ CloseDone(t) \/ Leave(t)
    \/ WaitTask(t) \/ JoinWait(t) \/ JoinClose(t) \/ JoinMark(t) \/ Consume(t)

Next == (\E t \in Thread : ThreadStep(t)) \/ WaitAll \/ Sweep

Spec == Init /\ [][Next]_vars
FairSpec ==
    /\ Spec
    /\ \A t \in Thread : WF_vars(ThreadStep(t))
    /\ WF_vars(WaitAll \/ Sweep)

-----------------------------------------------------------------------------
(* Properties *)

TypeOK ==
    /\ pc \in [Thread -> {"unborn", "run", "start", "declare", "await", "join", "closing",
                          "send", "receive", "joined", "consume", "close", "leave", "dead", "wait",
                          "sweep", "returned"}]
    /\ ops \in 0..MaxOps
    /\ subject \in [Thread -> 0..TaskCount]
    /\ registered \in 0..TaskCount
    /\ declared \subseteq 1..registered
    /\ waitGroup \in 0..TaskCount
    /\ out \in [Thread -> [Thread -> Nat]]
    /\ output \in [Task -> [Thread -> Nat]]
    /\ done \subseteq 1..registered /\ consumed \subseteq done
    /\ err \in [Task -> {"nil", "body", "start", "join"}]
    /\ joined \subseteq Task /\ handle \subseteq Task
    /\ channel \in [values : 0..Capacity, open : BOOLEAN]
    /\ phase \in {"body", "sweep", "ok", "error", "panic"}

\* A run that succeeds returns every line that any of its threads printed, and
\* returns it once, whoever awaited whom and in whatever order tasks ended.
OutputExactlyOnce ==
    phase = "ok" => \A t \in Thread : out[Main][t] = out[t][t]

\* From the final sweep on nothing is running any more: the wait group never
\* touches zero while a task could still spawn another.
QuiescentSweep ==
    phase \in {"sweep", "ok"} =>
        \A t \in 1..registered : pc[t] = "dead" \/ err[t] = "start"

\* What a task printed is settled when anyone reads it.
ReadersSeeFinalOutput ==
    \A t \in Thread : pc[t] = "consume" /\ err[subject[t]] # "start" =>
        output[subject[t]] = out[subject[t]]

\* Threads that wait for each other in a circle: each awaits a task that is
\* itself waiting in the set.
Stuck ==
    \E S \in SUBSET Task : S # {} /\ \A t \in S : pc[t] = "await" /\ subject[t] \in S

\* Nobody can go on, and somebody is at the channel.
Waits(t) ==
    \/ pc[t] = "await" /\ subject[t] \notin done
    \/ pc[t] = "send" /\ SendFull
    \/ pc[t] = "receive" /\ ReceiveEmpty
    \/ pc[t] = "wait" /\ waitGroup # 0
Blocked ==
    /\ \E t \in Thread : pc[t] \in {"send", "receive"}
    /\ \A t \in Thread : Waits(t) \/ pc[t] \in {"unborn", "dead"}

\* RunSemantic returns, or ends the process by a send on a closed channel, unless the
\* program's awaits form a circle or its threads all wait at the channel or for each
\* other; a task that never started, or ended in an error, keeps nobody waiting.
Settles == <>(phase \in {"ok", "error", "panic"} \/ Stuck \/ Blocked)

\* runtime_windows_threads_test.go:27 "native thread handle was not idempotently
\* closed": a second join of a task does not turn its success into an error.
JoinIsIdempotent == \A t \in Task : err[t] # "join"
=============================================================================
