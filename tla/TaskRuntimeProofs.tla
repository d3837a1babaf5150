--------------------------- MODULE TaskRuntimeProofs ---------------------------
(****************************************************************************)
(* Theorems about TaskRuntime, for every number of tasks and operations,    *)
(* every capacity of the channel, and both kinds of threads.                *)
(****************************************************************************)
EXTENDS TaskRuntime, FiniteSetTheorems, TLAPS

-----------------------------------------------------------------------------
(* The inductive invariant *)

NoLines == [u \in Thread |-> 0]
Waiting == {"await", "join", "closing", "joined", "consume"}

\* Where the caller can be in each phase.
MainInv ==
    /\ pc[Main] \notin {"unborn", "close", "leave", "dead"}
    /\ pc[Main] \in {"run", "wait", "send", "receive"} => subject[Main] = NoTask
    /\ phase = "body" => pc[Main] \notin {"sweep", "returned"}
    /\ phase = "sweep" => pc[Main] \in Waiting \cup {"sweep"}
    /\ phase \in {"ok", "error"} => pc[Main] = "returned"
    /\ \A t \in Task : pc[t] \notin {"wait", "sweep", "returned"}

\* A task that has not run has printed nothing; one whose thread could not be
\* started never runs.
UnbornInv == \A t \in Task :
    /\ t > registered => pc[t] = "unborn" /\ err[t] = "nil"
    /\ pc[t] = "unborn" => out[t] = NoLines /\ output[t] = NoLines
    /\ err[t] = "start" => pc[t] = "unborn"

\* A thread that starts a task is the only one to do so.
StartInv == \A t \in Thread : pc[t] = "start" =>
    /\ subject[t] \in 1..registered
    /\ pc[subject[t]] = "unborn" /\ err[subject[t]] = "nil"
    /\ \A u \in Thread : pc[u] = "start" /\ subject[u] = subject[t] => u = t

\* A waiter has a task, and from its done channel on a settled one.
SubjectInv == \A t \in Thread :
    /\ pc[t] \in Waiting \cup {"declare"} => subject[t] \in 1..registered
    /\ pc[t] \in Waiting \ {"await"} => subject[t] \in done

\* A task that is done prints no more, and its output is what its builder holds.
DoneInv ==
    /\ \A c \in done : /\ pc[c] \in {"leave", "dead"} \/ err[c] = "start"
                       /\ output[c] = out[c]
    /\ \A c \in Task : pc[c] = "close" => output[c] = out[c]

\* The wait group counts the tasks that are to run, run, or are about to leave.
Live     == {t \in 1..registered : pc[t] # "dead" /\ err[t] # "start"}
CountInv == waitGroup = Cardinality(Live)

\* The lines of each thread are in exactly one builder among those nobody has
\* taken over yet: its own, until it is consumed.
LinesOf(u, h) ==
    /\ u \notin consumed => h = u
    /\ \A t \in Thread \ consumed : out[t][u] = IF t = h THEN out[u][u] ELSE 0
LinesInv == \A u \in Thread : \E h \in Thread \ consumed : LinesOf(u, h)

\* The final sweep leaves no task behind.
SweepInv ==
    /\ phase = "sweep" => \A c \in 1..registered :
          c < subject[Main] \/ (c = subject[Main] /\ pc[Main] = "sweep") => c \in consumed
    /\ phase = "ok" => 1..registered \subseteq consumed

RunInv ==
    /\ phase # "panic"
    /\ MainInv /\ UnbornInv /\ StartInv /\ SubjectInv /\ DoneInv
    /\ CountInv /\ QuiescentSweep /\ LinesInv /\ SweepInv

\* A send on a closed channel has ended the process.
Crashed == phase = "panic" /\ \A t \in Thread : pc[t] = "dead"

TaskInv == TypeOK /\ (Crashed \/ RunInv)

-----------------------------------------------------------------------------
(* Facts about states *)

\* The caller and the tasks make up the threads.
LEMMA Threads ==
    /\ Main \in Thread /\ Main \notin Task /\ Task \subseteq Thread
    /\ \A t \in Thread : t # Main => t \in Task
    /\ registered \in 0..TaskCount => 1..registered \subseteq Task
  BY TaskAssumption DEF Main, Task, Thread

\* The counter of a wait group fits the number of tasks.
LEMMA LiveBound ==
    ASSUME registered \in 0..TaskCount
    PROVE  IsFiniteSet(Live) /\ Cardinality(Live) \in 0..TaskCount
<1>1. IsFiniteSet(1..registered) /\ Cardinality(1..registered) = registered
  <2>1. registered \in Nat /\ 1 \in Int /\ registered \in Int
    BY TaskAssumption
  <2>. QED  BY <2>1, FS_Interval
<1>2. Live \subseteq 1..registered
  BY DEF Live
<1>3. IsFiniteSet(Live) /\ Cardinality(Live) <= registered
  BY <1>1, <1>2, FS_Subset
<1>4. Cardinality(Live) \in Nat
  BY <1>3, FS_CardinalityType
<1>. QED  BY <1>3, <1>4, TaskAssumption

LiveFits == registered \in 0..TaskCount => Cardinality(Live) \in 0..TaskCount

\* The wait group counts at most all tasks.
LEMMA LiveFitsHere == LiveFits
  BY LiveBound DEF LiveFits

\* And so it does after a step.
LEMMA LiveFitsNext == LiveFits'
  BY LiveFitsHere, PTL

\* From the sweep on only the caller has a step to take.
LEMMA OnlyMainSweeps ==
    ASSUME TypeOK, RunInv, phase \in {"sweep", "ok"},
           NEW t \in Thread, pc[t] \notin {"unborn", "dead"}
    PROVE  t = Main
<1>1. SUFFICES ASSUME t \in Task PROVE FALSE
  BY Threads
<1>2. t \in 1..registered
  BY <1>1 DEF RunInv, UnbornInv, TypeOK, Task
<1>. QED  BY <1>1, <1>2 DEF RunInv, QuiescentSweep, UnbornInv

\* A task with a step to take has been registered and started.
LEMMA Registered ==
    ASSUME TypeOK, RunInv, NEW t \in Task, pc[t] # "unborn"
    PROVE  t \in 1..registered /\ err[t] # "start"
  BY DEF RunInv, UnbornInv, TypeOK, Task

\* Nobody has taken over the lines of a thread that can still print.
LEMMA NotConsumed ==
    ASSUME TypeOK, RunInv, NEW t \in Thread, pc[t] \notin {"unborn", "leave", "dead"}
    PROVE  t \notin done /\ t \notin consumed
<1>1. CASE t = Main
  BY <1>1, Threads DEF TypeOK, Task
<1>2. CASE t \in Task
  BY <1>2 DEF RunInv, DoneInv, UnbornInv, TypeOK
<1>. QED  BY <1>1, <1>2, Threads

-----------------------------------------------------------------------------
(* Steps that only move a thread about *)

Fixed == {"unborn", "start", "close", "leave", "dead"}

\* A step of t that settles nothing and prints nothing.
MovesOnly(t) ==
    /\ UNCHANGED <<registered, waitGroup, out, output, done, consumed>>
    /\ pc[t] \notin Fixed /\ pc'[t] \notin Fixed
    /\ \A u \in Thread \ {t} : pc'[u] = pc[u] /\ subject'[u] = subject[u]
    /\ \A c \in Task : err'[c] = err[c] \/ (c \in done /\ err[c] # "start" /\ err'[c] # "start")

\* A step that settles nothing and prints nothing keeps what is counted and printed.
LEMMA MoveStep ==
    ASSUME TypeOK, RunInv, NEW t \in Thread, MovesOnly(t)
    PROVE  /\ UnbornInv' /\ StartInv' /\ DoneInv' /\ CountInv' /\ LinesInv'
           /\ phase' = phase \/ phase' \notin {"sweep", "ok"} => QuiescentSweep'
<1>. USE DEF RunInv, MovesOnly, Fixed
<1>1. \A u \in Thread : /\ pc'[u] = pc[u] \/ (u = t /\ pc[u] \notin Fixed /\ pc'[u] \notin Fixed)
                        /\ pc'[u] \in Fixed <=> pc[u] \in Fixed
  OBVIOUS
<1>2. \A c \in Task : err'[c] = "start" <=> err[c] = "start"
  OBVIOUS
<1>3. \A c \in Task : pc[c] = "unborn" => err'[c] = err[c]
  BY DEF DoneInv, UnbornInv
<1>4. UnbornInv'
  <2>. SUFFICES ASSUME NEW c \in Task
                PROVE  /\ c > registered => pc'[c] = "unborn" /\ err'[c] = "nil"
                       /\ pc'[c] = "unborn" => out[c] = NoLines /\ output[c] = NoLines
                       /\ err'[c] = "start" => pc'[c] = "unborn"
    BY DEF UnbornInv
  <2>. QED  BY <1>1, <1>2, <1>3, Threads DEF UnbornInv
<1>5. StartInv'
  <2>. SUFFICES ASSUME NEW u \in Thread, pc'[u] = "start"
                PROVE  /\ subject'[u] \in 1..registered
                       /\ pc'[subject'[u]] = "unborn" /\ err'[subject'[u]] = "nil"
                       /\ \A v \in Thread : pc'[v] = "start" /\ subject'[v] = subject'[u] => v = u
    BY DEF StartInv
  <2>1. u # t /\ pc[u] = "start" /\ subject'[u] = subject[u]
    BY <1>1
  <2>2. subject[u] \in Task /\ pc[subject[u]] = "unborn" /\ err[subject[u]] = "nil"
    BY <2>1, Threads DEF StartInv, TypeOK
  <2>3. pc'[subject[u]] = "unborn" /\ err'[subject[u]] = "nil"
    BY <1>1, <1>3, <2>2, Threads
  <2>. QED  BY <1>1, <2>1, <2>3 DEF StartInv
<1>6. DoneInv'
  <2>. SUFFICES ASSUME NEW c \in Task
                PROVE  /\ c \in done => (pc'[c] \in {"leave", "dead"} \/ err'[c] = "start") /\ output[c] = out[c]
                       /\ pc'[c] = "close" => output[c] = out[c]
    BY Threads DEF DoneInv, TypeOK
  <2>. QED  BY <1>1, <1>2, Threads DEF DoneInv
<1>7. Live' = Live
  <2>1. \A c \in 1..registered : /\ pc'[c] # "dead" <=> pc[c] # "dead"
                                 /\ err'[c] # "start" <=> err[c] # "start"
    BY <1>1, <1>2, Threads DEF TypeOK
  <2>. QED  BY <2>1 DEF Live
<1>8. LinesInv'
  BY DEF LinesInv, LinesOf
<1>9. ASSUME phase' = phase \/ phase' \notin {"sweep", "ok"} PROVE QuiescentSweep'
  <2>. SUFFICES ASSUME phase' \in {"sweep", "ok"}, NEW c \in 1..registered
                PROVE  pc'[c] = "dead" \/ err'[c] = "start"
    BY DEF QuiescentSweep
  <2>1. (pc[c] = "dead" \/ err[c] = "start") /\ c \in Task
    BY <1>9, Threads DEF QuiescentSweep, TypeOK
  <2>. QED  BY <1>1, <1>2, <2>1, Threads
<1>. QED  BY <1>4, <1>5, <1>6, <1>7, <1>8, <1>9 DEF CountInv

\* A thread that goes on with its program, or waits, at a place it may be in.
LandsWell(t) ==
    /\ phase' = phase
    /\ pc[t] \notin {"wait", "sweep", "returned"}
    /\ pc'[t] \in Waiting \cup {"run", "send", "receive", "declare"}
    /\ pc'[t] \in Waiting \cup {"declare"} => subject'[t] \in 1..registered
    /\ pc'[t] \in Waiting \ {"await"} => subject'[t] \in done
    /\ t = Main /\ pc'[t] \in {"run", "send", "receive"} => subject'[t] = NoTask
    /\ t = Main /\ phase = "sweep" => pc'[t] \in Waiting /\ subject'[t] = subject[t]

\* If it also lands where the thread may be, it keeps the whole invariant.
LEMMA PlainStep ==
    ASSUME TypeOK, RunInv, NEW t \in Thread, MovesOnly(t), LandsWell(t)
    PROVE  RunInv'
<1>1. UnbornInv' /\ StartInv' /\ DoneInv' /\ CountInv' /\ LinesInv' /\ QuiescentSweep'
  BY MoveStep DEF LandsWell
<1>2. /\ UNCHANGED <<registered, done, consumed, phase>>
      /\ \A u \in Thread \ {t} : pc'[u] = pc[u] /\ subject'[u] = subject[u]
  BY DEF MovesOnly, LandsWell
<1>3. MainInv'
  <2>1. CASE t = Main
    BY <1>2, <2>1, Threads DEF LandsWell, RunInv, MainInv, Waiting
  <2>2. CASE t # Main
    BY <1>2, <2>2, Threads DEF LandsWell, RunInv, MainInv, Waiting
  <2>. QED  BY <2>1, <2>2
<1>4. SubjectInv'
  <2>. SUFFICES ASSUME NEW u \in Thread
                PROVE  /\ pc'[u] \in Waiting \cup {"declare"} => subject'[u] \in 1..registered
                       /\ pc'[u] \in Waiting \ {"await"} => subject'[u] \in done
    BY <1>2 DEF SubjectInv
  <2>1. CASE u = t
    BY <2>1 DEF LandsWell
  <2>2. CASE u # t
    BY <1>2, <2>2 DEF RunInv, SubjectInv
  <2>. QED  BY <2>1, <2>2
<1>5. SweepInv'
  <2>1. CASE t = Main
    BY <1>2, <2>1, Threads DEF LandsWell, RunInv, MainInv, SweepInv, Waiting
  <2>2. CASE t # Main
    BY <1>2, <2>2, Threads DEF LandsWell, RunInv, SweepInv
  <2>. QED  BY <2>1, <2>2
<1>. QED  BY <1>1, <1>2, <1>3, <1>4, <1>5 DEF RunInv

\* The steps of the interpreted program that print nothing.
LEMMA ProgramStep ==
    ASSUME TypeOK, RunInv, NEW t \in Thread,
           \/ Await(t) \/ BeginSend(t) \/ BeginReceive(t) \/ CloseOp(t)
           \/ ReceiveValue(t) \/ (SendValue(t) /\ channel.open)
    PROVE  RunInv'
<1>. USE DEF taskVars, joinVars, Goto, Operation
<1>1. /\ pc[t] \in {"run", "send", "receive"}
      /\ UNCHANGED <<registered, waitGroup, out, output, done, consumed, err, phase, declared>>
      /\ \/ pc'[t] \in {"run", "send", "receive"} /\ subject' = subject
         \/ pc'[t] = "await" /\ subject'[t] \in declared
      /\ \A u \in Thread \ {t} : pc'[u] = pc[u] /\ subject'[u] = subject[u]
  <2>1. CASE Await(t)
    BY <2>1 DEF Await, TypeOK
  <2>2. CASE BeginSend(t) \/ BeginReceive(t) \/ CloseOp(t)
    BY <2>2 DEF BeginSend, BeginReceive, CloseOp, TypeOK
  <2>3. CASE ReceiveValue(t) \/ (SendValue(t) /\ channel.open)
    BY <2>3 DEF ReceiveValue, SendValue, TypeOK
  <2>. QED  BY <2>1, <2>2, <2>3
<1>2. MovesOnly(t)
  BY <1>1 DEF MovesOnly, Fixed
<1>3. t = Main => phase # "sweep" /\ subject[t] = NoTask
  BY <1>1 DEF RunInv, MainInv, Waiting
<1>4. LandsWell(t)
  BY <1>1, <1>3 DEF LandsWell, Waiting, TypeOK
<1>. QED  BY <1>1, <1>2, <1>4, PlainStep

\* The steps of a waiter before it consumes, and of a parent after a start.
LEMMA WaitStep ==
    ASSUME TypeOK, RunInv, NEW t \in Thread,
           \/ Declare(t) \/ WaitTask(t) \/ JoinWait(t) \/ JoinClose(t) \/ JoinMark(t)
    PROVE  RunInv'
<1>. USE DEF taskVars, joinVars, Goto
<1>1. PICK c \in 1..registered : c = subject[t] /\ c \in Task
  <2>1. pc[t] \in Waiting \cup {"declare"}
    BY DEF Declare, WaitTask, JoinWait, JoinClose, JoinMark, Waiting
  <2>. QED  BY <2>1, Threads DEF RunInv, SubjectInv, TypeOK
<1>2. CASE Declare(t)
  <2>1. /\ pc[t] = "declare" /\ pc'[t] = "run" /\ subject'[t] = NoTask
        /\ UNCHANGED <<registered, waitGroup, out, output, done, consumed, err, phase>>
        /\ \A u \in Thread \ {t} : pc'[u] = pc[u] /\ subject'[u] = subject[u]
    BY <1>2 DEF Declare, TypeOK
  <2>2. MovesOnly(t) /\ LandsWell(t)
    BY <2>1 DEF MovesOnly, Fixed, LandsWell, Waiting, RunInv, MainInv
  <2>. QED  BY <2>1, <2>2, PlainStep
<1>3. CASE WaitTask(t) \/ JoinWait(t) \/ JoinClose(t) \/ JoinMark(t)
  <2>1. /\ pc[t] \in Waiting /\ pc'[t] \in Waiting \ {"await"} /\ c \in done
        /\ UNCHANGED <<registered, waitGroup, out, output, done, consumed, subject, phase>>
        /\ \A u \in Thread \ {t} : pc'[u] = pc[u]
    <3>1. CASE WaitTask(t)
      BY <1>1, <3>1 DEF WaitTask, Waiting, TypeOK
    <3>2. CASE JoinWait(t)
      BY <1>1, <3>2 DEF JoinWait, Waiting, TypeOK, RunInv, SubjectInv
    <3>3. CASE JoinClose(t) \/ JoinMark(t)
      BY <1>1, <3>3 DEF JoinClose, JoinMark, Waiting, TypeOK, RunInv, SubjectInv
    <3>. QED  BY <1>3, <3>1, <3>2, <3>3
  <2>2. \A d \in Task : err'[d] = err[d] \/ (d \in done /\ err[d] # "start" /\ err'[d] # "start")
    BY <1>1, <1>3, <2>1 DEF WaitTask, JoinWait, JoinClose, JoinMark, JoinError, TypeOK
  <2>3. MovesOnly(t)
    BY <2>1, <2>2 DEF MovesOnly, Fixed, Waiting
  <2>4. LandsWell(t)
    BY <1>1, <2>1 DEF LandsWell, Waiting
  <2>. QED  BY <2>1, <2>3, <2>4, PlainStep
<1>. QED  BY <1>2, <1>3

\* The steps of the caller between its body and its return.
LEMMA CallerStep ==
    ASSUME TypeOK, RunInv, WaitAll \/ Sweep \/ (EndBody(Main) /\ pc[Main] = "run")
    PROVE  RunInv'
<1>. USE DEF taskVars, joinVars, Goto
<1>a. Main \in Thread /\ Main \notin Task
  BY Threads
<1>1. CASE EndBody(Main)
  <2>1. /\ UNCHANGED <<registered, waitGroup, out, output, done, consumed, err, subject>>
        /\ pc[Main] = "run" /\ \A u \in Thread \ {Main} : pc'[u] = pc[u]
        /\ \/ pc'[Main] = "wait" /\ phase' = "body"
           \/ pc'[Main] = "returned" /\ phase' = "error"
    BY <1>1, <1>a DEF EndBody, TypeOK
  <2>2. MovesOnly(Main)
    BY <2>1, <1>a DEF MovesOnly, Fixed
  <2>3. MainInv' /\ SweepInv' /\ SubjectInv'
    <3>1. MainInv'
      BY <2>1, <1>a, Threads DEF RunInv, MainInv, Waiting
    <3>2. SubjectInv'
      BY <2>1, <1>a DEF RunInv, SubjectInv, Waiting
    <3>. QED  BY <2>1, <3>1, <3>2 DEF SweepInv
  <2>. QED  BY <1>a, <2>1, <2>2, <2>3, MoveStep DEF RunInv
<1>2. CASE WaitAll
  <2>1. /\ UNCHANGED <<registered, waitGroup, out, output, done, consumed, err, subject>>
        /\ pc[Main] = "wait" /\ \A u \in Thread \ {Main} : pc'[u] = pc[u]
        /\ pc'[Main] = "sweep" /\ phase' = "sweep" /\ waitGroup = 0
    BY <1>2, <1>a DEF WaitAll, TypeOK
  <2>2. MovesOnly(Main)
    BY <2>1, <1>a DEF MovesOnly, Fixed
  <2>3. MainInv' /\ SubjectInv'
    <3>1. MainInv'
      BY <2>1, <1>a, Threads DEF RunInv, MainInv, Waiting
    <3>2. SubjectInv'
      BY <2>1, <1>a DEF RunInv, SubjectInv, Waiting
    <3>. QED  BY <3>1, <3>2
  <2>4. SweepInv'
    BY <2>1, TaskAssumption DEF RunInv, MainInv, SweepInv, NoTask, TypeOK
  <2>5. QuiescentSweep'
    <3>1. Live = {}
      BY <2>1, LiveBound, FS_EmptySet DEF RunInv, CountInv, TypeOK
    <3>2. \A c \in 1..registered : pc[c] = "dead" \/ err[c] = "start"
      BY <3>1 DEF Live
    <3>. QED  BY <2>1, <3>2, <1>a, Threads DEF QuiescentSweep, TypeOK
  <2>. QED  BY <1>a, <2>1, <2>2, <2>3, <2>4, <2>5, MoveStep DEF RunInv
<1>3. CASE Sweep
  <2>1. /\ UNCHANGED <<registered, waitGroup, out, output, done, consumed, err>>
        /\ pc[Main] = "sweep" /\ \A u \in Thread \ {Main} : pc'[u] = pc[u] /\ subject'[u] = subject[u]
    BY <1>3, <1>a DEF Sweep, TypeOK
  <2>2. phase = "sweep"
    BY <2>1, <1>a DEF RunInv, MainInv, TypeOK
  <2>3. \/ /\ subject[Main] < registered /\ subject'[Main] = subject[Main] + 1
           /\ pc'[Main] = "await" /\ phase' = "sweep"
        \/ subject[Main] >= registered /\ pc'[Main] = "returned" /\ phase' = "ok"
    BY <1>3, <1>a, <2>2, TaskAssumption DEF Sweep, TypeOK
  <2>4. MovesOnly(Main)
    BY <2>1, <2>3, <1>a DEF MovesOnly, Fixed
  <2>5. MainInv'
    BY <2>1, <2>3, <1>a, Threads DEF RunInv, MainInv, Waiting
  <2>6. SubjectInv'
    <3>. SUFFICES ASSUME NEW u \in Thread
                  PROVE  /\ pc'[u] \in Waiting \cup {"declare"} => subject'[u] \in 1..registered
                         /\ pc'[u] \in Waiting \ {"await"} => subject'[u] \in done
      BY <2>1 DEF SubjectInv
    <3>1. CASE u = Main
      BY <2>1, <2>3, <3>1, <1>a, TaskAssumption DEF TypeOK, Waiting
    <3>2. CASE u # Main
      BY <2>1, <3>2 DEF RunInv, SubjectInv
    <3>. QED  BY <3>1, <3>2
  <2>7. SweepInv'
    <3>1. subject[Main] \in Nat /\ registered \in Nat
      BY <1>a, TaskAssumption DEF TypeOK
    <3>2. \A c \in 1..registered : c <= subject[Main] => c \in consumed
      BY <2>1, <2>2, <3>1 DEF RunInv, SweepInv
    <3>. QED  BY <2>1, <2>3, <3>1, <3>2 DEF SweepInv
  <2>8. QuiescentSweep'
    <3>1. \A c \in 1..registered : pc[c] = "dead" \/ err[c] = "start"
      BY <2>2 DEF RunInv, QuiescentSweep
    <3>. QED  BY <2>1, <3>1, <1>a, Threads DEF QuiescentSweep, TypeOK
  <2>. QED  BY <1>a, <2>3, <2>4, <2>5, <2>6, <2>7, <2>8, MoveStep DEF RunInv
<1>. QED  BY <1>1, <1>2, <1>3

-----------------------------------------------------------------------------
(* Steps that print, start, settle or consume *)

\* A printed line goes to the builder of its thread, which nobody has read.
LEMMA PrintStep ==
    ASSUME TypeOK, RunInv, NEW t \in Thread, PrintLine(t)
    PROVE  RunInv'
<1>. USE DEF taskVars, joinVars, Operation
<1>1. /\ pc[t] = "run" /\ t \notin done /\ t \notin consumed
      /\ UNCHANGED <<pc, subject, registered, declared, waitGroup, output, done, consumed, err, phase>>
      /\ \A u \in Thread \ {t} : out'[u] = out[u]
      /\ \A u \in Thread \ {t} : out'[t][u] = out[t][u]
  BY NotConsumed DEF PrintLine, TypeOK
<1>2. UnbornInv'
  BY <1>1, Threads DEF RunInv, UnbornInv
<1>3. DoneInv'
  <2>1. \A c \in Task : c \in done \/ pc[c] = "close" => out'[c] = out[c]
    BY <1>1, Threads
  <2>. QED  BY <1>1, <2>1, Threads DEF RunInv, DoneInv, TypeOK
<1>4. LinesInv'
  <2>. SUFFICES ASSUME NEW u \in Thread PROVE \E h \in Thread \ consumed' : LinesOf(u, h)'
    BY DEF LinesInv
  <2>1. PICK h \in Thread \ consumed : LinesOf(u, h)
    BY DEF RunInv, LinesInv
  <2>2. CASE u = t
    BY <1>1, <2>1, <2>2 DEF LinesOf
  <2>3. CASE u # t
    <3>1. \A v \in Thread : out'[v][u] = out[v][u]
      BY <1>1, <2>3
    <3>. QED  BY <1>1, <2>1, <3>1 DEF LinesOf
  <2>. QED  BY <2>2, <2>3
<1>5. MainInv' /\ StartInv' /\ SubjectInv' /\ CountInv' /\ QuiescentSweep' /\ SweepInv'
  BY <1>1 DEF RunInv, MainInv, StartInv, SubjectInv, CountInv, Live, QuiescentSweep, SweepInv
<1>. QED  BY <1>1, <1>2, <1>3, <1>4, <1>5 DEF RunInv

\* A step that neither prints nor consumes keeps the lines where they are.
LEMMA LinesStay == LinesInv /\ UNCHANGED <<out, consumed>> => LinesInv'
  BY DEF LinesInv, LinesOf

\* A spawned task is counted before it can run.
LEMMA SpawnStep ==
    ASSUME TypeOK, RunInv, NEW t \in Thread, Spawn(t)
    PROVE  RunInv'
<1>. USE DEF taskVars, joinVars, Operation, Goto
<1>1. PICK n \in Task : n = registered + 1
  BY TaskAssumption DEF Spawn, TypeOK, Task
<1>2. /\ pc[t] = "run" /\ registered' = n /\ waitGroup' = waitGroup + 1
      /\ pc'[t] = "start" /\ subject'[t] = n
      /\ \A u \in Thread \ {t} : pc'[u] = pc[u] /\ subject'[u] = subject[u]
      /\ UNCHANGED <<out, output, done, consumed, err, phase>>
  BY <1>1 DEF Spawn, Add, TypeOK
<1>3. pc[n] = "unborn" /\ err[n] = "nil" /\ n # t /\ n \notin 1..registered
  BY <1>1, <1>2, TaskAssumption DEF RunInv, UnbornInv, TypeOK
<1>4. phase \notin {"sweep", "ok"}
  BY <1>2, OnlyMainSweeps DEF RunInv, MainInv, Waiting
<1>5. 1..n = 1..registered \cup {n}
  <2>1. registered \in Nat
    BY TaskAssumption DEF TypeOK
  <2>2. 1..(registered + 1) = 1..registered \cup {registered + 1}
    BY <2>1
  <2>. QED  BY <1>1, <2>2
<1>6. MainInv'
  BY <1>2, <1>4, Threads DEF RunInv, MainInv, Waiting
<1>7. UnbornInv'
  <2>. SUFFICES ASSUME NEW d \in Task
                PROVE  /\ d > n => pc'[d] = "unborn" /\ err[d] = "nil"
                       /\ pc'[d] = "unborn" => out[d] = NoLines /\ output[d] = NoLines
                       /\ err[d] = "start" => pc'[d] = "unborn"
    BY <1>2 DEF UnbornInv
  <2>1. registered \in Nat /\ d \in Nat
    BY TaskAssumption DEF TypeOK, Task
  <2>2. d > n => d > registered
    BY <1>1, <2>1
  <2>. QED  BY <1>2, <2>2, Threads DEF RunInv, UnbornInv
<1>8. StartInv'
  <2>. SUFFICES ASSUME NEW u \in Thread, pc'[u] = "start"
                PROVE  /\ subject'[u] \in 1..n
                       /\ pc'[subject'[u]] = "unborn" /\ err'[subject'[u]] = "nil"
                       /\ \A v \in Thread : pc'[v] = "start" /\ subject'[v] = subject'[u] => v = u
    BY <1>2 DEF StartInv
  <2>1. \A v \in Thread \ {t} : pc'[v] = "start" => subject'[v] \in 1..registered /\ subject'[v] = subject[v]
    BY <1>2 DEF RunInv, StartInv
  <2>2. CASE u = t
    BY <1>2, <1>3, <1>5, <2>1, <2>2, Threads
  <2>3. CASE u # t
    <3>1. /\ pc[u] = "start" /\ subject'[u] = subject[u] /\ subject[u] \in 1..registered
          /\ pc[subject[u]] = "unborn" /\ err[subject[u]] = "nil"
      BY <1>2, <2>3 DEF RunInv, StartInv
    <3>2. subject[u] \in Thread \ {t}
      BY <1>2, <3>1, Threads DEF TypeOK
    <3>3. pc'[subject[u]] = "unborn"
      BY <1>2, <3>1, <3>2
    <3>4. \A v \in Thread : pc'[v] = "start" /\ subject'[v] = subject'[u] => v = u
      BY <1>2, <1>3, <2>1, <3>1 DEF RunInv, StartInv
    <3>. QED  BY <1>2, <1>5, <3>1, <3>3, <3>4
  <2>. QED  BY <2>2, <2>3
<1>9. SubjectInv'
  BY <1>2, <1>5 DEF RunInv, SubjectInv, Waiting
<1>10. DoneInv'
  BY <1>2, Threads DEF RunInv, DoneInv, TypeOK
<1>11. CountInv'
  <2>1. Live' = Live \cup {n}
    <3>1. \A c \in 1..registered : pc'[c] # "dead" <=> pc[c] # "dead"
      BY <1>2, Threads DEF TypeOK
    <3>2. pc'[n] # "dead" /\ err'[n] # "start"
      BY <1>2, <1>3, Threads
    <3>. QED  BY <1>2, <1>5, <3>1, <3>2 DEF Live
  <2>2. n \notin Live /\ IsFiniteSet(Live)
    BY <1>3, LiveBound DEF Live, TypeOK
  <2>. QED  BY <1>2, <2>1, <2>2, FS_AddElement DEF RunInv, CountInv
<1>12. QuiescentSweep' /\ SweepInv'
  BY <1>2, <1>4 DEF QuiescentSweep, SweepInv
<1>. QED
  BY <1>2, <1>6, <1>7, <1>8, <1>9, <1>10, <1>11, <1>12, LinesStay DEF RunInv

\* A task whose thread fails to start is settled by its parent, once.
LEMMA StartStep ==
    ASSUME TypeOK, RunInv, NEW t \in Thread, Start(t) \/ StartFails(t)
    PROVE  RunInv'
<1>. USE DEF taskVars, joinVars, Goto
<1>1. PICK c \in Task : c = subject[t] /\ c \in 1..registered
  BY Threads DEF Start, StartFails, RunInv, StartInv, TypeOK
<1>2. /\ pc[t] = "start" /\ pc[c] = "unborn" /\ err[c] = "nil" /\ c # t /\ c \notin done
      /\ \A u \in Thread : pc[u] = "start" /\ subject[u] = c => u = t
  BY <1>1 DEF Start, StartFails, RunInv, StartInv, DoneInv
<1>3. /\ UNCHANGED <<registered, subject, out, output, consumed, phase>>
      /\ pc'[t] = "declare" /\ pc'[c] \in {"unborn", "run"} /\ err'[c] \in {"nil", "start"}
      /\ \A u \in Thread \ {t, c} : pc'[u] = pc[u]
      /\ \A d \in Task \ {c} : err'[d] = err[d]
      /\ done \subseteq done' /\ done' \subseteq done \cup {c}
      /\ \/ pc'[c] = "run" /\ UNCHANGED <<err, done, waitGroup>>
         \/ pc'[c] = "unborn" /\ err'[c] = "start" /\ done' = done \cup {c} /\ waitGroup' = waitGroup - 1
  <2>1. CASE Start(t)
    BY <1>1, <1>2, <2>1, Threads DEF Start, TypeOK
  <2>2. CASE StartFails(t)
    BY <1>1, <1>2, <2>2, Threads DEF StartFails, Done, CloseUnstarted, TypeOK
  <2>. QED  BY <2>1, <2>2
<1>4. phase \notin {"sweep", "ok"}
  BY <1>2, OnlyMainSweeps DEF RunInv, MainInv, Waiting
<1>5. MainInv'
  BY <1>2, <1>3, <1>4, Threads DEF RunInv, MainInv, Waiting
<1>6. UnbornInv'
  <2>. SUFFICES ASSUME NEW d \in Task
                PROVE  /\ d > registered => pc'[d] = "unborn" /\ err'[d] = "nil"
                       /\ pc'[d] = "unborn" => out[d] = NoLines /\ output[d] = NoLines
                       /\ err'[d] = "start" => pc'[d] = "unborn"
    BY <1>3 DEF UnbornInv
  <2>1. CASE d = c
    <3>1. ~(d > registered)
      BY <1>1, <2>1, TaskAssumption DEF TypeOK
    <3>2. out[d] = NoLines /\ output[d] = NoLines
      BY <1>2, <2>1 DEF RunInv, UnbornInv
    <3>. QED  BY <1>2, <1>3, <2>1, <3>1, <3>2
  <2>2. CASE d # c
    BY <1>2, <1>3, <2>2, Threads DEF RunInv, UnbornInv
  <2>. QED  BY <2>1, <2>2
<1>7. StartInv'
  <2>. SUFFICES ASSUME NEW u \in Thread, pc'[u] = "start"
                PROVE  /\ subject[u] \in 1..registered
                       /\ pc'[subject[u]] = "unborn" /\ err'[subject[u]] = "nil"
                       /\ \A v \in Thread : pc'[v] = "start" /\ subject[v] = subject[u] => v = u
    BY <1>3 DEF StartInv
  <2>1. pc[u] = "start" /\ u # t
    BY <1>2, <1>3
  <2>2. subject[u] \in Task \ {c} /\ pc[subject[u]] = "unborn" /\ err[subject[u]] = "nil"
    BY <1>2, <2>1, Threads DEF RunInv, StartInv, TypeOK
  <2>3. subject[u] # t
    BY <1>2, <2>2
  <2>4. pc'[subject[u]] = "unborn" /\ err'[subject[u]] = "nil"
    BY <1>3, <2>2, <2>3, Threads
  <2>5. \A v \in Thread : pc'[v] = "start" => pc[v] = "start"
    BY <1>2, <1>3
  <2>. QED  BY <2>1, <2>4, <2>5 DEF RunInv, StartInv
<1>8. SubjectInv'
  <2>. SUFFICES ASSUME NEW u \in Thread
                PROVE  /\ pc'[u] \in Waiting \cup {"declare"} => subject[u] \in 1..registered
                       /\ pc'[u] \in Waiting \ {"await"} => subject[u] \in done'
    BY <1>3 DEF SubjectInv
  <2>1. CASE u \in {t, c}
    BY <1>1, <1>3, <2>1 DEF Waiting
  <2>2. CASE u \notin {t, c}
    BY <1>3, <2>2 DEF RunInv, SubjectInv
  <2>. QED  BY <2>1, <2>2
<1>9. DoneInv'
  <2>. SUFFICES ASSUME NEW d \in Task
                PROVE  /\ d \in done' => (pc'[d] \in {"leave", "dead"} \/ err'[d] = "start") /\ output[d] = out[d]
                       /\ pc'[d] = "close" => output[d] = out[d]
    BY <1>1, <1>3, Threads DEF DoneInv, TypeOK
  <2>1. CASE d = c
    BY <1>2, <1>3, <2>1 DEF RunInv, UnbornInv
  <2>2. CASE d # c
    BY <1>2, <1>3, <2>2, Threads DEF RunInv, DoneInv
  <2>. QED  BY <2>1, <2>2
<1>10. CountInv'
  <2>1. \A d \in 1..registered : d # c => /\ pc'[d] # "dead" <=> pc[d] # "dead"
                                          /\ err'[d] # "start" <=> err[d] # "start"
    BY <1>2, <1>3, Threads DEF TypeOK
  <2>2. c \in Live
    BY <1>1, <1>2 DEF Live
  <2>3. CASE pc'[c] = "run" /\ UNCHANGED <<err, done, waitGroup>>
    <3>1. Live' = Live
      BY <1>2, <1>3, <2>1, <2>2, <2>3 DEF Live
    <3>. QED  BY <2>3, <3>1 DEF RunInv, CountInv
  <2>4. CASE pc'[c] = "unborn" /\ err'[c] = "start" /\ waitGroup' = waitGroup - 1
    <3>1. Live' = Live \ {c}
      BY <1>3, <2>1, <2>4 DEF Live
    <3>. QED  BY <2>2, <2>4, <3>1, LiveBound, FS_RemoveElement DEF RunInv, CountInv, TypeOK
  <2>. QED  BY <1>3, <2>3, <2>4
<1>11. QuiescentSweep' /\ SweepInv'
  BY <1>3, <1>4 DEF QuiescentSweep, SweepInv
<1>. QED
  BY <1>3, <1>5, <1>6, <1>7, <1>8, <1>9, <1>10, <1>11, LinesStay DEF RunInv

\* A task closes its done channel and leaves the wait group, once.
LEMMA EndStep ==
    ASSUME TypeOK, RunInv, NEW t \in Thread,
           (EndBody(t) /\ t # Main) \/ CloseDone(t) \/ Leave(t)
    PROVE  RunInv'
<1>. USE DEF taskVars, joinVars, Goto
<1>1. t \in Task /\ t # Main /\ t \in 1..registered /\ err[t] # "start" /\ pc[t] \in {"run", "close", "leave"}
  <2>1. t # Main
    BY DEF CloseDone, Leave, RunInv, MainInv
  <2>. QED  BY <2>1, Threads, Registered DEF EndBody, CloseDone, Leave
<1>2. /\ UNCHANGED <<registered, subject, out, consumed, phase>>
      /\ \A u \in Thread \ {t} : pc'[u] = pc[u]
      /\ \A d \in Task \ {t} : err'[d] = err[d] /\ output'[d] = output[d]
      /\ pc'[t] \in {"close", "leave", "dead"} /\ err'[t] # "start"
      /\ \/ pc[t] = "run" /\ pc'[t] = "close" /\ output'[t] = out[t] /\ done' = done /\ waitGroup' = waitGroup
         \/ /\ pc[t] = "close" /\ pc'[t] = "leave" /\ output'[t] = output[t]
            /\ done' = done \cup {t} /\ waitGroup' = waitGroup
         \/ pc[t] = "leave" /\ pc'[t] = "dead" /\ output'[t] = output[t] /\ done' = done /\ waitGroup' = waitGroup - 1
  <2>1. CASE EndBody(t) /\ t # Main
    BY <1>1, <2>1 DEF EndBody, Builder, TypeOK
  <2>2. CASE CloseDone(t)
    BY <1>1, <2>2 DEF CloseDone, TypeOK
  <2>3. CASE Leave(t)
    BY <1>1, <2>3 DEF Leave, Done, TypeOK
  <2>. QED  BY <2>1, <2>2, <2>3
<1>3. MainInv'
  BY <1>1, <1>2, Threads DEF RunInv, MainInv, Waiting
<1>4. UnbornInv'
  <2>. SUFFICES ASSUME NEW d \in Task
                PROVE  /\ d > registered => pc'[d] = "unborn" /\ err'[d] = "nil"
                       /\ pc'[d] = "unborn" => out[d] = NoLines /\ output'[d] = NoLines
                       /\ err'[d] = "start" => pc'[d] = "unborn"
    BY <1>2 DEF UnbornInv
  <2>1. CASE d = t
    <3>1. ~(d > registered)
      BY <1>1, <2>1, TaskAssumption DEF TypeOK
    <3>. QED  BY <1>2, <2>1, <3>1
  <2>2. CASE d # t
    BY <1>2, <2>2, Threads DEF RunInv, UnbornInv
  <2>. QED  BY <2>1, <2>2
<1>5. StartInv'
  <2>. SUFFICES ASSUME NEW u \in Thread, pc'[u] = "start"
                PROVE  /\ subject[u] \in 1..registered
                       /\ pc'[subject[u]] = "unborn" /\ err'[subject[u]] = "nil"
                       /\ \A v \in Thread : pc'[v] = "start" /\ subject[v] = subject[u] => v = u
    BY <1>2 DEF StartInv
  <2>1. pc[u] = "start" /\ subject[u] \in Task /\ pc[subject[u]] = "unborn" /\ err[subject[u]] = "nil"
    BY <1>2, Threads DEF RunInv, StartInv, TypeOK
  <2>2. subject[u] # t
    BY <1>1, <2>1
  <2>3. pc'[subject[u]] = "unborn" /\ err'[subject[u]] = "nil"
    BY <1>2, <2>1, <2>2, Threads
  <2>4. \A v \in Thread : pc'[v] = "start" => pc[v] = "start"
    BY <1>2
  <2>. QED  BY <2>1, <2>3, <2>4 DEF RunInv, StartInv
<1>6. SubjectInv'
  <2>1. done \subseteq done' /\ \A u \in Thread : pc'[u] = pc[u] \/ pc'[u] \notin Waiting \cup {"declare"}
    BY <1>2 DEF Waiting
  <2>. QED  BY <1>2, <2>1 DEF RunInv, SubjectInv
<1>7. DoneInv'
  <2>. SUFFICES ASSUME NEW d \in Task
                PROVE  /\ d \in done' => (pc'[d] \in {"leave", "dead"} \/ err'[d] = "start") /\ output'[d] = out[d]
                       /\ pc'[d] = "close" => output'[d] = out[d]
    BY <1>1, <1>2, Threads DEF DoneInv, TypeOK
  <2>1. CASE d = t
    <3>1. pc[t] = "run" => t \notin done
      BY NotConsumed
    <3>2. pc[t] = "close" => t \notin done /\ output[t] = out[t]
      BY <1>1, NotConsumed DEF RunInv, DoneInv
    <3>3. t \in done => pc[t] = "leave" /\ output[t] = out[t]
      BY <1>1 DEF RunInv, DoneInv
    <3>4. CASE pc[t] = "run"
      BY <1>2, <2>1, <3>1, <3>4
    <3>5. CASE pc[t] = "close"
      BY <1>2, <2>1, <3>2, <3>5
    <3>6. CASE pc[t] = "leave"
      BY <1>2, <2>1, <3>3, <3>6
    <3>. QED  BY <1>2, <3>4, <3>5, <3>6
  <2>2. CASE d # t
    <3>1. /\ pc'[d] = pc[d] /\ err'[d] = err[d] /\ output'[d] = output[d]
          /\ d \in done' => d \in done
      BY <1>2, <2>2, Threads
    <3>. QED  BY <3>1 DEF RunInv, DoneInv
  <2>. QED  BY <2>1, <2>2
<1>8. CountInv'
  <2>1. \A d \in 1..registered : d # t => pc'[d] = pc[d] /\ err'[d] = err[d]
    BY <1>2, Threads DEF TypeOK
  <2>2. t \in Live
    BY <1>1 DEF Live
  <2>3. CASE pc'[t] # "dead" /\ waitGroup' = waitGroup
    <3>1. Live' = Live
      BY <1>2, <2>1, <2>2, <2>3 DEF Live
    <3>. QED  BY <2>3, <3>1 DEF RunInv, CountInv
  <2>4. CASE pc'[t] = "dead" /\ waitGroup' = waitGroup - 1
    <3>1. Live' = Live \ {t}
      BY <1>2, <2>1, <2>4 DEF Live
    <3>. QED  BY <2>2, <2>4, <3>1, LiveBound, FS_RemoveElement DEF RunInv, CountInv, TypeOK
  <2>. QED  BY <1>2, <2>3, <2>4
<1>9. phase \notin {"sweep", "ok"}
  BY <1>1, OnlyMainSweeps
<1>10. QuiescentSweep' /\ SweepInv'
  BY <1>2, <1>9 DEF QuiescentSweep, SweepInv
<1>. QED
  BY <1>2, <1>3, <1>4, <1>5, <1>6, <1>7, <1>8, <1>10, LinesStay DEF RunInv

\* The reader of a task takes over what its builder holds, if it is the first.
LEMMA ConsumeStep ==
    ASSUME TypeOK, RunInv, NEW t \in Thread, Consume(t)
    PROVE  RunInv'
<1>. USE DEF taskVars, joinVars, Goto
<1>1. PICK c \in Task : c = subject[t] /\ c \in 1..registered /\ c \in done
  BY Threads DEF Consume, RunInv, SubjectInv, Waiting, TypeOK
<1>2. /\ pc[t] = "consume" /\ t \notin done /\ t \notin consumed /\ c # t
      /\ output[c] = out[c] /\ (pc[c] \in {"leave", "dead"} \/ err[c] = "start")
  BY <1>1, NotConsumed DEF Consume, RunInv, DoneInv
<1>3. /\ UNCHANGED <<registered, waitGroup, output, done, err, phase>>
      /\ \A u \in Thread \ {t} : pc'[u] = pc[u] /\ subject'[u] = subject[u] /\ out'[u] = out[u]
      /\ out'[t] = IF c \notin consumed THEN [u \in Thread |-> out[t][u] + out[c][u]] ELSE out[t]
      /\ consumed' = consumed \cup {c}
      /\ \/ t = Main /\ phase = "sweep" /\ pc'[t] = "sweep" /\ subject'[t] = c
         \/ ~(t = Main /\ phase = "sweep") /\ pc'[t] = "run" /\ subject'[t] = NoTask
  BY <1>1, <1>2 DEF Consume, Once, TypeOK
<1>4. MainInv'
  <2>1. CASE t = Main
    <3>1. \A d \in Task : pc'[d] = pc[d]
      BY <1>3, <2>1, Threads
    <3>. QED  BY <1>2, <1>3, <2>1, <3>1 DEF RunInv, MainInv, Waiting
  <2>2. CASE t # Main
    <3>1. pc'[Main] = pc[Main] /\ subject'[Main] = subject[Main] /\ phase' = phase
      BY <1>3, <2>2, Threads
    <3>2. \A d \in Task : pc'[d] \notin {"wait", "sweep", "returned"}
      <4>1. pc'[t] = "run"
        BY <1>3, <2>2
      <4>2. \A d \in Task \ {t} : pc'[d] = pc[d]
        BY <1>3, Threads
      <4>. QED  BY <4>1, <4>2 DEF RunInv, MainInv
    <3>3. pc'[Main] \notin {"unborn", "close", "leave", "dead"}
          /\ (pc'[Main] \in {"run", "wait", "send", "receive"} => subject'[Main] = NoTask)
      BY <3>1 DEF RunInv, MainInv
    <3>. QED  BY <3>1, <3>2, <3>3 DEF RunInv, MainInv, Waiting
  <2>. QED  BY <2>1, <2>2
<1>5. UnbornInv'
  <2>1. \A d \in Task \ {t} : pc'[d] = pc[d] /\ out'[d] = out[d]
    BY <1>3, Threads
  <2>2. t \in Task => ~(t > registered) /\ err[t] # "start" /\ pc'[t] # "unborn"
    BY <1>2, <1>3 DEF RunInv, UnbornInv
  <2>. QED  BY <1>3, <2>1, <2>2 DEF RunInv, UnbornInv
<1>6. StartInv'
  <2>. SUFFICES ASSUME NEW u \in Thread, pc'[u] = "start"
                PROVE  /\ subject'[u] \in 1..registered
                       /\ pc'[subject'[u]] = "unborn" /\ err[subject'[u]] = "nil"
                       /\ \A v \in Thread : pc'[v] = "start" /\ subject'[v] = subject'[u] => v = u
    BY <1>3 DEF StartInv
  <2>1. /\ u # t /\ subject'[u] = subject[u] /\ pc[u] = "start" /\ subject[u] \in Task
        /\ pc[subject[u]] = "unborn"
    BY <1>3, Threads DEF RunInv, StartInv, TypeOK
  <2>2. pc'[subject[u]] = "unborn"
    BY <1>2, <1>3, <2>1, Threads
  <2>3. \A v \in Thread : pc'[v] = "start" => pc[v] = "start" /\ subject'[v] = subject[v]
    BY <1>3
  <2>. QED  BY <2>1, <2>2, <2>3 DEF RunInv, StartInv
<1>7. SubjectInv'
  BY <1>3 DEF RunInv, SubjectInv, Waiting
<1>8. DoneInv'
  <2>1. \A d \in Task : d \in done \/ pc'[d] = "close" => out'[d] = out[d] /\ pc'[d] = pc[d]
    BY <1>2, <1>3, Threads
  <2>. QED  BY <1>3, <2>1, Threads DEF RunInv, DoneInv, TypeOK
<1>9. CountInv'
  <2>1. Live' = Live
    <3>1. \A d \in 1..registered : pc'[d] # "dead" <=> pc[d] # "dead"
      BY <1>2, <1>3, Threads DEF TypeOK
    <3>. QED  BY <1>3, <3>1 DEF Live
  <2>. QED  BY <1>3, <2>1 DEF RunInv, CountInv
<1>10. QuiescentSweep'
  <2>. SUFFICES ASSUME phase \in {"sweep", "ok"}, NEW d \in 1..registered
                PROVE  pc'[d] = "dead" \/ err[d] = "start"
    BY <1>3 DEF QuiescentSweep
  <2>1. (pc[d] = "dead" \/ err[d] = "start") /\ d \in Task
    BY Threads DEF RunInv, QuiescentSweep, TypeOK
  <2>2. t = Main
    BY <1>2, OnlyMainSweeps
  <2>. QED  BY <1>3, <2>1, <2>2, Threads
<1>11. LinesInv'
  <2>. SUFFICES ASSUME NEW u \in Thread PROVE \E h \in Thread \ consumed' : LinesOf(u, h)'
    BY DEF LinesInv
  <2>1. PICK h \in Thread \ consumed : LinesOf(u, h)
    BY DEF RunInv, LinesInv
  <2>2. CASE c \in consumed
    <3>1. consumed' = consumed /\ \A v \in Thread : out'[v] = out[v]
      BY <1>3, <2>2
    <3>2. LinesOf(u, h)'
      BY <2>1, <3>1 DEF LinesOf
    <3>. QED  BY <3>1, <3>2
  <2>3. CASE c \notin consumed
    <3>1. /\ out'[t][u] = out[t][u] + out[c][u] /\ c \in Thread
          /\ out[t][u] \in Nat /\ out[c][u] \in Nat
      BY <1>3, <2>3, Threads DEF TypeOK
    <3>2. out[u][u] \in Nat /\ (u # t => out'[u][u] = out[u][u])
      BY <1>3 DEF TypeOK
    <3>3. \A v \in Thread \ {t} : out'[v][u] = out[v][u]
      BY <1>3
    <3>4. CASE h = c
      <4>1. u # t
        BY <1>2, <2>1, <3>4 DEF LinesOf
      <4>2. out[t][u] = 0 /\ out[c][u] = out[u][u]
        BY <1>2, <2>1, <3>4 DEF LinesOf
      <4>3. out'[t][u] = out[u][u]
        BY <3>1, <3>2, <4>2
      <4>4. LinesOf(u, t)'
        BY <1>2, <1>3, <2>1, <3>2, <3>3, <3>4, <4>1, <4>3 DEF LinesOf
      <4>. QED  BY <1>2, <1>3, <4>4
    <3>5. CASE h # c
      <4>1. out[c][u] = 0
        BY <2>1, <2>3, <3>1, <3>5 DEF LinesOf
      <4>2. out'[t][u] = out[t][u]
        BY <3>1, <4>1
      <4>3. \A v \in Thread : out'[v][u] = out[v][u]
        BY <3>3, <4>2
      <4>4. LinesOf(u, h)'
        BY <1>3, <2>1, <4>3 DEF LinesOf
      <4>. QED  BY <1>3, <2>1, <3>5, <4>4
    <3>. QED  BY <3>4, <3>5
  <2>. QED  BY <2>2, <2>3
<1>12. SweepInv'
  <2>1. CASE t = Main /\ phase = "sweep"
    <3>1. subject[Main] \in Nat /\ registered \in Nat
      BY <2>1, TaskAssumption DEF TypeOK
    <3>. QED  BY <1>1, <1>2, <1>3, <2>1, <3>1 DEF RunInv, SweepInv
  <2>2. CASE t = Main /\ phase # "sweep"
    BY <1>3, <2>2 DEF RunInv, SweepInv
  <2>3. CASE t # Main
    BY <1>3, <2>3, Threads DEF RunInv, SweepInv
  <2>. QED  BY <2>1, <2>2, <2>3
<1>. QED
  BY <1>3, <1>4, <1>5, <1>6, <1>7, <1>8, <1>9, <1>10, <1>11, <1>12 DEF RunInv

-----------------------------------------------------------------------------
(* Type correctness and the theorems *)

\* The step of t at which a send finds the channel closed.
Panics(t) == SendValue(t) /\ ~channel.open

\* The panic of one thread ends all.
LEMMA CrashStep ==
    ASSUME TypeOK, NEW t \in Thread, Panics(t)
    PROVE  Crashed'
  BY DEF Panics, SendValue, Crashed

\* Nothing happens after a crash.
LEMMA CrashIsFinal ==
    ASSUME Crashed, [Next]_vars
    PROVE  UNCHANGED vars
<1>1. \A t \in Thread : ~ThreadStep(t)
  BY DEF Crashed, ThreadStep, PrintLine, Spawn, Start, StartFails, Declare, Await, BeginSend,
     SendValue, BeginReceive, ReceiveValue, CloseOp, EndBody, CloseDone, Leave, WaitTask,
     JoinWait, JoinClose, JoinMark, Consume, Operation
<1>2. ~WaitAll /\ ~Sweep
  BY Threads DEF Crashed, WaitAll, Sweep
<1>. QED  BY <1>1, <1>2 DEF Next

\* Every step keeps the invariant or ends the process.
LEMMA RunStep ==
    ASSUME TypeOK, RunInv, [Next]_vars
    PROVE  RunInv' \/ Crashed'
<1>1. CASE WaitAll \/ Sweep
  BY <1>1, CallerStep
<1>2. ASSUME NEW t \in Thread, ThreadStep(t) PROVE RunInv' \/ Crashed'
  <2>1. CASE EndBody(t)
    BY <2>1, CallerStep, EndStep DEF EndBody
  <2>2. CASE SendValue(t)
    BY <2>2, ProgramStep, CrashStep DEF Panics
  <2>. QED
    BY <1>2, <2>1, <2>2, ProgramStep, WaitStep, PrintStep, SpawnStep, StartStep, EndStep, ConsumeStep
       DEF ThreadStep
<1>3. CASE UNCHANGED vars
  BY <1>3 DEF vars, taskVars, joinVars, RunInv, MainInv, UnbornInv, StartInv, SubjectInv, DoneInv,
     CountInv, Live, QuiescentSweep, LinesInv, LinesOf, SweepInv
<1>. QED  BY <1>1, <1>2, <1>3 DEF Next

\* The wait group apart, which CountInv settles, every step keeps the types.
LEMMA TypeStep ==
    ASSUME TypeOK, RunInv, [Next]_vars, waitGroup' \in 0..TaskCount
    PROVE  TypeOK'
<1>. USE DEF taskVars, joinVars, Goto, Operation
<1>a. TaskCount \in Nat /\ MaxOps \in Nat /\ Capacity \in Nat /\ Main \in Thread /\ Task \subseteq Thread
  BY TaskAssumption, Threads
<1>1. CASE WaitAll
  BY <1>1, <1>a DEF WaitAll, TypeOK
<1>2. CASE Sweep
  <2>1. subject' \in [Thread -> 0..TaskCount]
    BY <1>2, <1>a DEF Sweep, TypeOK
  <2>. QED  BY <1>2, <1>a, <2>1 DEF Sweep, TypeOK
<1>3. ASSUME NEW t \in Thread, ThreadStep(t) PROVE TypeOK'
  <2>1. ops' \in 0..MaxOps
    BY <1>3, <1>a DEF ThreadStep, PrintLine, Spawn, Start, StartFails, Declare, Await, BeginSend,
       SendValue, BeginReceive, ReceiveValue, CloseOp, EndBody, CloseDone, Leave, WaitTask,
       JoinWait, JoinClose, JoinMark, Consume, TypeOK
  <2>2. CASE PrintLine(t)
    BY <2>1, <2>2 DEF PrintLine, TypeOK
  <2>3. CASE Spawn(t)
    <3>1. registered' \in 0..TaskCount /\ 1..registered \subseteq 1..registered'
          /\ subject' \in [Thread -> 0..TaskCount]
      BY <1>a, <2>3 DEF Spawn, TypeOK
    <3>. QED  BY <2>1, <2>3, <3>1 DEF Spawn, TypeOK
  <2>4. CASE Start(t) \/ StartFails(t)
    <3>1. subject[t] \in 1..registered /\ subject[t] \in Task
      BY <2>4, Threads DEF Start, StartFails, RunInv, StartInv, TypeOK
    <3>2. CASE Start(t)
      BY <2>1, <3>1, <3>2, <1>a DEF Start, TypeOK
    <3>3. CASE StartFails(t)
      BY <2>1, <3>1, <3>3 DEF StartFails, CloseUnstarted, TypeOK
    <3>. QED  BY <2>4, <3>2, <3>3
  <2>5. CASE Declare(t)
    BY <2>1, <2>5, <1>a DEF Declare, TypeOK, RunInv, SubjectInv, NoTask
  <2>6. CASE Await(t)
    <3>1. 1..registered \subseteq 0..TaskCount
      BY <1>a DEF TypeOK
    <3>. QED  BY <2>1, <2>6, <3>1 DEF Await, TypeOK
  <2>7. CASE BeginSend(t) \/ BeginReceive(t) \/ CloseOp(t)
    BY <2>1, <2>7 DEF BeginSend, BeginReceive, CloseOp, TypeOK
  <2>8. CASE SendValue(t) \/ ReceiveValue(t)
    <3>1. channel' \in [values : 0..Capacity, open : BOOLEAN]
      <4>1. channel.values \in 0..Capacity /\ channel.open \in BOOLEAN
            /\ channel = [values |-> channel.values, open |-> channel.open]
        BY DEF TypeOK
      <4>2. CASE SendValue(t)
        <5>1. CASE channel.open
          <6>1. channel.values + 1 \in 0..Capacity
            BY <1>a, <4>1, <4>2, <5>1 DEF SendValue, SendFull
          <6>. QED  BY <4>1, <4>2, <5>1, <6>1 DEF SendValue, TypeOK
        <5>2. CASE ~channel.open
          BY <4>2, <5>2 DEF SendValue, TypeOK
        <5>. QED  BY <5>1, <5>2
      <4>3. CASE ReceiveValue(t)
        <5>1. (IF channel.values = 0 THEN 0 ELSE channel.values - 1) \in 0..Capacity
          BY <1>a, <4>1
        <5>. QED  BY <4>1, <4>3, <5>1 DEF ReceiveValue, TypeOK
      <4>. QED  BY <2>8, <4>2, <4>3
    <3>. QED  BY <2>1, <2>8, <3>1 DEF SendValue, ReceiveValue, TypeOK
  <2>9. CASE EndBody(t)
    <3>1. t # Main => t \in Task
      BY Threads
    <3>2. CASE t = Main
      BY <2>1, <2>9, <3>2 DEF EndBody, TypeOK
    <3>3. CASE t # Main
      <4>1. out[t][t] \in Nat /\ out[t] \in [Thread -> Nat]
        BY DEF TypeOK
      <4>. QED  BY <2>1, <2>9, <3>1, <3>3, <4>1 DEF EndBody, Builder, TypeOK
    <3>. QED  BY <3>2, <3>3
  <2>10. CASE CloseDone(t) \/ Leave(t)
    <3>1. t \in 1..registered
      BY <2>10, Threads, Registered DEF CloseDone, Leave, RunInv, MainInv
    <3>. QED  BY <2>1, <2>10, <3>1 DEF CloseDone, Leave, TypeOK
  <2>11. CASE WaitTask(t) \/ JoinWait(t) \/ JoinClose(t) \/ JoinMark(t)
    <3>1. subject[t] \in Task
      BY <2>11, Threads DEF WaitTask, JoinWait, JoinClose, JoinMark, RunInv, SubjectInv, Waiting, TypeOK
    <3>. QED
      BY <2>1, <2>11, <3>1, ZenonT(60) DEF WaitTask, JoinWait, JoinClose, JoinMark, JoinError, TypeOK
  <2>12. CASE Consume(t)
    <3>1. subject[t] \in Task /\ subject[t] \in done
      BY <2>12, Threads DEF Consume, RunInv, SubjectInv, Waiting, TypeOK
    <3>2. out' \in [Thread -> [Thread -> Nat]]
      BY <2>12, <3>1 DEF Consume, TypeOK
    <3>3. subject' \in [Thread -> 0..TaskCount]
      BY <2>12, <1>a, SMTT(30) DEF Consume, TypeOK, NoTask
    <3>4. consumed' \subseteq done' /\ pc' \in [Thread -> {"unborn", "run", "start", "declare",
            "await", "join", "closing", "send", "receive", "joined", "consume", "close", "leave",
            "dead", "wait", "sweep", "returned"}]
      BY <2>12, <3>1 DEF Consume, TypeOK
    <3>5. UNCHANGED <<channel, registered, declared, waitGroup, output, done, err, joinVars, phase>>
      BY <2>12 DEF Consume
    <3>. QED  BY <2>1, <3>2, <3>3, <3>4, <3>5 DEF TypeOK
  <2>. QED
    BY <1>3, <2>2, <2>3, <2>4, <2>5, <2>6, <2>7, <2>8, <2>9, <2>10, <2>11, <2>12 DEF ThreadStep
<1>4. CASE UNCHANGED vars
  BY <1>4 DEF vars, TypeOK
<1>. QED  BY <1>1, <1>2, <1>3, <1>4 DEF Next

\* The run begins with the caller alone.
LEMMA TaskInit == Init => TaskInv
<1>. SUFFICES ASSUME Init PROVE TaskInv
  OBVIOUS
<1>1. TypeOK
  BY TaskAssumption, Threads DEF Init, TypeOK, NoTask
<1>2. MainInv /\ UnbornInv /\ StartInv /\ SubjectInv /\ DoneInv /\ QuiescentSweep /\ SweepInv
  BY Threads DEF Init, MainInv, UnbornInv, StartInv, SubjectInv, DoneInv, QuiescentSweep, SweepInv,
     Waiting, NoLines
<1>3. CountInv
  <2>1. Live = {}
    BY DEF Init, Live
  <2>. QED  BY <2>1, FS_EmptySet DEF Init, CountInv
<1>4. LinesInv
  <2>1. \A u \in Thread : LinesOf(u, u)
    BY DEF Init, LinesOf
  <2>. QED  BY <2>1 DEF Init, LinesInv
<1>. QED  BY <1>1, <1>2, <1>3, <1>4 DEF TaskInv, RunInv, Init

\* A dead process stays dead; the rest is RunStep.
LEMMA TaskStep == TaskInv /\ [Next]_vars => TaskInv'
<1>. SUFFICES ASSUME TaskInv, [Next]_vars PROVE TaskInv'
  OBVIOUS
<1>1. CASE Crashed
  <2>1. UNCHANGED vars
    BY <1>1, CrashIsFinal
  <2>. QED  BY <1>1, <2>1 DEF TaskInv, Crashed, TypeOK, vars, taskVars, joinVars
<1>2. CASE RunInv
  <2>1. RunInv' \/ Crashed'
    BY <1>2, RunStep DEF TaskInv
  <2>2. waitGroup' \in 0..TaskCount
    <3>1. CASE Crashed'
      <4>1. waitGroup' = waitGroup
        BY <3>1, <1>2 DEF Next, ThreadStep, PrintLine, Spawn, Start, StartFails, Declare, Await,
           BeginSend, SendValue, BeginReceive, ReceiveValue, CloseOp, EndBody, CloseDone, Leave,
           WaitTask, JoinWait, JoinClose, JoinMark, Consume, WaitAll, Sweep, vars, Crashed, RunInv
      <4>. QED  BY <4>1 DEF TaskInv, TypeOK
    <3>2. CASE RunInv'
      <4>1. registered' \in 0..TaskCount
        BY TaskAssumption DEF Next, ThreadStep, PrintLine, Spawn, Start, StartFails, Declare, Await,
           BeginSend, SendValue, BeginReceive, ReceiveValue, CloseOp, EndBody, CloseDone, Leave,
           WaitTask, JoinWait, JoinClose, JoinMark, Consume, WaitAll, Sweep, vars, TaskInv, TypeOK
      <4>2. Cardinality(Live') \in 0..TaskCount
        BY <4>1, LiveFitsNext DEF LiveFits
      <4>. QED  BY <3>2, <4>2 DEF RunInv, CountInv
    <3>. QED  BY <2>1, <3>1, <3>2
  <2>. QED  BY <1>2, <2>1, <2>2, TypeStep DEF TaskInv
<1>. QED  BY <1>1, <1>2 DEF TaskInv

\* Every task is counted, settled once and read once, until the process crashes.
THEOREM TasksAreSound == Spec => []TaskInv
  BY TaskInit, TaskStep, PTL DEF Spec

\* Tasks, channel and wait group stay in their domains; the counter of the wait
\* group never goes below zero, which is a panic in Go.
THEOREM TaskTypes == Spec => []TypeOK
<1>1. TaskInv => TypeOK
  BY DEF TaskInv
<1>. QED  BY <1>1, TasksAreSound, PTL

\* The final sweep starts after every task that could still spawn or print.
THEOREM SweepIsQuiescent == Spec => []QuiescentSweep
<1>1. TaskInv => QuiescentSweep
  BY DEF TaskInv, RunInv, Crashed, QuiescentSweep
<1>. QED  BY <1>1, TasksAreSound, PTL

\* Whoever reads the output of a task reads all of it.
THEOREM OutputIsFinal == Spec => []ReadersSeeFinalOutput
<1>1. TaskInv => ReadersSeeFinalOutput
  <2>. SUFFICES ASSUME TaskInv, NEW t \in Thread, pc[t] = "consume"
                PROVE  output[subject[t]] = out[subject[t]]
    BY DEF ReadersSeeFinalOutput
  <2>1. RunInv
    BY DEF TaskInv, Crashed
  <2>2. subject[t] \in done
    BY <2>1 DEF RunInv, SubjectInv, Waiting
  <2>. QED  BY <2>1, <2>2 DEF RunInv, DoneInv
<1>. QED  BY <1>1, TasksAreSound, PTL

\* A run that succeeds returns every line of every thread exactly once, however
\* the tasks were spawned, awaited and ended.
THEOREM OutputIsExact == Spec => []OutputExactlyOnce
<1>1. TaskInv => OutputExactlyOnce
  <2>. SUFFICES ASSUME TaskInv, phase = "ok", NEW u \in Thread
                PROVE  out[Main][u] = out[u][u]
    BY DEF OutputExactlyOnce
  <2>1. RunInv /\ TypeOK
    BY DEF TaskInv, Crashed
  <2>2. 1..registered \subseteq consumed /\ Main \notin consumed /\ Main \in Thread
    BY <2>1, Threads DEF RunInv, SweepInv, TypeOK, Task
  <2>3. PICK h \in Thread \ consumed : LinesOf(u, h)
    BY <2>1 DEF RunInv, LinesInv
  <2>4. CASE h = Main
    BY <2>2, <2>3, <2>4 DEF LinesOf
  <2>5. CASE h # Main
    <3>1. h \in Task /\ h \notin 1..registered
      BY <2>2, <2>3, <2>5, Threads
    <3>2. out[h] = NoLines
      BY <2>1, <3>1 DEF RunInv, UnbornInv, Task, TypeOK
    <3>3. out[h][u] = out[u][u] /\ out[Main][u] = 0
      BY <2>2, <2>3, <2>5 DEF LinesOf
    <3>. QED  BY <3>2, <3>3 DEF NoLines
  <2>. QED  BY <2>4, <2>5
<1>. QED  BY <1>1, TasksAreSound, PTL
-----------------------------------------------------------------------------
(* When a run can get stuck *)

\* A task that is registered and not running is being started by its parent, or could
\* not be started; one that has left, or could not be started, is done; one with a
\* handle has run.
ChildInv ==
    /\ \A c \in 1..registered : pc[c] = "unborn" /\ err[c] # "start" =>
           \E t \in Thread : pc[t] = "start" /\ subject[t] = c
    /\ \A c \in Task : pc[c] \in {"leave", "dead"} \/ err[c] = "start" => c \in done
    /\ \A c \in handle : pc[c] # "unborn"

\* What a thread needs for its next step: only awaits, joins, the two channel operations
\* and the caller's wait for all tasks may have to wait.
ThreadCanMove(t) ==
    \/ pc[t] \in {"run", "start", "declare", "closing", "joined", "consume", "close", "leave",
                  "sweep"}
    \/ pc[t] = "await" /\ subject[t] \in done
    \/ pc[t] = "join" /\ (subject[t] \notin handle \/ pc[subject[t]] = "dead")
    \/ pc[t] = "send" /\ ~SendFull
    \/ pc[t] = "receive" /\ ~ReceiveEmpty
    \/ pc[t] = "wait" /\ waitGroup = 0

SomeThreadCanMove == \E t \in Thread : ThreadCanMove(t)

\* A run goes on, has ended, or waits for its own program.
NeverStuck == phase \in {"ok", "error", "panic"} \/ SomeThreadCanMove \/ Stuck \/ Blocked

\* A step of a thread that neither registers a task nor starts one.
LEMMA ChildFrame ==
    ASSUME TypeOK, ChildInv, NEW t \in Thread,
           registered' = registered, done \subseteq done', handle' \subseteq handle,
           pc[t] \notin {"start", "unborn"}, pc'[t] # "unborn",
           pc'[t] \in {"leave", "dead"} => t \in done',
           \A u \in Thread \ {t} : pc'[u] = pc[u] /\ subject'[u] = subject[u],
           \A c \in Task : err'[c] = "start" <=> err[c] = "start"
    PROVE  ChildInv'
<1>a. 1..registered \subseteq Task /\ handle \subseteq Task /\ Task \subseteq Thread
  BY Threads DEF TypeOK
<1>1. ASSUME NEW c \in 1..registered, pc'[c] = "unborn", err'[c] # "start"
      PROVE  \E u \in Thread : pc'[u] = "start" /\ subject'[u] = c
  <2>1. c # t /\ pc[c] = "unborn" /\ err[c] # "start"
    BY <1>a, <1>1
  <2>2. PICK u \in Thread : pc[u] = "start" /\ subject[u] = c
    BY <2>1 DEF ChildInv
  <2>. QED  BY <2>2
<1>2. ASSUME NEW c \in Task, pc'[c] \in {"leave", "dead"} \/ err'[c] = "start"
      PROVE  c \in done'
  BY <1>a, <1>2 DEF ChildInv
<1>3. ASSUME NEW c \in handle' PROVE pc'[c] # "unborn"
  BY <1>a DEF ChildInv
<1>. QED  BY <1>1, <1>2, <1>3 DEF ChildInv

\* A task waits for its parent to start it, and only for that.
LEMMA ChildStep ==
    ASSUME TypeOK, RunInv, ChildInv, [Next]_vars, ~Crashed'
    PROVE  ChildInv'
<1>. USE DEF taskVars, joinVars, Goto, Operation
<1>a. Main \in Thread /\ Task \subseteq Thread
  BY Threads
<1>b. \A t \in Task : pc[t] # "unborn" => err[t] # "start"
  BY DEF RunInv, UnbornInv
<1>1. ASSUME NEW t \in Thread,
             \/ PrintLine(t) \/ Await(t) \/ BeginSend(t) \/ BeginReceive(t) \/ CloseOp(t)
             \/ ReceiveValue(t) \/ Declare(t) \/ WaitTask(t) \/ Consume(t)
      PROVE  ChildInv'
  <2>1. /\ UNCHANGED <<registered, done, handle, err>>
        /\ pc[t] \notin {"start", "unborn"} /\ pc'[t] \notin {"unborn", "leave", "dead"}
        /\ \A u \in Thread \ {t} : pc'[u] = pc[u] /\ subject'[u] = subject[u]
    BY <1>1 DEF PrintLine, Await, BeginSend, BeginReceive, CloseOp, ReceiveValue, Declare, WaitTask,
       Consume, TypeOK
  <2>. QED  BY <2>1, ChildFrame
<1>2. ASSUME NEW t \in Thread, SendValue(t) PROVE ChildInv'
  <2>1. channel.open
    BY <1>2, CrashStep DEF Panics
  <2>2. /\ UNCHANGED <<registered, done, handle, err>>
        /\ pc[t] \notin {"start", "unborn"} /\ pc'[t] \notin {"unborn", "leave", "dead"}
        /\ \A u \in Thread \ {t} : pc'[u] = pc[u] /\ subject'[u] = subject[u]
    BY <1>2, <2>1 DEF SendValue, TypeOK
  <2>. QED  BY <2>2, ChildFrame
<1>3. ASSUME NEW t \in Thread, JoinWait(t) \/ JoinClose(t) \/ JoinMark(t) PROVE ChildInv'
  <2>1. /\ UNCHANGED <<registered, done, subject>> /\ handle' \subseteq handle
        /\ pc[t] \notin {"start", "unborn"} /\ pc'[t] \notin {"unborn", "leave", "dead"}
        /\ \A u \in Thread \ {t} : pc'[u] = pc[u]
    BY <1>3 DEF JoinWait, JoinClose, JoinMark, TypeOK
  <2>2. err' = err \/ JoinError(subject[t])
    BY <1>3 DEF JoinWait, JoinClose, JoinMark
  <2>3. \A c \in Task : err'[c] = "start" <=> err[c] = "start"
    BY <2>2 DEF JoinError, TypeOK
  <2>. QED  BY <2>1, <2>3, ChildFrame
<1>4. ASSUME NEW t \in Thread, EndBody(t) PROVE ChildInv'
  <2>1. /\ UNCHANGED <<registered, done, handle, subject>>
        /\ pc[t] = "run" /\ pc'[t] \notin {"unborn", "leave", "dead"}
        /\ \A u \in Thread \ {t} : pc'[u] = pc[u]
    BY <1>4 DEF EndBody, TypeOK
  <2>2. \A c \in Task : err'[c] = "start" <=> err[c] = "start"
    <3>1. CASE t = Main
      BY <1>4, <3>1 DEF EndBody
    <3>2. CASE t # Main
      <4>1. t \in Task /\ err[t] # "start"
        BY <1>b, <2>1, <3>2, Threads
      <4>2. PICK e \in {"nil", "body"} : err' = [err EXCEPT ![t] = e]
        BY <1>4, <3>2 DEF EndBody
      <4>. QED  BY <4>1, <4>2 DEF TypeOK
    <3>. QED  BY <3>1, <3>2
  <2>. QED  BY <2>1, <2>2, ChildFrame
<1>5. ASSUME NEW t \in Thread, CloseDone(t) \/ Leave(t) PROVE ChildInv'
  <2>1. t \in Task
    BY <1>5, Threads DEF CloseDone, Leave, RunInv, MainInv
  <2>2. /\ UNCHANGED <<registered, handle, subject, err>> /\ done \subseteq done'
        /\ pc[t] \notin {"start", "unborn"} /\ pc'[t] # "unborn" /\ t \in done'
        /\ \A u \in Thread \ {t} : pc'[u] = pc[u]
    BY <1>5, <2>1 DEF CloseDone, Leave, TypeOK, ChildInv
  <2>. QED  BY <2>2, ChildFrame
<1>6. ASSUME NEW t \in Thread, Spawn(t) PROVE ChildInv'
  <2>1. /\ pc[t] = "run" /\ registered' = registered + 1 /\ registered \in Nat
        /\ pc'[t] = "start" /\ subject'[t] = registered + 1
        /\ \A u \in Thread \ {t} : pc'[u] = pc[u] /\ subject'[u] = subject[u]
        /\ UNCHANGED <<done, handle, err>>
    BY <1>6, TaskAssumption DEF Spawn, TypeOK
  <2>2. ASSUME NEW c \in 1..registered', pc'[c] = "unborn", err'[c] # "start"
        PROVE  \E u \in Thread : pc'[u] = "start" /\ subject'[u] = c
    <3>1. CASE c = registered + 1
      BY <2>1, <3>1
    <3>2. CASE c # registered + 1
      <4>1. c \in 1..registered
        BY <2>1, <3>2
      <4>2. c \in Thread /\ c # t
        BY <2>1, <2>2, <4>1, Threads DEF TypeOK
      <4>3. PICK u \in Thread : pc[u] = "start" /\ subject[u] = c
        BY <2>1, <2>2, <4>1, <4>2 DEF ChildInv
      <4>. QED  BY <2>1, <4>3
    <3>. QED  BY <3>1, <3>2
  <2>3. ASSUME NEW c \in Task, pc'[c] \in {"leave", "dead"} \/ err'[c] = "start"
        PROVE  c \in done'
    BY <1>a, <2>1, <2>3 DEF ChildInv
  <2>4. ASSUME NEW c \in handle' PROVE pc'[c] # "unborn"
    BY <1>a, <2>1 DEF ChildInv, TypeOK
  <2>. QED  BY <2>2, <2>3, <2>4 DEF ChildInv
<1>7. ASSUME NEW t \in Thread, Start(t) \/ StartFails(t) PROVE ChildInv'
  <2>1. PICK n \in Task : n = subject[t] /\ n \in 1..registered
    BY <1>7, Threads DEF Start, StartFails, RunInv, StartInv, TypeOK
  <2>2. pc[t] = "start" /\ pc[n] = "unborn" /\ n # t
    BY <1>7, <2>1 DEF Start, StartFails, RunInv, StartInv
  <2>3. /\ UNCHANGED <<registered, subject>> /\ pc'[t] = "declare"
        /\ \A u \in Thread \ {t, n} : pc'[u] = pc[u]
        /\ \A c \in Task \ {n} : err'[c] = err[c]
        /\ \/ pc'[n] = "run" /\ done' = done /\ handle' \subseteq handle \cup {n} /\ err' = err
           \/ pc'[n] = "unborn" /\ done' = done \cup {n} /\ handle' = handle /\ err'[n] = "start"
    <3>1. CASE Start(t)
      BY <1>a, <2>1, <2>2, <3>1 DEF Start, TypeOK
    <3>2. CASE StartFails(t)
      BY <1>a, <2>1, <2>2, <3>2 DEF StartFails, CloseUnstarted, TypeOK
    <3>. QED  BY <1>7, <3>1, <3>2
  <2>4. ASSUME NEW c \in 1..registered', pc'[c] = "unborn", err'[c] # "start"
        PROVE  \E u \in Thread : pc'[u] = "start" /\ subject'[u] = c
    <3>1. c \in Task /\ c \in Thread /\ c # n /\ c # t
      BY <2>3, <2>4, Threads DEF TypeOK
    <3>2. PICK u \in Thread : pc[u] = "start" /\ subject[u] = c
      BY <2>3, <2>4, <3>1 DEF ChildInv
    <3>3. u # t /\ u # n
      BY <2>1, <2>2, <3>1, <3>2
    <3>. QED  BY <2>3, <3>2, <3>3
  <2>5. ASSUME NEW c \in Task, pc'[c] \in {"leave", "dead"} \/ err'[c] = "start"
        PROVE  c \in done'
    <3>1. CASE c = n
      BY <1>b, <2>2, <2>3, <2>5, <3>1 DEF ChildInv
    <3>2. CASE c # n
      BY <1>a, <2>3, <2>5, <3>2 DEF ChildInv
    <3>. QED  BY <3>1, <3>2
  <2>6. ASSUME NEW c \in handle' PROVE pc'[c] # "unborn"
    <3>1. n \notin handle
      BY <2>2 DEF ChildInv
    <3>2. CASE c = n
      BY <2>3, <3>1, <3>2
    <3>3. CASE c # n
      <4>1. c \in handle /\ c \in Thread
        BY <1>a, <2>3, <3>3 DEF TypeOK
      <4>. QED  BY <2>3, <3>3, <4>1 DEF ChildInv
    <3>. QED  BY <3>2, <3>3
  <2>. QED  BY <2>4, <2>5, <2>6 DEF ChildInv
<1>8. CASE WaitAll \/ Sweep
  <2>1. /\ UNCHANGED <<registered, done, handle, err>>
        /\ pc[Main] \notin {"start", "unborn"} /\ pc'[Main] \notin {"unborn", "leave", "dead"}
        /\ \A u \in Thread \ {Main} : pc'[u] = pc[u] /\ subject'[u] = subject[u]
    BY <1>8, <1>a DEF WaitAll, Sweep, TypeOK
  <2>. QED  BY <1>a, <2>1, ChildFrame
<1>9. CASE UNCHANGED vars
  BY <1>9 DEF vars, ChildInv
<1>. QED
  BY <1>1, <1>2, <1>3, <1>4, <1>5, <1>6, <1>7, <1>8, <1>9 DEF Next, ThreadStep

\* If no thread has a step left, then each one that is neither done nor unstarted
\* waits, and either one of them waits at the channel or all wait for each other.
LEMMA StuckIsBlocked ==
    ASSUME TypeOK, RunInv, ChildInv, phase \notin {"ok", "error"}, ~SomeThreadCanMove, ~Blocked
    PROVE  Stuck
<1>a. Main \in Thread /\ Task \subseteq Thread /\ 1..registered \subseteq Task /\ handle \subseteq Task
  BY Threads DEF TypeOK
<1>1. ASSUME NEW t \in Thread
      PROVE  pc[t] \in {"unborn", "await", "join", "send", "receive", "wait", "dead", "returned"}
  BY DEF SomeThreadCanMove, ThreadCanMove, TypeOK
<1>2. ASSUME NEW t \in Thread PROVE pc[t] # "join"
  <2>. SUFFICES ASSUME pc[t] = "join" PROVE FALSE
    OBVIOUS
  <2>1. subject[t] \in handle /\ pc[subject[t]] # "dead"
    BY DEF SomeThreadCanMove, ThreadCanMove
  <2>2. subject[t] \in done
    BY DEF RunInv, SubjectInv, Waiting
  <2>3. err[subject[t]] # "start"
    BY <1>a, <2>1 DEF ChildInv, RunInv, UnbornInv
  <2>4. pc[subject[t]] = "leave"
    BY <2>1, <2>2, <2>3 DEF RunInv, DoneInv
  <2>. QED  BY <1>a, <1>1, <2>1, <2>4
<1>3. pc[Main] \in {"await", "send", "receive", "wait"}
  <2>1. pc[Main] # "returned"
    BY DEF RunInv, MainInv, Waiting, TypeOK
  <2>. QED  BY <1>a, <1>1, <1>2, <2>1 DEF RunInv, MainInv
<1>4. \A t \in Task : pc[t] \in {"unborn", "await", "send", "receive", "dead"}
  BY <1>a, <1>1, <1>2 DEF RunInv, MainInv
<1>5. \A t \in Thread : Waits(t) \/ pc[t] \in {"unborn", "dead"}
  <2>. SUFFICES ASSUME NEW t \in Thread, pc[t] \notin {"unborn", "dead"} PROVE Waits(t)
    OBVIOUS
  <2>1. pc[t] \in {"await", "send", "receive", "wait"}
    BY <1>3, <1>4, Threads
  <2>. QED  BY <2>1 DEF SomeThreadCanMove, ThreadCanMove, Waits
<1>6. \A t \in Thread : pc[t] \notin {"send", "receive"}
  BY <1>5 DEF Blocked
<1>7. ASSUME NEW c \in 1..registered, c \notin done \/ (pc[c] # "dead" /\ err[c] # "start")
      PROVE  pc[c] = "await"
  <2>1. c \in Task /\ pc[c] \in {"unborn", "await", "dead"}
    BY <1>a, <1>4, <1>6
  <2>2. \A t \in Thread : pc[t] # "start"
    BY <1>1
  <2>. QED  BY <1>7, <2>1, <2>2 DEF ChildInv
<1>. DEFINE S == {t \in Task : pc[t] = "await"}
<1>8. ASSUME NEW t \in Thread, pc[t] = "await" PROVE subject[t] \in S
  <2>1. subject[t] \in 1..registered /\ subject[t] \notin done
    BY <1>8 DEF RunInv, SubjectInv, Waiting, SomeThreadCanMove, ThreadCanMove
  <2>. QED  BY <1>a, <1>7, <2>1
<1>9. S # {}
  <2>1. CASE pc[Main] = "await"
    BY <1>a, <1>8, <2>1
  <2>2. CASE pc[Main] = "wait"
    <3>1. waitGroup # 0
      BY <1>a, <2>2 DEF SomeThreadCanMove, ThreadCanMove
    <3>2. Live # {}
      BY <3>1, FS_EmptySet DEF RunInv, CountInv
    <3>3. PICK c \in 1..registered : pc[c] # "dead" /\ err[c] # "start"
      BY <3>2 DEF Live
    <3>. QED  BY <1>a, <1>7, <3>3
  <2>. QED  BY <1>a, <1>3, <1>6, <2>1, <2>2
<1>10. S \in SUBSET Task /\ \A t \in S : pc[t] = "await" /\ subject[t] \in S
  BY <1>a, <1>8
<1>. QED  BY <1>9, <1>10 DEF Stuck

\* A run that can go no further has returned, has ended the process, or is blocked by
\* its own program: its awaits form a circle, or its threads wait at the channel.  No
\* start that fails, no early end of a task and no race of two joins leaves RunSemantic
\* waiting for a task that will never be done.
THEOREM OnlyProgramsBlock == Spec => []NeverStuck
<1>1. Init => Crashed \/ ChildInv
  <2>. SUFFICES ASSUME Init PROVE ChildInv
    OBVIOUS
  <2>1. \A t \in Task : t # Main /\ t \in Thread
    BY Threads
  <2>2. 1..0 = {}
    OBVIOUS
  <2>. QED  BY <2>1, <2>2 DEF Init, ChildInv
<1>2. TaskInv /\ (Crashed \/ ChildInv) /\ [Next]_vars => (Crashed \/ ChildInv)'
  <2>. SUFFICES ASSUME TaskInv, Crashed \/ ChildInv, [Next]_vars PROVE Crashed' \/ ChildInv'
    OBVIOUS
  <2>1. CASE Crashed
    <3>1. UNCHANGED vars
      BY <2>1, CrashIsFinal
    <3>. QED  BY <2>1, <3>1 DEF Crashed, vars
  <2>2. CASE ~Crashed
    BY <2>2, ChildStep DEF TaskInv
  <2>. QED  BY <2>1, <2>2
<1>3. TaskInv /\ (Crashed \/ ChildInv) => NeverStuck
  BY StuckIsBlocked DEF TaskInv, Crashed, NeverStuck
<1>. QED  BY <1>1, <1>2, <1>3, TasksAreSound, PTL DEF Spec
=============================================================================
