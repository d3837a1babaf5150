--------------------------- MODULE GuiSessionProofs ---------------------------
(****************************************************************************)
(* Theorems about GuiSession, for every number of goroutines and edits and  *)
(* all capacities of the three channels.                                    *)
(****************************************************************************)
EXTENDS GuiSession, SequenceTheorems, TLAPS

-----------------------------------------------------------------------------
(* The inductive invariant *)

\* A conversion has read its pane at the click, and nobody else's result is
\* taken for one.
SourceInv ==
    /\ \A j \in DOMAIN job : job[j].kind = "convert" =>
          job[j].pc # "read" /\ job[j].text = job[j].clicked
    /\ right # None => job[right].kind = "convert"

\* A channel carries the results of its kind of work, of work that has ended.
ChannelInv ==
    /\ \A k \in Kind : \A i \in 1..Len(queue[k]) :
          job[queue[k][i]].kind = k /\ job[queue[k][i]].pc = "done"
    /\ \A k \in {"convert", "run"} : generation[k] # None => job[generation[k]].kind = k

\* The result of j is still to come, and will end the busy state.
Queued(j) == \E k \in Kind : \E i \in 1..Len(queue[k]) : queue[k][i] = j
Coming(j) == job[j].pc # "done" \/ Queued(j)
Clears(j) == job[j].kind = "save" \/ generation[job[j].kind] = j

\* A busy window waits for a result, unless that was lost.
BusyInv == busy /\ lost = {} => \E j \in DOMAIN job : Coming(j) /\ Clears(j)

\* Once the code of the latest conversion has been delivered it is on display.
LatestInv ==
    LET g == generation["convert"] IN
    g # None /\ g \notin lost /\ ~Coming(g) /\ job[g].outcome \in {"code", "partial"}
        => right \in {None, g}

GuiInv == TypeOK /\ SourceInv /\ ChannelInv /\ BusyInv /\ LatestInv

-----------------------------------------------------------------------------
(* Facts about states *)

\* The kinds of work, and the constants, are what the assumption says.
LEMMA Kinds ==
    /\ Kind = {"convert", "run", "save"}
    /\ \A k \in Kind : Cap(k) \in Nat \ {0}
    /\ MaxJobs \in Nat /\ MaxEdits \in Nat
  BY GuiAssumption DEF Kind, Cap

\* The table of goroutines.
LEMMA Jobs ==
    ASSUME TypeOK
    PROVE  /\ job \in Seq(JobRecord) /\ Len(job) \in Nat /\ DOMAIN job = 1..Len(job)
           /\ \A j \in DOMAIN job : job[j] \in JobRecord
<1>1. job \in Seq(JobRecord)
  BY DEF TypeOK
<1>. QED  BY <1>1, LenProperties, ElementOfSeq

\* A result channel is a sequence of goroutines that exist.
LEMMA Queues ==
    ASSUME TypeOK, NEW k \in Kind
    PROVE  /\ queue[k] \in Seq(DOMAIN job) /\ Len(queue[k]) \in Nat
           /\ \A i \in 1..Len(queue[k]) : queue[k][i] \in DOMAIN job
<1>1. queue[k] \in Seq(DOMAIN job)
  BY DEF TypeOK
<1>. QED  BY <1>1, LenProperties, ElementOfSeq

\* The result at the head of a channel, and those behind it.
LEMMA FirstResult ==
    ASSUME TypeOK, NEW k \in Kind, queue[k] # <<>>
    PROVE  /\ Head(queue[k]) \in DOMAIN job /\ Head(queue[k]) = queue[k][1] /\ Len(queue[k]) > 0
           /\ Tail(queue[k]) \in Seq(DOMAIN job) /\ Len(Tail(queue[k])) = Len(queue[k]) - 1
           /\ \A i \in 1..Len(Tail(queue[k])) : Tail(queue[k])[i] = queue[k][i + 1]
           /\ \A i \in 1..Len(queue[k]) : i = 1 \/ Tail(queue[k])[i - 1] = queue[k][i]
<1>1. queue[k] \in Seq(DOMAIN job) /\ Len(queue[k]) \in Nat
  BY Queues
<1>2. Len(queue[k]) # 0
  BY <1>1, EmptySeq
<1>3. /\ Head(queue[k]) \in DOMAIN job /\ Tail(queue[k]) \in Seq(DOMAIN job)
      /\ Len(Tail(queue[k])) = Len(queue[k]) - 1
      /\ \A i \in 1..Len(Tail(queue[k])) : Tail(queue[k])[i] = queue[k][i + 1]
  BY <1>1, HeadTailProperties
<1>4. Head(queue[k]) = queue[k][1]
  BY <1>1
<1>5. \A i \in 1..Len(queue[k]) : i = 1 \/ Tail(queue[k])[i - 1] = queue[k][i]
  <2>. SUFFICES ASSUME NEW i \in 1..Len(queue[k]), i # 1
                PROVE  Tail(queue[k])[i - 1] = queue[k][i]
    OBVIOUS
  <2>1. i - 1 \in 1..Len(Tail(queue[k])) /\ (i - 1) + 1 = i
    BY <1>1, <1>3
  <2>. QED  BY <1>3, <2>1
<1>. QED  BY <1>1, <1>2, <1>3, <1>4, <1>5

\* A channel with one more result.
LEMMA NextResult ==
    ASSUME TypeOK, NEW k \in Kind, NEW j \in DOMAIN job
    PROVE  /\ Append(queue[k], j) \in Seq(DOMAIN job) /\ Len(Append(queue[k], j)) = Len(queue[k]) + 1
           /\ \A i \in 1..Len(queue[k]) : Append(queue[k], j)[i] = queue[k][i]
           /\ Append(queue[k], j)[Len(queue[k]) + 1] = j
  BY Queues, AppendProperties

-----------------------------------------------------------------------------
(* The three kinds of steps *)

\* A click adds the goroutine n.
Starts(n, kind, pc0) ==
    /\ n = Len(job) + 1 /\ kind \in Kind /\ pc0 \in {"read", "work"}
    /\ job' \in Seq(JobRecord) /\ DOMAIN job' = DOMAIN job \cup {n} /\ n \notin DOMAIN job
    /\ \A j \in DOMAIN job : job'[j] = job[j]
    /\ job'[n].kind = kind /\ job'[n].pc = pc0 /\ job'[n].text = job'[n].clicked
    /\ UNCHANGED <<left, right, queue, lost>>

\* StartJob appends one goroutine, and touches no other.
LEMMA StartIs ==
    ASSUME TypeOK, NEW kind \in Kind, NEW pc0 \in {"read", "work"}, StartJob(kind, pc0),
           UNCHANGED <<left, right, queue, lost>>
    PROVE  Starts(Len(job) + 1, kind, pc0)
<1>. DEFINE r == [kind |-> kind, clicked |-> Pane(kind), text |-> Pane(kind),
                  outcome |-> "none", pc |-> pc0]
<1>1. Pane(kind) \in Nat
  BY Jobs, Kinds DEF Pane, TypeOK, Edits, None
<1>2. r \in JobRecord
  BY <1>1 DEF JobRecord
<1>3. job' = Append(job, r)
  BY DEF StartJob
<1>4. /\ job' \in Seq(JobRecord) /\ Len(job') = Len(job) + 1 /\ job'[Len(job) + 1] = r
      /\ \A j \in 1..Len(job) : job'[j] = job[j]
  BY <1>2, <1>3, Jobs, AppendProperties
<1>5. DOMAIN job' = 1..Len(job')
  BY <1>4, LenProperties
<1>. QED  BY <1>4, <1>5, Jobs DEF Starts

\* The goroutine j ends, and its result reaches its channel or is lost.
Ends(j) ==
    LET k == job[j].kind IN
    /\ j \in DOMAIN job /\ job[j].pc = "work"
    /\ job' \in Seq(JobRecord) /\ DOMAIN job' = DOMAIN job
    /\ \A i \in DOMAIN job \ {j} : job'[i] = job[i]
    /\ job'[j].kind = k /\ job'[j].pc = "done"
    /\ job'[j].text = job[j].text /\ job'[j].clicked = job[j].clicked
    /\ \/ /\ Len(queue[k]) < Cap(k) /\ lost' = lost
          /\ queue' = [queue EXCEPT ![k] = Append(queue[k], j)]
       \/ lost' = lost \cup {j} /\ queue' = queue
    /\ UNCHANGED <<frame, left, right, busy, generation>>

\* Finish ends its goroutine and delivers the result, or loses it to a full channel.
LEMMA FinishIs ==
    ASSUME TypeOK, NEW j \in DOMAIN job, Finish(j)
    PROVE  Ends(j)
<1>1. PICK o \in Outcome : job' = [job EXCEPT ![j].pc = "done", ![j].outcome = o]
  BY DEF Finish, Outcome
<1>2. job[j] \in JobRecord
  BY Jobs
<1>3. [[job[j] EXCEPT !.pc = "done"] EXCEPT !.outcome = o] \in JobRecord
  BY <1>2 DEF JobRecord
<1>4. job' \in Seq(JobRecord)
  <2>1. job' = [job EXCEPT ![j] = [[job[j] EXCEPT !.pc = "done"] EXCEPT !.outcome = o]]
    BY <1>1
  <2>2. ASSUME NEW r \in JobRecord PROVE [job EXCEPT ![j] = r] \in Seq(JobRecord)
    BY Jobs, ExceptSeq
  <2>. QED  BY <1>3, <2>1, <2>2
<1>5. DOMAIN job' = DOMAIN job
  BY <1>1
<1>6. /\ \A i \in DOMAIN job \ {j} : job'[i] = job[i]
      /\ job'[j] = [[job[j] EXCEPT !.pc = "done"] EXCEPT !.outcome = o]
  BY <1>1
<1>7. job'[j].kind = job[j].kind /\ job'[j].pc = "done" /\ job'[j].text = job[j].text
      /\ job'[j].clicked = job[j].clicked
  BY <1>2, <1>6 DEF JobRecord
<1>8. queue = [queue EXCEPT ![job[j].kind] = queue[job[j].kind]]
  BY <1>2 DEF TypeOK, JobRecord
<1>. QED  BY <1>4, <1>5, <1>6, <1>7 DEF Finish, HasRoom, Ends

\* The goroutine j reads the editor late, which no conversion does.
LEMMA ReadIs ==
    ASSUME TypeOK, SourceInv, NEW j \in DOMAIN job, ReadEditor(j)
    PROVE  /\ job[j].kind # "convert" /\ job[j].pc = "read"
           /\ job' \in Seq(JobRecord) /\ DOMAIN job' = DOMAIN job
           /\ \A i \in DOMAIN job \ {j} : job'[i] = job[i]
           /\ job'[j].kind = job[j].kind /\ job'[j].pc = "work" /\ job'[j].outcome = job[j].outcome
<1>1. job[j] \in JobRecord /\ Pane(job[j].kind) \in Nat
  BY Jobs, Kinds DEF Pane, TypeOK, Edits, None
<1>2. [[job[j] EXCEPT !.pc = "work"] EXCEPT !.text = Pane(job[j].kind)] \in JobRecord
  BY <1>1 DEF JobRecord
<1>3. job' = [job EXCEPT ![j].pc = "work", ![j].text = Pane(job[j].kind)]
  BY DEF ReadEditor
<1>4. job' \in Seq(JobRecord)
  <2>1. job' = [job EXCEPT ![j] = [[job[j] EXCEPT !.pc = "work"] EXCEPT !.text = Pane(job[j].kind)]]
    BY <1>3
  <2>2. ASSUME NEW r \in JobRecord PROVE [job EXCEPT ![j] = r] \in Seq(JobRecord)
    BY Jobs, ExceptSeq
  <2>. QED  BY <1>2, <2>1, <2>2
<1>5. /\ DOMAIN job' = DOMAIN job /\ \A i \in DOMAIN job \ {j} : job'[i] = job[i]
      /\ job'[j] = [[job[j] EXCEPT !.pc = "work"] EXCEPT !.text = Pane(job[j].kind)]
  BY <1>3
<1>6. job'[j].kind = job[j].kind /\ job'[j].pc = "work" /\ job'[j].outcome = job[j].outcome
  BY <1>1, <1>5 DEF JobRecord
<1>. QED  BY <1>4, <1>5, <1>6 DEF ReadEditor, SourceInv

\* The UI thread takes the result of j from the channel k.
Takes(k, j) ==
    /\ k \in Kind /\ queue[k] # <<>> /\ j = Head(queue[k]) /\ j \in DOMAIN job
    /\ job[j].kind = k /\ job[j].pc = "done"
    /\ queue' = [queue EXCEPT ![k] = Tail(queue[k])]
    /\ busy' \in BOOLEAN /\ (busy' => busy /\ ~Clears(j))
    /\ right' = IF k = "convert" /\ generation["convert"] = j /\ job[j].outcome \in {"code", "partial"}
                THEN j ELSE right
    /\ UNCHANGED <<frame, left, generation, job, lost>>

\* Each of the three drains takes one result from its channel.
LEMMA ApplyIs ==
    ASSUME TypeOK, ChannelInv, ApplyConversion \/ ApplyRun \/ ApplySave
    PROVE  \E k \in Kind : \E j \in DOMAIN job : Takes(k, j)
<1>1. ASSUME NEW k \in Kind, Taken(k)
      PROVE  /\ queue[k] # <<>> /\ Head(queue[k]) \in DOMAIN job
             /\ job[Head(queue[k])].kind = k /\ job[Head(queue[k])].pc = "done"
  BY <1>1, FirstResult, Queues DEF Taken, ChannelInv
<1>2. ASSUME ApplyConversion PROVE Takes("convert", Head(queue["convert"]))
  BY <1>1, <1>2, Kinds DEF ApplyConversion, Taken, Takes, Current, Idle, Clears, TypeOK
<1>3. ASSUME ApplyRun PROVE Takes("run", Head(queue["run"]))
  BY <1>1, <1>3, Kinds DEF ApplyRun, Taken, Takes, Current, Idle, Clears, TypeOK
<1>4. ASSUME ApplySave PROVE Takes("save", Head(queue["save"]))
  BY <1>1, <1>4, Kinds DEF ApplySave, Taken, Takes, Idle, Clears, TypeOK
<1>. QED  BY <1>2, <1>3, <1>4, Kinds DEF Takes

\* What taking a result does to the channels.
LEMMA TakeIs ==
    ASSUME TypeOK, NEW k \in Kind, NEW j, Takes(k, j)
    PROVE  /\ j = queue[k][1] /\ \A l \in Kind \ {k} : queue'[l] = queue[l]
           /\ \A i \in 1..Len(queue'[k]) : i + 1 \in 1..Len(queue[k]) /\ queue'[k][i] = queue[k][i + 1]
           /\ \A i \in 1..Len(queue[k]) \ {1} :
                 i - 1 \in 1..Len(queue'[k]) /\ queue'[k][i - 1] = queue[k][i]
<1>1. queue'[k] = Tail(queue[k]) /\ \A l \in Kind \ {k} : queue'[l] = queue[l]
  BY DEF Takes, TypeOK
<1>2. Len(queue[k]) \in Nat /\ queue[k] # <<>> /\ j = Head(queue[k])
  BY Queues DEF Takes
<1>3. /\ Head(queue[k]) = queue[k][1] /\ Len(queue'[k]) = Len(queue[k]) - 1
      /\ \A i \in 1..Len(queue'[k]) : queue'[k][i] = queue[k][i + 1]
      /\ \A i \in 1..Len(queue[k]) : i = 1 \/ queue'[k][i - 1] = queue[k][i]
  BY <1>1, <1>2, FirstResult
<1>4. \A i \in 1..Len(queue'[k]) : i + 1 \in 1..Len(queue[k])
  BY <1>2, <1>3
<1>5. \A i \in 1..Len(queue[k]) \ {1} : i - 1 \in 1..Len(queue'[k])
  BY <1>2, <1>3
<1>. QED  BY <1>1, <1>2, <1>3, <1>4, <1>5

\* A click that starts a goroutine makes the window busy and the goroutine the
\* current one, except for Save As.
StartsWork(n, kind, pc0) ==
    /\ Starts(n, kind, pc0)
    /\ kind = "convert" => pc0 = "work"
    /\ frame' = frame
    /\ generation' = IF kind = "save" THEN generation ELSE [generation EXCEPT ![kind] = n]
    /\ busy' = IF kind = "save" /\ pc0 = "read" THEN busy ELSE TRUE

\* Each of the four clicks starts one goroutine.
LEMMA ClickIs ==
    ASSUME TypeOK, StartConvert \/ StartRun \/ StartSaveAs \/ StartSaveExecutable
    PROVE  \E kind \in Kind : \E pc0 \in {"read", "work"} : StartsWork(Len(job) + 1, kind, pc0)
<1>. USE Kinds DEF Late, Snapshot, ConvertReads, NewestJob, StartsWork
<1>1. ASSUME StartConvert PROVE StartsWork(Len(job) + 1, "convert", "work")
  BY <1>1, StartIs DEF StartConvert, StartJob
<1>2. ASSUME StartRun PROVE StartsWork(Len(job) + 1, "run", "read")
  BY <1>2, StartIs DEF StartRun, StartJob
<1>3. ASSUME StartSaveAs PROVE StartsWork(Len(job) + 1, "save", "read")
  BY <1>3, StartIs DEF StartSaveAs, StartJob
<1>4. ASSUME StartSaveExecutable PROVE StartsWork(Len(job) + 1, "save", "work")
  BY <1>4, StartIs DEF StartSaveExecutable, StartJob
<1>. QED  BY <1>1, <1>2, <1>3, <1>4

\* The other steps: nothing that is running or on its way changes.
Quiet ==
    /\ frame' \in {"drain", "clicks"} /\ left' \in Edits /\ right' \in {right, None}
    /\ UNCHANGED <<busy, generation, job, queue, lost>>

\* A step is a click, the end of a goroutine, a late read, a drain, or quiet.
LEMMA StepIs ==
    ASSUME TypeOK, SourceInv, ChannelInv, [Next]_vars
    PROVE  \/ \E kind \in Kind : \E pc0 \in {"read", "work"} : StartsWork(Len(job) + 1, kind, pc0)
           \/ \E j \in DOMAIN job : Ends(j) \/ ReadEditor(j)
           \/ \E k \in Kind : \E j \in DOMAIN job : Takes(k, j)
           \/ Quiet
<1>1. CASE StartConvert \/ StartRun \/ StartSaveAs \/ StartSaveExecutable
  BY <1>1, ClickIs
<1>2. CASE \E j \in DOMAIN job : Goroutine(j)
  BY <1>2, FinishIs DEF Goroutine
<1>3. CASE ApplyConversion \/ ApplyRun \/ ApplySave
  BY <1>3, ApplyIs
<1>4. CASE Edit \/ NewDocument \/ NextFrame \/ DrainEnds \/ UNCHANGED vars
  <2>1. Edit \/ NewDocument => left + 1 \in Edits
    BY Kinds DEF Edit, NewDocument, TypeOK, Edits
  <2>. QED  BY <1>4, <2>1 DEF Edit, NewDocument, NextFrame, DrainEnds, vars, Quiet, TypeOK
<1>. QED  BY <1>1, <1>2, <1>3, <1>4 DEF Next, Clicks

-----------------------------------------------------------------------------
(* Every step keeps the invariant *)

\* Every step keeps the types.
LEMMA TypeStep ==
    ASSUME TypeOK, SourceInv, ChannelInv, [Next]_vars
    PROVE  TypeOK'
<1>1. ASSUME NEW kind \in Kind, NEW pc0 \in {"read", "work"}, StartsWork(Len(job) + 1, kind, pc0)
      PROVE  TypeOK'
  <2>1. Starts(Len(job) + 1, kind, pc0) /\ DOMAIN job \subseteq DOMAIN job'
    BY <1>1 DEF StartsWork, Starts
  <2>2. \A k \in Kind : queue[k] \in Seq(DOMAIN job')
    <3>. SUFFICES ASSUME NEW k \in Kind PROVE queue[k] \in Seq(DOMAIN job')
      OBVIOUS
    <3>1. queue[k] \in Seq(DOMAIN job)
      BY Queues
    <3>. QED  BY <2>1, <3>1
  <2>3. generation' \in [{"convert", "run"} -> {None} \cup DOMAIN job']
    BY <1>1, <2>1, Kinds DEF StartsWork, Starts, TypeOK
  <2>. QED  BY <1>1, <2>1, <2>2, <2>3 DEF StartsWork, Starts, TypeOK
<1>2. ASSUME NEW j \in DOMAIN job, Ends(j) PROVE TypeOK'
  <2>1. job[j].kind \in Kind
    BY Jobs DEF JobRecord
  <2>2. queue' \in [Kind -> Seq(DOMAIN job')] /\ \A k \in Kind : Len(queue'[k]) <= Cap(k)
    <3>1. CASE queue' = queue
      BY <1>2, <3>1 DEF Ends, TypeOK
    <3>2. CASE /\ Len(queue[job[j].kind]) < Cap(job[j].kind)
               /\ queue' = [queue EXCEPT ![job[j].kind] = Append(queue[job[j].kind], j)]
      <4>1. /\ Append(queue[job[j].kind], j) \in Seq(DOMAIN job)
            /\ Len(Append(queue[job[j].kind], j)) = Len(queue[job[j].kind]) + 1
        BY <2>1, NextResult
      <4>2. Len(queue[job[j].kind]) + 1 <= Cap(job[j].kind)
        BY <2>1, <3>2, Kinds, Queues
      <4>. QED  BY <1>2, <2>1, <3>2, <4>1, <4>2 DEF Ends, TypeOK
    <3>. QED  BY <1>2, <3>1, <3>2 DEF Ends
  <2>. QED  BY <1>2, <2>2 DEF Ends, TypeOK
<1>3. ASSUME NEW j \in DOMAIN job, ReadEditor(j) PROVE TypeOK'
  <2>1. job' \in Seq(JobRecord) /\ DOMAIN job' = DOMAIN job
    BY <1>3, ReadIs
  <2>. QED  BY <1>3, <2>1 DEF ReadEditor, TypeOK
<1>4. ASSUME NEW k \in Kind, NEW j \in DOMAIN job, Takes(k, j) PROVE TypeOK'
  <2>1. Tail(queue[k]) \in Seq(DOMAIN job) /\ Len(Tail(queue[k])) = Len(queue[k]) - 1
    BY <1>4, FirstResult DEF Takes
  <2>2. Len(queue[k]) \in Nat /\ Len(queue[k]) <= Cap(k) /\ Cap(k) \in Nat
    BY Queues, Kinds DEF TypeOK
  <2>3. queue' \in [Kind -> Seq(DOMAIN job')] /\ \A l \in Kind : Len(queue'[l]) <= Cap(l)
    BY <1>4, <2>1, <2>2 DEF Takes, TypeOK
  <2>. QED  BY <1>4, <2>3 DEF Takes, TypeOK
<1>5. CASE Quiet
  BY <1>5 DEF Quiet, TypeOK
<1>. QED  BY <1>1, <1>2, <1>3, <1>4, <1>5, StepIs

\* No step gives a conversion another text, or a result to another kind of work.
LEMMA SourceStep ==
    ASSUME TypeOK, SourceInv, ChannelInv, [Next]_vars
    PROVE  SourceInv'
<1>0. right # None => right \in DOMAIN job
  BY DEF TypeOK
<1>1. ASSUME NEW kind \in Kind, NEW pc0 \in {"read", "work"}, StartsWork(Len(job) + 1, kind, pc0)
      PROVE  SourceInv'
  BY <1>1 DEF StartsWork, Starts, SourceInv, TypeOK
<1>2. ASSUME NEW j \in DOMAIN job, Ends(j) PROVE SourceInv'
  <2>1. \A i \in DOMAIN job : job'[i].kind = job[i].kind
    BY <1>2 DEF Ends
  <2>2. ASSUME NEW i \in DOMAIN job', job'[i].kind = "convert"
        PROVE  job'[i].pc # "read" /\ job'[i].text = job'[i].clicked
    <3>1. i \in DOMAIN job /\ job[i].kind = "convert"
      BY <1>2, <2>1, <2>2 DEF Ends
    <3>2. job[i].pc # "read" /\ job[i].text = job[i].clicked
      BY <3>1 DEF SourceInv
    <3>. QED  BY <1>2, <3>1, <3>2 DEF Ends
  <2>3. right' = right
    BY <1>2 DEF Ends
  <2>. QED  BY <1>0, <2>1, <2>2, <2>3 DEF SourceInv
<1>3. ASSUME NEW j \in DOMAIN job, ReadEditor(j) PROVE SourceInv'
  <2>1. /\ job[j].kind # "convert" /\ job'[j].kind = job[j].kind /\ DOMAIN job' = DOMAIN job
        /\ \A i \in DOMAIN job \ {j} : job'[i] = job[i]
    BY <1>3, ReadIs
  <2>2. right' = right
    BY <1>3 DEF ReadEditor
  <2>3. \A i \in DOMAIN job : job'[i].kind = "convert" => job'[i] = job[i] /\ i # j
    BY <2>1
  <2>4. right # None => job'[right].kind = "convert"
    BY <1>0, <2>1 DEF SourceInv
  <2>. QED  BY <2>1, <2>2, <2>3, <2>4 DEF SourceInv
<1>4. ASSUME NEW k \in Kind, NEW j \in DOMAIN job, Takes(k, j) PROVE SourceInv'
  BY <1>4 DEF Takes, SourceInv
<1>5. CASE Quiet
  BY <1>5 DEF Quiet, SourceInv
<1>. QED  BY <1>1, <1>2, <1>3, <1>4, <1>5, StepIs

\* Every step keeps the channels true to their kinds.
LEMMA ChannelStep ==
    ASSUME TypeOK, SourceInv, ChannelInv, [Next]_vars
    PROVE  ChannelInv'
<1>0. \A k \in Kind : \A i \in 1..Len(queue[k]) :
         queue[k][i] \in DOMAIN job /\ job[queue[k][i]].kind = k /\ job[queue[k][i]].pc = "done"
  BY Queues DEF ChannelInv
<1>1. ASSUME NEW kind \in Kind, NEW pc0 \in {"read", "work"}, StartsWork(Len(job) + 1, kind, pc0)
      PROVE  ChannelInv'
  <2>1. queue' = queue /\ \A j \in DOMAIN job : job'[j] = job[j]
    BY <1>1 DEF StartsWork, Starts
  <2>2. \A k \in {"convert", "run"} : generation'[k] # None => job'[generation'[k]].kind = k
    BY <1>1, <2>1 DEF StartsWork, Starts, ChannelInv, TypeOK
  <2>. QED  BY <1>0, <2>1, <2>2 DEF ChannelInv
<1>2. ASSUME NEW j \in DOMAIN job, Ends(j) PROVE ChannelInv'
  <2>1. \A i \in DOMAIN job : job'[i].kind = job[i].kind /\ (job[i].pc = "done" => job'[i].pc = "done")
    BY <1>2 DEF Ends
  <2>2. \A k \in {"convert", "run"} : generation'[k] # None => job'[generation'[k]].kind = k
    BY <1>2, <2>1 DEF Ends, ChannelInv, TypeOK
  <2>3. ASSUME NEW k \in Kind, NEW i \in 1..Len(queue'[k])
        PROVE  job'[queue'[k][i]].kind = k /\ job'[queue'[k][i]].pc = "done"
    <3>1. CASE queue'[k] = queue[k]
      BY <1>0, <2>1, <3>1
    <3>2. CASE k = job[j].kind /\ queue'[k] = Append(queue[k], j)
      <4>1. (i \in 1..Len(queue[k]) /\ queue'[k][i] = queue[k][i]) \/ queue'[k][i] = j
        BY <3>2, NextResult, Queues
      <4>. QED  BY <1>0, <1>2, <2>1, <3>2, <4>1 DEF Ends
    <3>. QED  BY <1>2, <3>1, <3>2 DEF Ends, TypeOK
  <2>. QED  BY <2>2, <2>3 DEF ChannelInv
<1>3. ASSUME NEW j \in DOMAIN job, ReadEditor(j) PROVE ChannelInv'
  <2>1. \A i \in DOMAIN job : job'[i].kind = job[i].kind /\ (job[i].pc = "done" => job'[i].pc = "done")
    BY <1>3, ReadIs
  <2>2. UNCHANGED <<queue, generation>>
    BY <1>3 DEF ReadEditor
  <2>. QED  BY <1>0, <2>1, <2>2 DEF ChannelInv, TypeOK
<1>4. ASSUME NEW k \in Kind, NEW j \in DOMAIN job, Takes(k, j) PROVE ChannelInv'
  <2>1. UNCHANGED <<job, generation>>
    BY <1>4 DEF Takes
  <2>2. ASSUME NEW l \in Kind, NEW i \in 1..Len(queue'[l])
        PROVE  job[queue'[l][i]].kind = l /\ job[queue'[l][i]].pc = "done"
    <3>1. CASE l # k
      BY <1>0, <1>4, <3>1 DEF Takes, TypeOK
    <3>2. CASE l = k
      <4>1. PICK m \in 1..Len(queue[k]) : queue'[l][i] = queue[k][m]
        BY <1>4, <3>2, TakeIs
      <4>2. job[queue[k][m]].kind = k /\ job[queue[k][m]].pc = "done"
        BY <1>0
      <4>. QED  BY <3>2, <4>1, <4>2
    <3>. QED  BY <3>1, <3>2
  <2>. QED  BY <2>1, <2>2 DEF ChannelInv
<1>5. CASE Quiet
  BY <1>5 DEF Quiet, ChannelInv
<1>. QED  BY <1>1, <1>2, <1>3, <1>4, <1>5, StepIs

\* The result of j is delivered in no step but the one that takes it.
LEMMA StaysComing ==
    ASSUME TypeOK, SourceInv, ChannelInv, [Next]_vars, NEW j \in DOMAIN job, Coming(j),
           j \notin lost', \A k \in Kind : ~Takes(k, j)
    PROVE  Coming(j)'
<1>1. ASSUME NEW kind \in Kind, NEW pc0 \in {"read", "work"}, StartsWork(Len(job) + 1, kind, pc0)
      PROVE  Coming(j)'
  BY <1>1 DEF StartsWork, Starts, Coming, Queued
<1>2. ASSUME NEW i \in DOMAIN job, Ends(i) PROVE Coming(j)'
  <2>0. job[i].kind \in Kind
    BY Jobs DEF JobRecord
  <2>1. CASE i = j
    <3>1. queue'[job[j].kind] = Append(queue[job[j].kind], j)
      BY <1>2, <2>0, <2>1 DEF Ends, TypeOK
    <3>2. Len(queue'[job[j].kind]) \in 1..Len(queue'[job[j].kind])
          /\ queue'[job[j].kind][Len(queue'[job[j].kind])] = j
      BY <2>0, <2>1, <3>1, NextResult, Queues
    <3>. QED  BY <2>0, <2>1, <3>2 DEF Coming, Queued
  <2>2. CASE i # j /\ job[j].pc # "done"
    BY <1>2, <2>2 DEF Ends, Coming
  <2>3. CASE i # j /\ Queued(j)
    <3>1. PICK k \in Kind : \E m \in 1..Len(queue[k]) : queue[k][m] = j
      BY <2>3 DEF Queued
    <3>2. PICK m \in 1..Len(queue[k]) : queue[k][m] = j
      BY <3>1
    <3>3. CASE queue'[k] = queue[k]
      BY <3>2, <3>3 DEF Coming, Queued
    <3>4. CASE queue'[k] = Append(queue[k], i)
      <4>1. m \in 1..Len(queue'[k]) /\ queue'[k][m] = j
        BY <3>2, <3>4, NextResult, Queues
      <4>. QED  BY <4>1 DEF Coming, Queued
    <3>. QED  BY <1>2, <3>3, <3>4 DEF Ends, TypeOK
  <2>. QED  BY <2>1, <2>2, <2>3 DEF Coming
<1>3. ASSUME NEW i \in DOMAIN job, ReadEditor(i) PROVE Coming(j)'
  <2>1. queue' = queue /\ (job[j].pc # "done" => job'[j].pc # "done")
    BY <1>3, ReadIs DEF ReadEditor
  <2>. QED  BY <2>1 DEF Coming, Queued
<1>4. ASSUME NEW k \in Kind, NEW i \in DOMAIN job, Takes(k, i) PROVE Coming(j)'
  <2>0. i # j /\ job' = job
    BY <1>4 DEF Takes
  <2>1. CASE Queued(j)
    <3>1. PICK l \in Kind : \E m \in 1..Len(queue[l]) : queue[l][m] = j
      BY <2>1 DEF Queued
    <3>2. PICK m \in 1..Len(queue[l]) : queue[l][m] = j
      BY <3>1
    <3>3. CASE l # k
      BY <1>4, <3>2, <3>3 DEF Takes, Coming, Queued, TypeOK
    <3>4. CASE l = k
      <4>1. m # 1
        BY <1>4, <2>0, <3>2, <3>4, TakeIs
      <4>2. m - 1 \in 1..Len(queue'[k]) /\ queue'[k][m - 1] = j
        BY <1>4, <3>2, <3>4, <4>1, TakeIs
      <4>3. Queued(j)'
        BY <4>2 DEF Queued
      <4>. QED  BY <4>3 DEF Coming
    <3>. QED  BY <3>3, <3>4
  <2>2. CASE job[j].pc # "done"
    BY <2>0, <2>2 DEF Coming
  <2>. QED  BY <2>1, <2>2 DEF Coming
<1>5. CASE Quiet
  BY <1>5 DEF Quiet, Coming, Queued
<1>. QED  BY <1>1, <1>2, <1>3, <1>4, <1>5, StepIs

\* Work that has ended and been delivered stays so.
LEMMA StaysDelivered ==
    ASSUME TypeOK, SourceInv, ChannelInv, [Next]_vars, NEW j \in DOMAIN job, Coming(j)', ~Coming(j)
    PROVE  FALSE
<1>0. job[j].pc = "done" /\ ~Queued(j)
  BY DEF Coming
<1>1. ASSUME NEW kind \in Kind, NEW pc0 \in {"read", "work"}, StartsWork(Len(job) + 1, kind, pc0)
      PROVE  FALSE
  BY <1>0, <1>1 DEF StartsWork, Starts, Coming, Queued
<1>2. ASSUME NEW i \in DOMAIN job, Ends(i) PROVE FALSE
  <2>0. i # j /\ job'[j].pc = "done" /\ Queued(j)'
    BY <1>0, <1>2 DEF Ends, Coming
  <2>1. PICK k \in Kind : \E m \in 1..Len(queue'[k]) : queue'[k][m] = j
    BY <2>0 DEF Queued
  <2>2. PICK m \in 1..Len(queue'[k]) : queue'[k][m] = j
    BY <2>1
  <2>3. CASE queue'[k] = queue[k]
    BY <1>0, <2>2, <2>3 DEF Queued
  <2>4. CASE queue'[k] = Append(queue[k], i)
    <3>1. m \in 1..Len(queue[k]) /\ queue[k][m] = j
      BY <2>0, <2>2, <2>4, NextResult, Queues
    <3>. QED  BY <1>0, <3>1 DEF Queued
  <2>. QED  BY <1>2, <2>3, <2>4 DEF Ends, TypeOK
<1>3. ASSUME NEW i \in DOMAIN job, ReadEditor(i) PROVE FALSE
  <2>1. queue' = queue /\ i # j /\ job'[j] = job[j]
    BY <1>0, <1>3, ReadIs DEF ReadEditor
  <2>. QED  BY <1>0, <2>1 DEF Coming, Queued
<1>4. ASSUME NEW k \in Kind, NEW i \in DOMAIN job, Takes(k, i) PROVE FALSE
  <2>0. job' = job /\ Queued(j)'
    BY <1>0, <1>4 DEF Takes, Coming
  <2>1. PICK l \in Kind : \E m \in 1..Len(queue'[l]) : queue'[l][m] = j
    BY <2>0 DEF Queued
  <2>2. PICK m \in 1..Len(queue'[l]) : queue'[l][m] = j
    BY <2>1
  <2>3. CASE l # k
    BY <1>0, <1>4, <2>2, <2>3 DEF Takes, Queued, TypeOK
  <2>4. CASE l = k
    <3>1. m + 1 \in 1..Len(queue[k]) /\ queue[k][m + 1] = j
      BY <1>4, <2>2, <2>4, TakeIs
    <3>. QED  BY <1>0, <3>1 DEF Queued
  <2>. QED  BY <2>3, <2>4
<1>5. CASE Quiet
  BY <1>0, <1>5 DEF Quiet, Coming, Queued
<1>. QED  BY <1>1, <1>2, <1>3, <1>4, <1>5, StepIs

\* Whoever sets the busy flag leaves somebody to clear it.
LEMMA BusyStep ==
    ASSUME TypeOK, SourceInv, ChannelInv, BusyInv, [Next]_vars
    PROVE  BusyInv'
<1>. SUFFICES ASSUME busy', lost' = {} PROVE \E j \in DOMAIN job' : Coming(j)' /\ Clears(j)'
  BY DEF BusyInv
\* Whoever was to clear the flag still is, unless a click has made it another.
<1>1. ASSUME NEW j \in DOMAIN job, Coming(j), Clears(j), generation' = generation,
             \A k \in Kind : ~Takes(k, j)
      PROVE  \E i \in DOMAIN job' : Coming(i)' /\ Clears(i)'
  <2>1. j \in DOMAIN job' /\ job'[j].kind = job[j].kind
    BY StepIs, ReadIs DEF StartsWork, Starts, Ends, Takes, Quiet
  <2>2. Coming(j)'
    BY <1>1, StaysComing
  <2>. QED  BY <1>1, <2>1, <2>2 DEF Clears
<1>2. lost = {}
  BY StepIs, ReadIs DEF StartsWork, Starts, Ends, ReadEditor, Takes, Quiet
<1>3. ASSUME NEW kind \in Kind, NEW pc0 \in {"read", "work"}, StartsWork(Len(job) + 1, kind, pc0)
      PROVE  \E i \in DOMAIN job' : Coming(i)' /\ Clears(i)'
  <2>1. PICK n \in DOMAIN job' : /\ n = Len(job) + 1 /\ job'[n].kind = kind /\ job'[n].pc # "done"
                                 /\ (kind # "save" => generation'[kind] = n)
    BY <1>3, Kinds DEF StartsWork, Starts, TypeOK
  <2>. QED  BY <2>1 DEF Coming, Clears
<1>4. ASSUME NEW k \in Kind, NEW i \in DOMAIN job, Takes(k, i)
      PROVE  \E j \in DOMAIN job' : Coming(j)' /\ Clears(j)'
  <2>1. busy /\ generation' = generation /\ ~Clears(i)
    BY <1>4 DEF Takes
  <2>2. PICK j \in DOMAIN job : Coming(j) /\ Clears(j)
    BY <1>2, <2>1 DEF BusyInv
  <2>3. \A l \in Kind : ~Takes(l, j)
    BY <2>2 DEF Takes
  <2>. QED  BY <1>1, <2>1, <2>2, <2>3
<1>5. ASSUME busy' = busy, generation' = generation, \A k \in Kind : \A j \in DOMAIN job : ~Takes(k, j)
      PROVE  \E j \in DOMAIN job' : Coming(j)' /\ Clears(j)'
  BY <1>1, <1>2, <1>5 DEF BusyInv
<1>6. ASSUME NEW j \in DOMAIN job, Ends(j) \/ ReadEditor(j)
      PROVE  busy' = busy /\ generation' = generation
  BY <1>6 DEF Ends, ReadEditor
<1>7. Quiet => busy' = busy /\ generation' = generation
  BY DEF Quiet
<1>. QED  BY <1>3, <1>4, <1>5, <1>6, <1>7, StepIs

\* No late result takes the pane from the latest conversion.
LEMMA LatestStep ==
    ASSUME TypeOK, SourceInv, ChannelInv, LatestInv, [Next]_vars
    PROVE  LatestInv'
<1>. DEFINE g == generation["convert"]
<1>0. g \in {None} \cup DOMAIN job /\ None \notin DOMAIN job
  BY Jobs DEF TypeOK, None
\* The latest conversion is unchanged: it was delivered before, or just now.
<1>1. ASSUME generation'["convert"] = g, g # None, g \notin lost', ~Coming(g)',
             job'[g].outcome \in {"code", "partial"}, job'[g].outcome = job[g].outcome \/ Ends(g),
             lost \subseteq lost', right' \in {right, None, g}
      PROVE  right' \in {None, g}
  <2>1. CASE Coming(g)
    <3>1. PICK k \in Kind : Takes(k, g)
      BY <1>0, <1>1, <2>1, StaysComing
    <3>2. job[g].kind = "convert" /\ job' = job
      BY <1>1, <3>1 DEF ChannelInv, Takes
    <3>. QED  BY <1>1, <3>1, <3>2 DEF Takes
  <2>2. CASE ~Coming(g)
    <3>1. ~Ends(g)
      BY <2>2 DEF Ends, Coming
    <3>. QED  BY <1>1, <2>2, <3>1 DEF LatestInv
  <2>. QED  BY <2>1, <2>2
<1>2. ASSUME NEW kind \in Kind, NEW pc0 \in {"read", "work"}, StartsWork(Len(job) + 1, kind, pc0)
      PROVE  LatestInv'
  <2>1. CASE kind = "convert"
    <3>1. job'[generation'["convert"]].pc = "work"
      BY <1>2, <2>1 DEF StartsWork, Starts, TypeOK
    <3>. QED  BY <3>1 DEF LatestInv, Coming
  <2>2. CASE kind # "convert"
    <3>1. generation'["convert"] = g /\ \A j \in DOMAIN job : job'[j] = job[j]
      BY <1>2, <2>2, Kinds DEF StartsWork, Starts, TypeOK
    <3>. QED  BY <1>0, <1>1, <1>2, <3>1 DEF StartsWork, Starts, LatestInv
  <2>. QED  BY <2>1, <2>2
<1>3. ASSUME NEW j \in DOMAIN job, Ends(j) PROVE LatestInv'
  <2>1. g # None => job'[g] = job[g] \/ Ends(g)
    BY <1>0, <1>3 DEF Ends
  <2>. QED  BY <1>1, <1>3, <2>1 DEF Ends, LatestInv
<1>4. ASSUME NEW j \in DOMAIN job, ReadEditor(j) PROVE LatestInv'
  <2>1. g # None => job'[g].outcome = job[g].outcome
    BY <1>0, <1>4, ReadIs
  <2>. QED  BY <1>1, <1>4, <2>1 DEF ReadEditor, LatestInv
<1>5. ASSUME NEW k \in Kind, NEW j \in DOMAIN job, Takes(k, j) PROVE LatestInv'
  BY <1>1, <1>5 DEF Takes, LatestInv
<1>6. CASE Quiet
  BY <1>1, <1>6 DEF Quiet, LatestInv
<1>. QED  BY <1>2, <1>3, <1>4, <1>5, <1>6, StepIs

-----------------------------------------------------------------------------
(* The theorems *)

\* The window opens idle, with empty channels.
LEMMA GuiInit == Init => GuiInv
<1>. SUFFICES ASSUME Init PROVE GuiInv
  OBVIOUS
<1>1. job = <<>> /\ DOMAIN job = {} /\ Len(job) = 0 /\ job \in Seq(JobRecord)
  BY EmptySeq DEF Init
<1>2. TypeOK
  <2>1. \A k \in Kind : queue[k] = <<>> /\ Len(queue[k]) = 0 /\ queue[k] \in Seq(DOMAIN job)
    BY EmptySeq DEF Init
  <2>2. queue \in [Kind -> Seq(DOMAIN job)]
    BY <2>1 DEF Init
  <2>3. \A k \in Kind : Len(queue[k]) <= Cap(k)
    BY <2>1, Kinds
  <2>4. generation \in [{"convert", "run"} -> {None} \cup DOMAIN job]
    BY DEF Init
  <2>5. left \in Edits
    BY Kinds DEF Init, Edits
  <2>6. frame \in {"drain", "clicks"} /\ right \in {None} \cup DOMAIN job /\ busy \in BOOLEAN
        /\ lost \subseteq DOMAIN job
    BY DEF Init
  <2>. QED  BY <1>1, <2>2, <2>3, <2>4, <2>5, <2>6 DEF TypeOK
<1>3. SourceInv /\ ChannelInv /\ BusyInv /\ LatestInv
  BY <1>1, EmptySeq DEF Init, SourceInv, ChannelInv, BusyInv, LatestInv
<1>. QED  BY <1>2, <1>3 DEF GuiInv

\* The parts of the invariant are kept together.
LEMMA GuiStep == GuiInv /\ [Next]_vars => GuiInv'
  BY TypeStep, SourceStep, ChannelStep, BusyStep, LatestStep DEF GuiInv

\* Every goroutine, its result and the flags the UI thread keeps about it are
\* tracked by the inductive invariant.
THEOREM GuiIsInvariant == Spec => []GuiInv
  BY GuiInit, GuiStep, PTL DEF Spec

\* The three channels keep to their capacities and to results of goroutines
\* that exist; generations and the right pane name such goroutines.
THEOREM GuiTypes == Spec => []TypeOK
<1>1. GuiInv => TypeOK
  BY DEF GuiInv
<1>. QED  BY <1>1, GuiIsInvariant, PTL

\* The code in the right pane was made from the text of its click (ui.go,
\* startConvert), however much was typed meanwhile.
THEOREM ConversionsOwnTheirSource == Spec => []ConversionOwnsSource
<1>1. GuiInv => ConversionOwnsSource
  BY DEF GuiInv, SourceInv, ConversionOwnsSource, TypeOK
<1>. QED  BY <1>1, GuiIsInvariant, PTL

\* Unless a result was lost to a full channel, the window is idle once nothing
\* runs and no result is on its way (ui.go, applyBackgroundResults).
THEOREM IdleAtTheEnd == Spec => []BusyEnds
<1>1. GuiInv => BusyEnds
  <2>. SUFFICES ASSUME GuiInv, Settled, lost = {}, busy PROVE FALSE
    BY DEF BusyEnds
  <2>1. PICK j \in DOMAIN job : Coming(j)
    BY DEF GuiInv, BusyInv
  <2>2. \A k \in Kind : Len(queue[k]) = 0
    BY EmptySeq DEF Settled
  <2>. QED  BY <2>1, <2>2 DEF Settled, Coming, Queued
<1>. QED  BY <1>1, GuiIsInvariant, PTL

\* The right pane ends with the code of the last conversion asked for, in
\* whatever order conversions end.
THEOREM LatestConversionIsShown == Spec => []LatestConversionWins
<1>1. GuiInv => LatestConversionWins
  <2>. SUFFICES ASSUME GuiInv, Settled, generation["convert"] # None,
                       generation["convert"] \notin lost,
                       job[generation["convert"]].outcome \in {"code", "partial"}
                PROVE  right \in {None, generation["convert"]}
    BY DEF LatestConversionWins
  <2>1. \A k \in Kind : Len(queue[k]) = 0
    BY EmptySeq DEF Settled
  <2>2. generation["convert"] \in DOMAIN job
    BY DEF GuiInv, TypeOK
  <2>3. ~Coming(generation["convert"])
    BY <2>1, <2>2 DEF Settled, Coming, Queued
  <2>. QED  BY <2>3 DEF GuiInv, LatestInv
<1>. QED  BY <1>1, GuiIsInvariant, PTL
=============================================================================
