------------------------------- MODULE GuiSession -------------------------------
(****************************************************************************)
(* Background work of the GUI (internal/ui/ui.go): startConvert, startRun,  *)
(* startSaveAs and startSaveExecutable start a goroutine each; it offers    *)
(* its result to a bounded channel without blocking, and every frame of the *)
(* UI thread first drains the channels (applyBackgroundResults) and then    *)
(* handles the clicks.                                                      *)
(*                                                                          *)
(* A text is reduced to the number of edits it has seen, the code in the    *)
(* right pane to the conversion that made it.                               *)
(****************************************************************************)
EXTENDS Integers, Sequences, FiniteSets

CONSTANTS
    MaxJobs,     \* bound on the goroutines started
    MaxEdits,    \* bound on the edits of the left pane
    ConvertCap, RunCap, SaveCap   \* the channel capacities

ASSUME GuiAssumption ==
    /\ MaxJobs \in Nat /\ MaxEdits \in Nat
    /\ {ConvertCap, RunCap, SaveCap} \subseteq Nat \ {0}

Job     == 1..MaxJobs
Edits   == 0..MaxEdits
Kind    == {"convert", "run", "save"}
None    == 0
Outcome == {"code", "blank", "failed", "partial"}   \* "partial": an error, with code
Cap(k)  == [convert |-> ConvertCap, run |-> RunCap, save |-> SaveCap][k]

VARIABLES
    frame,       \* the UI thread: "drain" or "clicks"
    left,        \* edits the left pane has seen
    right,       \* the conversion whose code the right pane shows, or None
    busy,
    generation,  \* convertGeneration and runGeneration: the job they name
    job,         \* every goroutine started
    queue,       \* contents of the three result channels
    lost         \* the jobs whose result found its channel full

vars == <<frame, left, right, busy, generation, job, queue, lost>>

\* A build of an executable reports on saveResults, like Save As.
JobRecord == [kind     : Kind,
              clicked  : Nat,               \* the pane it reads, at the click
              text     : Nat,               \* the pane as read
              outcome  : Outcome \cup {"none"},
              pc       : {"read", "work", "done"}]

Init ==
    /\ frame = "drain"
    /\ left = 0 /\ right = None
    /\ busy = FALSE
    /\ generation = [k \in {"convert", "run"} |-> None]
    /\ job = <<>>
    /\ queue = [k \in Kind |-> <<>>]
    /\ lost = {}

-----------------------------------------------------------------------------
(* Clicks *)

\* The goroutine's own read of the editor is still to come, or done already.
Late     == "read"
Snapshot == "work"
ConvertsLate == Late                                                \* mutant
ConvertReads == Snapshot

\* Conversions and runs read the left pane, saves the right one.
Pane(kind) == IF kind = "save" THEN right ELSE left

StartJob(kind, pc) ==
    /\ frame = "clicks" /\ Len(job) < MaxJobs
    /\ job' = Append(job, [kind |-> kind, clicked |-> Pane(kind), text |-> Pane(kind),
                           outcome |-> "none", pc |-> pc])
NewestJob == Len(job) + 1

StartConvert ==
    /\ StartJob("convert", ConvertReads)
    /\ generation' = [generation EXCEPT !["convert"] = NewestJob]
    /\ busy' = TRUE
    /\ UNCHANGED <<frame, left, right, queue, lost>>

StartRun ==
    /\ StartJob("run", Late)
    /\ generation' = [generation EXCEPT !["run"] = NewestJob]
    /\ busy' = TRUE
    /\ UNCHANGED <<frame, left, right, queue, lost>>

\* Save As does not make the window busy.
StartSaveAs ==
    /\ StartJob("save", Late)
    /\ UNCHANGED <<frame, left, right, busy, generation, queue, lost>>

StartSaveExecutable ==
    /\ ~busy
    /\ StartJob("save", Snapshot)
    /\ busy' = TRUE
    /\ UNCHANGED <<frame, left, right, generation, queue, lost>>

Edit ==
    /\ frame = "clicks" /\ left < MaxEdits
    /\ left' = left + 1
    /\ UNCHANGED <<frame, right, busy, generation, job, queue, lost>>

\* File, New empties both panes and leaves running work alone.
NewDocument ==
    /\ frame = "clicks" /\ left < MaxEdits
    /\ left' = left + 1 /\ right' = None
    /\ UNCHANGED <<frame, busy, generation, job, queue, lost>>

NextFrame ==
    /\ frame = "clicks"
    /\ frame' = "drain"
    /\ UNCHANGED <<left, right, busy, generation, job, queue, lost>>

Clicks == StartConvert \/ StartRun \/ StartSaveAs \/ StartSaveExecutable \/ Edit
            \/ NewDocument \/ NextFrame

-----------------------------------------------------------------------------
(* The goroutines *)

ReadEditor(j) ==
    /\ job[j].pc = "read"
    /\ job' = [job EXCEPT ![j].pc = "work", ![j].text = Pane(job[j].kind)]
    /\ UNCHANGED <<frame, left, right, busy, generation, queue, lost>>

HasRoomOffByOne(k) == Len(queue[k]) <= Cap(k)                        \* mutant
HasRoom(k)         == Len(queue[k]) < Cap(k)

\* The work ends in a select with a default: a full channel loses the result.
\* The outcome of a run or a save only shows in the wording.
Finish(j) ==
    LET k == job[j].kind IN
    /\ job[j].pc = "work"
    /\ \E o \in IF k = "convert" THEN Outcome ELSE {"code"} :
          job' = [job EXCEPT ![j].pc = "done", ![j].outcome = o]
    /\ IF HasRoom(k)
       THEN queue' = [queue EXCEPT ![k] = Append(@, j)] /\ UNCHANGED lost
       ELSE lost' = lost \cup {j} /\ UNCHANGED queue
    /\ UNCHANGED <<frame, left, right, busy, generation>>

Goroutine(j) == ReadEditor(j) \/ Finish(j)

-----------------------------------------------------------------------------
(* applyBackgroundResults *)

AnyResult(k, j) == TRUE                                             \* mutant
Current(k, j)   == generation[k] = j

Taken(k) ==
    /\ frame = "drain" /\ queue[k] # <<>>
    /\ queue' = [queue EXCEPT ![k] = Tail(@)]
    /\ UNCHANGED <<frame, left, generation, job, lost>>

Ok(j) == job[j].outcome \in {"code", "blank"}

\* The mutant leaves the window busy when the work has failed.
IdleAfterSuccess(j) == busy' = (busy /\ ~Ok(j))                      \* mutant
Idle(j)             == busy' = FALSE

\* Code replaces the right pane even beside an error.
ApplyConversion ==
    LET j == Head(queue["convert"]) IN
    /\ Taken("convert")
    /\ IF Current("convert", j)
       THEN /\ Idle(j)
            /\ right' = IF job[j].outcome \in {"code", "partial"} THEN j ELSE right
       ELSE UNCHANGED <<right, busy>>

ApplyRun ==
    LET j == Head(queue["run"]) IN
    /\ Taken("run")
    /\ IF Current("run", j) THEN Idle(j) ELSE UNCHANGED busy
    /\ UNCHANGED right

\* Saves carry no generation: every one of them ends the busy state.
ApplySave ==
    LET j == Head(queue["save"]) IN
    /\ Taken("save")
    /\ Idle(j)
    /\ UNCHANGED right

DrainEnds ==
    /\ frame = "drain" /\ \A k \in Kind : queue[k] = <<>>
    /\ frame' = "clicks"
    /\ UNCHANGED <<left, right, busy, generation, job, queue, lost>>

Next ==
    \/ Clicks
    \/ \E j \in DOMAIN job : Goroutine(j)
    \/ ApplyConversion \/ ApplyRun \/ ApplySave \/ DrainEnds

Spec == Init /\ [][Next]_vars

-----------------------------------------------------------------------------
(* Properties *)

TypeOK ==
    /\ frame \in {"drain", "clicks"}
    /\ left \in Edits
    /\ right \in {None} \cup DOMAIN job
    /\ busy \in BOOLEAN
    /\ generation \in [{"convert", "run"} -> {None} \cup DOMAIN job]
    /\ job \in Seq(JobRecord)
    /\ queue \in [Kind -> Seq(DOMAIN job)] /\ \A k \in Kind : Len(queue[k]) <= Cap(k)
    /\ lost \subseteq DOMAIN job

\* Nothing runs and no result is on its way.
Settled ==
    /\ frame = "clicks" /\ \A k \in Kind : queue[k] = <<>>
    /\ \A j \in DOMAIN job : job[j].pc = "done"

\* Once everything has ended the window is not busy any more, in whatever
\* order clicks and results came; only a result that was lost can leave it so.
BusyEnds == Settled /\ lost = {} => ~busy

\* "each request owns its immutable source": the code on display was made from
\* the text of its click, however much was typed while it was being made.
ConversionOwnsSource == right # None => job[right].text = job[right].clicked

\* The right pane ends with the last conversion asked for, in whatever order
\* conversions end, unless that one gave no code or was lost or New came later.
LatestConversionWins ==
    LET g == generation["convert"] IN
    Settled /\ g # None /\ g \notin lost /\ job[g].outcome \in {"code", "partial"}
        => right \in {None, g}
=============================================================================
