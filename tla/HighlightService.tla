---------------------------- MODULE HighlightService ----------------------------
(****************************************************************************)
(* The background highlighter (internal/highlight/service.go) between the   *)
(* two editors of the GUI (internal/ui/ui.go): Submit on the UI thread, the *)
(* loop goroutine, and the UI thread's drain of Results at every frame.     *)
(*                                                                          *)
(* What an editor shows, text and language, is reduced to a version number; *)
(* tokens are the version they were scanned from.  The reader in a request  *)
(* is the editor's own: the loop scans what the editor holds by then.       *)
(****************************************************************************)
EXTENDS Integers, Sequences

CONSTANTS
    MaxVersion,     \* bound on the contents one editor goes through
    MaxGeneration,  \* bound on the generations of one editor
    ResultCap       \* cap(s.results)

ASSUME HighlightAssumption ==
    MaxVersion \in Nat \ {0} /\ MaxGeneration \in Nat \ {0} /\ ResultCap \in Nat \ {0}

Tag     == {"left", "right"}
Version == 1..MaxVersion
Request == [tag : Tag, generation : 0..MaxGeneration]
Result  == [tag : Tag, generation : 0..MaxGeneration, tokens : Version]
Bare    == 0                     \* shown by an editor whose token list is empty

VARIABLES
    content,     \* content[tag]: what the editor holds
    generation,  \* leftGeneration and rightGeneration
    shown,       \* the version whose tokens the editor displays, or Bare
    unannounced, \* editors changed since their last generation with no new one
    ui,          \* the UI thread: "drain", "input", then Submit's selects
    todo,        \* the editors this handler still has to submit
    requests,    \* contents of s.requests, of capacity 1
    results,     \* contents of s.results
    loop,        \* [pc, request, result] of the loop goroutine
    last,        \* the last request handed to Submit
    closed       \* s.ctx is cancelled

editors == <<content, generation, shown, unannounced>>
vars    == <<editors, ui, todo, requests, results, loop, last, closed>>

NoRequest == [tag |-> "left", generation |-> 0]
NoResult  == [tag |-> "left", generation |-> 0, tokens |-> 1]

\* New has set the tokens of both editors and submits both.
Init ==
    /\ content = [t \in Tag |-> 1] /\ shown = content
    /\ generation = [t \in Tag |-> 0]
    /\ unannounced = {}
    /\ ui = "bump" /\ todo = <<"left", "right">>
    /\ requests = <<>> /\ results = <<>>
    /\ loop = [pc |-> "wait", request |-> NoRequest, result |-> NoResult]
    /\ last = NoRequest
    /\ closed = FALSE

-----------------------------------------------------------------------------
(* The UI thread: one frame drains the results, then handles the input *)

AnyGeneration(r)    == TRUE                                         \* mutant
LatestGeneration(r) == r.generation = generation[r.tag]

\* applyBackgroundResults takes a highlight result.
Apply ==
    LET r == Head(results) IN
    /\ ui = "drain" /\ results # <<>>
    /\ results' = Tail(results)
    /\ shown' = IF LatestGeneration(r) THEN [shown EXCEPT ![r.tag] = r.tokens] ELSE shown
    /\ UNCHANGED <<content, generation, unannounced, ui, todo, requests, loop, last, closed>>

NewGeneration == generation' = [generation EXCEPT !["right"] = @ + 1]

\* applyBackgroundResults takes a conversion, which brings its own tokens; code that
\* comes beside an error brings none.
ApplyConversion ==
    /\ ui = "drain"
    /\ content["right"] < MaxVersion /\ generation["right"] < MaxGeneration
    /\ content' = [content EXCEPT !["right"] = @ + 1]
    /\ NewGeneration
    /\ \E tokens \in {content'["right"], Bare} : shown' = [shown EXCEPT !["right"] = tokens]
    /\ unannounced' = unannounced \ {"right"}
    /\ UNCHANGED <<ui, todo, requests, results, loop, last, closed>>

DrainEnds ==
    /\ ui = "drain" /\ results = <<>>
    /\ ui' = "input"
    /\ UNCHANGED <<editors, todo, requests, results, loop, last, closed>>

NextFrame ==
    /\ ui = "input"
    /\ ui' = "drain"
    /\ UNCHANGED <<editors, todo, requests, results, loop, last, closed>>

\* The user types in the left editor, or chooses the language of either.
Change(t) ==
    /\ ui = "input"
    /\ content[t] < MaxVersion /\ generation[t] < MaxGeneration
    /\ content' = [content EXCEPT ![t] = @ + 1]
    /\ ui' = "bump" /\ todo' = <<t>>
    /\ UNCHANGED <<generation, shown, unannounced, requests, results, loop, last, closed>>

\* The user types in the right editor: its events are drained and nothing is submitted.
TypeRight ==
    /\ ui = "input"
    /\ content["right"] < MaxVersion
    /\ content' = [content EXCEPT !["right"] = @ + 1]
    /\ unannounced' = unannounced \cup {"right"}
    /\ UNCHANGED <<generation, shown, ui, todo, requests, results, loop, last, closed>>

\* "Refresh syntax highlighting" submits both editors.
Refresh ==
    /\ ui = "input"
    /\ \A t \in Tag : generation[t] < MaxGeneration
    /\ ui' = "bump" /\ todo' = <<"left", "right">>
    /\ UNCHANGED <<editors, requests, results, loop, last, closed>>

\* "New" empties both editors and submits nothing.
NewDocument ==
    /\ ui = "input"
    /\ \A t \in Tag : content[t] < MaxVersion
    /\ content' = [t \in Tag |-> content[t] + 1]
    /\ unannounced' = Tag
    /\ UNCHANGED <<generation, shown, ui, todo, requests, results, loop, last, closed>>

\* App.Close, after the last frame.
Close ==
    /\ ui = "input"
    /\ closed' = TRUE /\ ui' = "gone"
    /\ UNCHANGED <<editors, todo, requests, results, loop, last>>

-----------------------------------------------------------------------------
(* scheduleHighlight and Submit *)

Bump ==
    /\ ui = "bump"
    /\ LET t == Head(todo) IN
       /\ generation' = [generation EXCEPT ![t] = @ + 1]
       /\ last' = [tag |-> t, generation |-> generation[t] + 1]
       /\ unannounced' = unannounced \ {t}
    /\ todo' = Tail(todo)
    /\ ui' = "offer"
    /\ UNCHANGED <<content, shown, requests, results, loop, closed>>

Sent == /\ requests' = <<last>>
        /\ ui' = IF todo = <<>> THEN "input" ELSE "bump"

\* The slot is free: done.  Otherwise go on to empty it.
Offer ==
    /\ ui = "offer"
    /\ IF requests = <<>> THEN Sent ELSE ui' = "evict" /\ UNCHANGED requests
    /\ UNCHANGED <<editors, todo, results, loop, last, closed>>

KeepPending == UNCHANGED requests                                   \* mutant
DropPending == requests' = <<>>

Evict ==
    /\ ui = "evict"
    /\ DropPending
    /\ ui' = "send"
    /\ UNCHANGED <<editors, todo, results, loop, last, closed>>

\* A blocking send, by the UI thread.
Send ==
    /\ ui = "send" /\ requests = <<>>
    /\ Sent
    /\ UNCHANGED <<editors, todo, results, loop, last, closed>>

UI == Apply \/ ApplyConversion \/ DrainEnds \/ NextFrame \/ Refresh \/ NewDocument \/ Close
        \/ TypeRight \/ Bump \/ Offer \/ Evict \/ Send \/ \E t \in Tag : Change(t)

-----------------------------------------------------------------------------
(* The loop goroutine *)

Take ==
    /\ loop.pc = "wait" /\ requests # <<>>
    /\ loop' = [loop EXCEPT !.pc = "read", !.request = Head(requests)]
    /\ requests' = <<>>
    /\ UNCHANGED <<editors, ui, todo, results, last, closed>>

\* io.ReadAll and Tokens; a cancelled scan is an error, which nobody is left
\* to read.
Read ==
    /\ loop.pc = "read"
    /\ loop' = [loop EXCEPT !.pc = "publish",
                    !.result = [tag        |-> loop.request.tag,
                                generation |-> loop.request.generation,
                                tokens     |-> content[loop.request.tag]]]
    /\ UNCHANGED <<editors, ui, todo, requests, results, last, closed>>

Publish ==
    /\ loop.pc = "publish"
    /\ IF Len(results) < ResultCap
       THEN results' = Append(results, loop.result) /\ loop' = [loop EXCEPT !.pc = "wait"]
       ELSE loop' = [loop EXCEPT !.pc = "dropOldest"] /\ UNCHANGED results
    /\ UNCHANGED <<editors, ui, todo, requests, last, closed>>

DropNewest == UNCHANGED results                                     \* mutant
DropOldest == results' = IF results = <<>> THEN <<>> ELSE Tail(results)

MakeRoom ==
    /\ loop.pc = "dropOldest"
    /\ DropOldest
    /\ loop' = [loop EXCEPT !.pc = "retry"]
    /\ UNCHANGED <<editors, ui, todo, requests, last, closed>>

Retry ==
    /\ loop.pc = "retry"
    /\ results' = IF Len(results) < ResultCap THEN Append(results, loop.result) ELSE results
    /\ loop' = [loop EXCEPT !.pc = "wait"]
    /\ UNCHANGED <<editors, ui, todo, requests, last, closed>>

Stop ==
    /\ loop.pc = "wait" /\ closed
    /\ loop' = [loop EXCEPT !.pc = "done"]
    /\ UNCHANGED <<editors, ui, todo, requests, results, last, closed>>

Loop == Take \/ Read \/ Publish \/ MakeRoom \/ Retry \/ Stop

Next == UI \/ Loop
Spec == Init /\ [][Next]_vars

-----------------------------------------------------------------------------
(* Properties *)

\* Type invariant; a request slot holds one request and the UI thread is
\* never at the blocking send of Submit while the slot is taken, so the
\* highlighter cannot stall a frame.
TypeOK ==
    /\ content \in [Tag -> Version] /\ shown \in [Tag -> Version \cup {Bare}]
    /\ generation \in [Tag -> 0..MaxGeneration]
    /\ unannounced \subseteq Tag
    /\ ui \in {"drain", "input", "bump", "offer", "evict", "send", "gone"}
    /\ todo \in Seq(Tag)
    /\ requests \in Seq(Request) /\ Len(requests) <= 1
    /\ results \in Seq(Result) /\ Len(results) <= ResultCap
    /\ loop \in [pc : {"wait", "read", "publish", "dropOldest", "retry", "done"},
                 request : Request, result : Result]
    /\ last \in Request /\ closed \in BOOLEAN
    /\ ui = "send" => requests = <<>>

\* Tokens that are put into an editor were scanned from what it holds at that
\* moment, although the scan ran while the user typed, converted or chose a
\* language.  Two gaps, each until the editor's next generation: after New, and
\* after typing in the right editor, neither of which makes a new generation.
TokensFitText ==
    [][\A t \in Tag : shown'[t] # shown[t] /\ t \notin unannounced
                         => shown'[t] \in {content'[t], Bare}]_vars

Settled ==
    ui = "input" /\ requests = <<>> /\ results = <<>> /\ loop.pc = "wait" /\ ~closed

\* However many requests and results are dropped on the way, the last request
\* is answered: its editor ends up with the tokens of what it holds, if New or
\* typing on the right has not changed the text behind it.
LastRequestIsShown ==
    Settled /\ last.generation = generation[last.tag] /\ last.tag \notin unannounced
        => shown[last.tag] = content[last.tag]
=============================================================================
