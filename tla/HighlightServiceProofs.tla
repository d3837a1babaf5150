------------------------- MODULE HighlightServiceProofs -------------------------
(****************************************************************************)
(* Theorems about HighlightService, for every number of versions and        *)
(* generations and every capacity of the result channel.                    *)
(****************************************************************************)
EXTENDS HighlightService, SequenceTheorems, TLAPS

-----------------------------------------------------------------------------
(* The inductive invariant *)

\* The editor has changed and its new generation is still to come.
Dirty(t) == ui = "bump" /\ todo = <<t>>

\* The editors to submit are known, and each has a generation left.
TodoInv ==
    /\ todo \in {<<>>, <<"left">>, <<"right">>, <<"left", "right">>}
    /\ ui \in {"drain", "input", "gone"} => todo = <<>>
    /\ ui = "bump" => todo # <<>>
    /\ \A t \in Tag : todo \in {<<t>>, <<"left", "right">>} => generation[t] < MaxGeneration

\* Nothing carries a generation that is still to come.
Old(r) == r.generation <= generation[r.tag]
AgeInv ==
    /\ Old(last)
    /\ \A i \in 1..Len(requests) : Old(requests[i])
    /\ loop.pc = "read" => Old(loop.request)

\* A result of the latest generation was scanned from what the editor holds.
Fits(r) ==
    /\ Old(r)
    /\ LatestGeneration(r) /\ r.tag \notin unannounced /\ ~Dirty(r.tag) => r.tokens = content[r.tag]
Holding == {"publish", "dropOldest", "retry"}
FitInv ==
    /\ \A i \in 1..Len(results) : Fits(results[i])
    /\ loop.pc \in Holding => Fits(loop.result)

\* An answer that is to be retried finds the room that was made for it: only
\* the UI thread has touched the channel since.
RoomInv == loop.pc = "retry" => Len(results) < ResultCap

\* The last request is in somebody's hands until its answer is shown, and
\* nothing newer is there to evict the answer.
Owed       == LatestGeneration(last) /\ last.tag \notin unannounced /\ ~Dirty(last.tag)
Answers(r) == r.tag = last.tag /\ r.generation = last.generation
Stage ==
    \/ ui \in {"offer", "evict", "send"}
    \/ requests = <<last>>
    \/ requests = <<>> /\ loop.pc = "read" /\ loop.request = last
    \/ requests = <<>> /\ loop.pc \in Holding /\ Answers(loop.result)
    \/ /\ requests = <<>> /\ loop.pc \in {"wait", "done"}
       /\ results # <<>> /\ Answers(results[Len(results)])
    \/ shown[last.tag] = content[last.tag]
AnswerInv == Owed => Stage

HighlightInv == TypeOK /\ TodoInv /\ AgeInv /\ FitInv /\ RoomInv /\ AnswerInv

-----------------------------------------------------------------------------
(* Facts about states *)

\* The two editors and the bounds are what the assumption says.
LEMMA Editors ==
    /\ "left" \in Tag /\ "right" \in Tag /\ \A t \in Tag : t = "left" \/ t = "right"
    /\ MaxVersion \in Nat \ {0} /\ MaxGeneration \in Nat \ {0} /\ ResultCap \in Nat \ {0}
  BY HighlightAssumption DEF Tag

\* The editors still to submit, one by one.
LEMMA TodoCases ==
    ASSUME TodoInv, ui = "bump"
    PROVE  /\ Head(todo) \in Tag /\ generation[Head(todo)] < MaxGeneration
           /\ \/ todo = <<Head(todo)>> /\ Tail(todo) = <<>>
              \/ todo = <<"left", "right">> /\ Head(todo) = "left" /\ Tail(todo) = <<"right">>
<1>1. ASSUME NEW t \in Tag, todo = <<t>>
      PROVE  Head(todo) = t /\ Tail(todo) = <<>> /\ generation[t] < MaxGeneration
  <2>1. Head(<<t>>) = t /\ Tail(<<t>>) = <<>>
    OBVIOUS
  <2>. QED  BY <1>1, <2>1 DEF TodoInv
<1>2. CASE todo = <<"left", "right">>
  <2>1. Head(<<"left", "right">>) = "left" /\ Tail(<<"left", "right">>) = <<"right">>
    OBVIOUS
  <2>. QED  BY <1>2, <2>1, Editors DEF TodoInv
<1>3. PICK t \in Tag : todo = <<t>> \/ todo = <<"left", "right">>
  BY Editors DEF TodoInv
<1>4. CASE todo = <<t>>
  <2>1. Head(todo) = t /\ Tail(todo) = <<>> /\ generation[t] < MaxGeneration
    BY <1>1, <1>4
  <2>. QED  BY <1>4, <2>1
<1>5. CASE todo = <<"left", "right">>
  BY <1>2, <1>5, Editors
<1>. QED  BY <1>3, <1>4, <1>5

\* The first result of the channel, and those behind it.
LEMMA FirstResult ==
    ASSUME TypeOK, results # <<>>
    PROVE  /\ Head(results) = results[1] /\ Head(results) \in Result /\ Len(results) \in 1..ResultCap
           /\ Tail(results) \in Seq(Result) /\ Len(Tail(results)) = Len(results) - 1
           /\ \A i \in 1..Len(Tail(results)) : Tail(results)[i] = results[i + 1]
           /\ Tail(results) = <<>> => Len(results) = 1
           /\ Tail(results) # <<>> => Len(Tail(results)) \in 1..ResultCap
<1>1. results \in Seq(Result) /\ Len(results) <= ResultCap
  BY DEF TypeOK
<1>2. Len(results) \in Nat /\ Len(results) # 0
  BY <1>1, LenProperties, EmptySeq
<1>3. /\ Head(results) \in Result /\ Tail(results) \in Seq(Result)
      /\ Len(Tail(results)) = Len(results) - 1
      /\ \A i \in 1..Len(Tail(results)) : Tail(results)[i] = results[i + 1]
  BY <1>1, HeadTailProperties
<1>4. Head(results) = results[1]
  BY <1>1
<1>5. Tail(results) = <<>> => Len(Tail(results)) = 0
  BY EmptySeq
<1>6. Tail(results) # <<>> => Len(Tail(results)) \in Nat \ {0}
  BY <1>3, EmptySeq
<1>. QED  BY <1>1, <1>2, <1>3, <1>4, <1>5, <1>6, Editors

\* The channel with one more result.
LEMMA NextResult ==
    ASSUME TypeOK, NEW r \in Result
    PROVE  /\ Append(results, r) \in Seq(Result) /\ Append(results, r) # <<>>
           /\ Len(results) \in Nat /\ Len(Append(results, r)) = Len(results) + 1
           /\ \A i \in 1..Len(results) : Append(results, r)[i] = results[i]
           /\ Append(results, r)[Len(Append(results, r))] = r
<1>1. results \in Seq(Result)
  BY DEF TypeOK
<1>. QED  BY <1>1, AppendProperties, LenProperties

\* The slot holds one request or none.
LEMMA Slot ==
    ASSUME TypeOK
    PROVE  /\ requests # <<>> => Head(requests) = requests[1] /\ Head(requests) \in Request
                                 /\ Len(requests) = 1
           /\ requests = <<>> => Len(requests) = 0
           /\ \A r \in Request : <<r>> \in Seq(Request) /\ Len(<<r>>) = 1 /\ <<r>>[1] = r /\ <<r>> # <<>>
<1>1. requests \in Seq(Request) /\ Len(requests) <= 1
  BY DEF TypeOK
<1>2. requests # <<>> => Len(requests) \in Nat \ {0}
  BY <1>1, EmptySeq
<1>3. requests # <<>> => Head(requests) \in Request
  BY <1>1, HeadTailProperties
<1>4. requests # <<>> => Head(requests) = requests[1]
  BY <1>1
<1>5. \A r \in Request : <<r>> \in Seq(Request) /\ Len(<<r>>) = 1 /\ <<r>>[1] = r /\ <<r>> # <<>>
  OBVIOUS
<1>6. requests = <<>> => Len(requests) = 0
  BY EmptySeq
<1>7. requests # <<>> => Len(requests) = 1
  BY <1>1, <1>2
<1>. QED  BY <1>3, <1>4, <1>5, <1>6, <1>7

-----------------------------------------------------------------------------
(* Every step keeps the invariant *)

\* Between an edit and its submission the UI thread has a list of editors to submit.
LEMMA TodoStep ==
    ASSUME TypeOK, TodoInv, [Next]_vars
    PROVE  TodoInv'
<1>. USE DEF TodoInv, editors
<1>1. CASE Bump
  <2>1. PICK t \in Tag : t = Head(todo)
    BY <1>1, TodoCases DEF Bump
  <2>2. \A u \in Tag \ {t} : generation'[u] = generation[u]
    BY <1>1, <2>1 DEF Bump, TypeOK
  <2>3. CASE todo' = <<>>
    BY <1>1, <2>3, Editors DEF Bump
  <2>4. CASE todo = <<"left", "right">> /\ t = "left" /\ todo' = <<"right">>
    BY <1>1, <2>2, <2>4, Editors DEF Bump
  <2>. QED  BY <1>1, <2>1, <2>3, <2>4, TodoCases DEF Bump
<1>2. CASE ApplyConversion
  BY <1>2, Editors DEF ApplyConversion
<1>3. ASSUME NEW t \in Tag, Change(t) PROVE TodoInv'
  BY <1>3, Editors DEF Change
<1>4. CASE Refresh
  BY <1>4, Editors DEF Refresh
<1>5. CASE Offer \/ Send
  BY <1>5, Editors DEF Offer, Send, Sent
<1>6. CASE Apply \/ DrainEnds \/ NextFrame \/ TypeRight \/ NewDocument \/ Close \/ Evict
  BY <1>6, Editors DEF Apply, DrainEnds, NextFrame, TypeRight, NewDocument, Close, Evict
<1>7. CASE Loop \/ UNCHANGED vars
  BY <1>7 DEF Loop, Take, Read, Publish, MakeRoom, Retry, Stop, vars
<1>. QED  BY <1>1, <1>2, <1>3, <1>4, <1>5, <1>6, <1>7 DEF Next, UI

\* Which steps touch what.
LEMMA Touches ==
    ASSUME [Next]_vars
    PROVE  /\ Loop \/ UNCHANGED vars => UNCHANGED <<editors, ui, todo, last, closed>>
           /\ UI => loop' = loop
           /\ Apply \/ Publish \/ MakeRoom \/ Retry \/ results' = results
           /\ Take \/ Offer \/ Evict \/ Send \/ requests' = requests
           /\ Bump \/ last' = last
  BY DEF Next, UI, Loop, Take, Read, Publish, MakeRoom, Retry, Stop, vars, editors, Apply, DropPending,
     ApplyConversion, DrainEnds, NextFrame, Change, TypeRight, Refresh, NewDocument, Close, Bump, Offer, Evict, Send

\* What the UI thread keeps about the editors keeps its type.
LEMMA EditorTypes ==
    ASSUME TypeOK, TodoInv, [Next]_vars
    PROVE  /\ content' \in [Tag -> Version] /\ shown' \in [Tag -> Version \cup {Bare}]
           /\ generation' \in [Tag -> 0..MaxGeneration]
           /\ unannounced' \subseteq Tag /\ last' \in Request /\ todo' \in Seq(Tag)
<1>. USE DEF editors, Version
<1>0. MaxVersion \in Nat /\ MaxGeneration \in Nat /\ "right" \in Tag
  BY Editors
<1>1. CASE Loop \/ UNCHANGED vars
  BY <1>1, Touches DEF TypeOK
<1>2. CASE Apply
  <2>1. Head(results).tag \in Tag /\ Head(results).tokens \in 1..MaxVersion
    BY <1>2, FirstResult DEF Apply, Result
  <2>. QED  BY <1>2, <2>1 DEF Apply, TypeOK
<1>3. CASE ApplyConversion
  <2>1. content["right"] + 1 \in 1..MaxVersion /\ generation["right"] + 1 \in 0..MaxGeneration
    BY <1>0, <1>3 DEF ApplyConversion, TypeOK
  <2>2. content'["right"] = content["right"] + 1
    BY <1>0, <1>3 DEF ApplyConversion, TypeOK
  <2>3. content' \in [Tag -> Version] /\ generation' \in [Tag -> 0..MaxGeneration]
    BY <1>0, <1>3, <2>1 DEF ApplyConversion, NewGeneration, TypeOK
  <2>4. shown' \in [Tag -> Version \cup {Bare}]
    BY <1>0, <1>3, <2>1, <2>2 DEF ApplyConversion, TypeOK
  <2>. QED  BY <1>3, <2>3, <2>4 DEF ApplyConversion, TypeOK
<1>4. ASSUME NEW t \in Tag, Change(t)
      PROVE  content' \in [Tag -> Version] /\ todo' \in Seq(Tag)
  <2>1. content[t] + 1 \in 1..MaxVersion
    BY <1>0, <1>4 DEF Change, TypeOK
  <2>2. <<t>> \in Seq(Tag)
    OBVIOUS
  <2>. QED  BY <1>4, <2>1, <2>2 DEF Change, TypeOK
<1>5. CASE Refresh
  <2>1. <<"left", "right">> \in Seq(Tag)
    BY Editors
  <2>. QED  BY <1>5, <2>1 DEF Refresh, TypeOK
<1>9. CASE TypeRight
  <2>1. content["right"] + 1 \in 1..MaxVersion
    BY <1>0, <1>9 DEF TypeRight, TypeOK
  <2>. QED  BY <1>0, <1>9, <2>1 DEF TypeRight, TypeOK
<1>6. CASE NewDocument
  <2>1. \A t \in Tag : content[t] + 1 \in 1..MaxVersion
    BY <1>0, <1>6 DEF NewDocument, TypeOK
  <2>. QED  BY <1>6, <2>1 DEF NewDocument, TypeOK
<1>7. CASE Bump
  <2>1. PICK t \in Tag : t = Head(todo) /\ generation[t] < MaxGeneration
    BY <1>7, TodoCases DEF Bump
  <2>2. Tail(todo) \in Seq(Tag)
    <3>1. <<>> \in Seq(Tag) /\ <<"right">> \in Seq(Tag)
      BY <1>0, EmptySeq
    <3>. QED  BY <1>7, <3>1, TodoCases DEF Bump
  <2>3. generation[t] + 1 \in 0..MaxGeneration
    BY <1>0, <2>1 DEF TypeOK
  <2>4. last' \in Request
    BY <1>7, <2>1, <2>3 DEF Bump, Request
  <2>. QED  BY <1>7, <2>1, <2>2, <2>3, <2>4 DEF Bump, TypeOK
<1>8. CASE DrainEnds \/ NextFrame \/ Close \/ Offer \/ Evict \/ Send
  BY <1>8 DEF DrainEnds, NextFrame, Close, Offer, Evict, Send, TypeOK
<1>. QED
  BY <1>1, <1>2, <1>3, <1>4, <1>5, <1>6, <1>7, <1>8, <1>9 DEF Next, UI, Change, TypeOK

\* Every step keeps the types; the send of Submit finds the slot free.
LEMMA TypeStep ==
    ASSUME TypeOK, TodoInv, [Next]_vars
    PROVE  TypeOK'
<1>. USE DEF editors
<1>1. requests' \in Seq(Request) /\ Len(requests') <= 1
  <2>1. requests' = requests \/ requests' = <<>> \/ requests' = <<last>>
    BY Touches DEF Take, Offer, Evict, Send, Sent, DropPending
  <2>2. last \in Request /\ Len(<<last>>) = 1 /\ <<last>> \in Seq(Request)
    BY Slot DEF TypeOK
  <2>3. <<>> \in Seq(Request) /\ Len(<<>>) = 0
    BY EmptySeq
  <2>4. requests \in Seq(Request) /\ Len(requests) <= 1
    BY DEF TypeOK
  <2>5. CASE requests' = <<last>>
    BY <2>2, <2>5
  <2>6. CASE requests' = <<>>
    BY <2>3, <2>6
  <2>. QED  BY <2>1, <2>4, <2>5, <2>6
<1>2. results' \in Seq(Result) /\ Len(results') <= ResultCap
  <2>0. /\ results \in Seq(Result) /\ Len(results) \in Nat /\ Len(results) <= ResultCap
        /\ ResultCap \in Nat /\ <<>> \in Seq(Result) /\ Len(<<>>) = 0
    <3>1. results \in Seq(Result) /\ Len(results) <= ResultCap
      BY DEF TypeOK
    <3>2. Len(results) \in Nat
      BY <3>1, LenProperties
    <3>3. <<>> \in Seq(Result) /\ Len(<<>>) = 0
      BY EmptySeq
    <3>. QED  BY <3>1, <3>2, <3>3, Editors
  <2>1. CASE Apply \/ MakeRoom
    <3>1. CASE results = <<>>
      BY <2>1, <3>1, <2>0 DEF Apply, MakeRoom, DropOldest
    <3>2. CASE results # <<>>
      <4>1. Tail(results) \in Seq(Result) /\ Len(Tail(results)) <= ResultCap
        BY <2>0, <3>2, FirstResult
      <4>2. results' = Tail(results)
        BY <2>1, <3>2 DEF Apply, MakeRoom, DropOldest
      <4>. QED  BY <4>1, <4>2
    <3>. QED  BY <3>1, <3>2
  <2>2. CASE Publish \/ Retry
    <3>1. loop.result \in Result
      BY DEF TypeOK
    <3>2. Append(results, loop.result) \in Seq(Result) /\ Len(Append(results, loop.result)) = Len(results) + 1
      BY <3>1, NextResult
    <3>. QED  BY <2>0, <2>2, <3>2 DEF Publish, Retry
  <2>. QED  BY <2>0, <2>1, <2>2, Touches
<1>3. loop' \in [pc : {"wait", "read", "publish", "dropOldest", "retry", "done"},
                 request : Request, result : Result]
  <2>1. CASE Take
    <3>1. Head(requests) \in Request
      BY <2>1, Slot DEF Take
    <3>. QED  BY <2>1, <3>1 DEF Take, TypeOK
  <2>2. CASE Read
    <3>1. loop.request.tag \in Tag /\ loop.request.generation \in 0..MaxGeneration
      BY DEF TypeOK, Request
    <3>2. [tag |-> loop.request.tag, generation |-> loop.request.generation,
           tokens |-> content[loop.request.tag]] \in Result
      BY <3>1 DEF TypeOK, Result
    <3>. QED  BY <2>2, <3>2 DEF Read, TypeOK
  <2>3. CASE Publish \/ MakeRoom \/ Retry \/ Stop
    BY <2>3 DEF Publish, MakeRoom, Retry, Stop, TypeOK
  <2>. QED  BY <2>1, <2>2, <2>3, Touches DEF Next, Loop, vars, TypeOK
<1>4. ui' \in {"drain", "input", "bump", "offer", "evict", "send", "gone"} /\ closed' \in BOOLEAN
  BY DEF Next, UI, Loop, Take, Read, Publish, MakeRoom, Retry, Stop, vars, Apply, Sent, ApplyConversion,
     DrainEnds, NextFrame, Change, TypeRight, Refresh, NewDocument, Close, Bump, Offer, Evict, Send, TypeOK
<1>5. ui' = "send" => requests' = <<>>
  BY DEF Next, UI, Loop, Take, Read, Publish, MakeRoom, Retry, Stop, vars, Apply, Sent, ApplyConversion,
     DrainEnds, NextFrame, Change, TypeRight, Refresh, NewDocument, Close, Bump, Offer, Evict, DropPending, Send,
     TypeOK
<1>. QED  BY <1>1, <1>2, <1>3, <1>4, <1>5, EditorTypes DEF TypeOK

\* Generations only grow; an editor whose generation stays, and which is not
\* waiting for a new one, keeps its content.
Steady == \A t \in Tag :
    /\ generation[t] <= generation'[t]
    /\ generation'[t] = generation[t] /\ t \notin unannounced' /\ ~Dirty(t)'
         => t \notin unannounced /\ ~Dirty(t) /\ content'[t] = content[t]

\* A step that leaves the generation of an editor leaves its content too.
LEMMA EditorStep ==
    ASSUME TypeOK, TodoInv, [Next]_vars
    PROVE  Steady
<1>. USE DEF Steady, Dirty, editors
<1>1. CASE ApplyConversion
  BY <1>1, Editors DEF ApplyConversion, NewGeneration, TypeOK
<1>2. ASSUME NEW t \in Tag, Change(t) PROVE Steady
  BY <1>2, Editors DEF Change, TypeOK
<1>3. CASE TypeRight \/ Refresh \/ NewDocument
  BY <1>3, Editors DEF TypeRight, Refresh, NewDocument, TypeOK
<1>4. CASE Bump
  <2>1. PICK t \in Tag : t = Head(todo) /\ (todo = <<t>> \/ t = "left")
    BY <1>4, TodoCases DEF Bump
  <2>2. generation'[t] = generation[t] + 1 /\ \A u \in Tag \ {t} : generation'[u] = generation[u]
    BY <1>4, <2>1 DEF Bump, TypeOK
  <2>3. content' = content /\ unannounced' = unannounced \ {t}
    BY <1>4, <2>1 DEF Bump
  <2>4. \A u \in Tag \ {t} : Dirty(u) => FALSE
    BY <1>4, <2>1, TodoCases DEF Bump
  <2>. QED  BY <2>2, <2>3, <2>4 DEF TypeOK
<1>5. CASE Offer \/ Evict \/ Send
  BY <1>5 DEF Offer, Evict, Send, TypeOK
<1>6. CASE Apply \/ DrainEnds \/ NextFrame \/ Close
  BY <1>6 DEF Apply, DrainEnds, NextFrame, Close, TypeOK
<1>7. CASE Loop \/ UNCHANGED vars
  BY <1>7 DEF Loop, Take, Read, Publish, MakeRoom, Retry, Stop, vars, TypeOK
<1>. QED  BY <1>1, <1>2, <1>3, <1>4, <1>5, <1>6, <1>7 DEF Next, UI

\* A result that fits its editor, or is out of date, remains so.
LEMMA FitsStay ==
    ASSUME TypeOK, Steady, NEW r \in Result, Fits(r), generation' \in [Tag -> Int]
    PROVE  Fits(r)'
<1>1. r.tag \in Tag /\ r.generation \in Int /\ generation[r.tag] \in Int
  BY DEF TypeOK, Result
<1>. QED  BY <1>1 DEF Fits, Old, LatestGeneration, Steady

\* No step makes a request or a result of a generation that is still to come.
LEMMA AgeStep ==
    ASSUME TypeOK, TypeOK', TodoInv, AgeInv, [Next]_vars
    PROVE  AgeInv'
<1>1. Steady
  BY EditorStep
<1>2. \A r \in Request : Old(r) => r.generation <= generation'[r.tag]
  <2>. SUFFICES ASSUME NEW r \in Request, Old(r) PROVE r.generation <= generation'[r.tag]
    OBVIOUS
  <2>1. r.tag \in Tag /\ r.generation \in Int /\ generation[r.tag] \in Int /\ generation'[r.tag] \in Int
    BY DEF TypeOK, Request
  <2>. QED  BY <1>1, <2>1 DEF Old, Steady
<1>3. \A t \in Tag : generation[t] \in Int /\ generation'[t] \in Int
  BY DEF TypeOK
<1>4. last \in Request /\ loop.request \in Request /\ \A i \in 1..Len(requests) : requests[i] \in Request
  BY ElementOfSeq DEF TypeOK
<1>5. Old(last)'
  <2>1. CASE last' = last
    BY <1>2, <1>4, <2>1 DEF AgeInv, Old
  <2>2. CASE Bump
    BY <2>2, <1>3, TodoCases DEF Bump, Old, TypeOK
  <2>. QED
    BY <2>1, <2>2 DEF Next, UI, Loop, Take, Read, Publish, MakeRoom, Retry, Stop, vars, Apply,
       ApplyConversion, DrainEnds, NextFrame, Change, TypeRight, Refresh, NewDocument, Close, Offer, Evict, Send
<1>6. \A i \in 1..Len(requests') : Old(requests[i])'
  <2>1. requests' = requests \/ requests' = <<>> \/ requests' = <<last>>
    BY DEF Next, UI, Loop, Take, Read, Publish, MakeRoom, Retry, Stop, vars, Apply, DropPending, Sent,
       ApplyConversion, DrainEnds, NextFrame, Change, TypeRight, Refresh, NewDocument, Close, Bump, Offer, Evict,
       Send
  <2>2. CASE requests' = requests
    BY <1>2, <1>4, <2>2 DEF AgeInv, Old
  <2>3. CASE requests' = <<>>
    BY <2>3
  <2>4. CASE requests' = <<last>>
    BY <1>2, <1>4, <2>4, Slot DEF AgeInv, Old
  <2>. QED  BY <2>1, <2>2, <2>3, <2>4
<1>7. loop'.pc = "read" => Old(loop.request)'
  <2>1. CASE Take
    <3>1. loop'.request = requests[1] /\ Old(requests[1]) /\ requests[1] \in Request
      BY <2>1, <1>4, Slot DEF Take, AgeInv, TypeOK
    <3>. QED  BY <1>2, <3>1 DEF Old
  <2>2. CASE loop' = loop
    BY <1>2, <1>4, <2>2 DEF AgeInv, Old
  <2>3. CASE Read \/ Publish \/ MakeRoom \/ Retry \/ Stop
    BY <2>2, <2>3 DEF Read, Publish, MakeRoom, Retry, Stop, TypeOK
  <2>. QED
    BY <2>1, <2>2, <2>3 DEF Next, UI, Loop, vars, Apply, ApplyConversion, DrainEnds, NextFrame, Change,
       TypeRight, Refresh, NewDocument, Close, Bump, Offer, Evict, Send
<1>. QED  BY <1>5, <1>6, <1>7 DEF AgeInv

\* What is scanned, published or retried fits its editor unless it is out of date.
LEMMA FitStep ==
    ASSUME TypeOK, TypeOK', TodoInv, AgeInv, FitInv, [Next]_vars
    PROVE  FitInv'
<1>1. Steady /\ generation' \in [Tag -> Int]
  BY EditorStep DEF TypeOK
<1>2. \A r \in Result : Fits(r) => Fits(r)'
  BY <1>1, FitsStay
<1>3. loop.result \in Result /\ \A i \in 1..Len(results) : results[i] \in Result
  BY ElementOfSeq DEF TypeOK
<1>4. loop'.pc \in Holding => Fits(loop.result)'
  <2>1. CASE Read
    <3>1. /\ loop.request.tag \in Tag /\ loop'.result.tag = loop.request.tag
          /\ loop'.result.generation = loop.request.generation
          /\ loop'.result.tokens = content[loop.request.tag] /\ Old(loop.request)
      BY <2>1 DEF Read, AgeInv, TypeOK, Request
    <3>. QED  BY <2>1, <3>1 DEF Read, editors, Fits, Old, LatestGeneration
  <2>2. CASE loop'.result = loop.result /\ (loop'.pc \in Holding => loop.pc \in Holding)
    <3>1. SUFFICES ASSUME loop'.pc \in Holding PROVE Fits(loop.result)'
      OBVIOUS
    <3>2. PICK r \in Result : r = loop.result /\ Fits(r)
      BY <1>3, <2>2, <3>1 DEF FitInv
    <3>3. Fits(r)'
      BY <1>2, <3>2
    <3>. QED  BY <2>2, <3>2, <3>3 DEF Fits, Old, LatestGeneration, Dirty
  <2>3. CASE UI \/ UNCHANGED vars
    BY <2>2, <2>3, Touches DEF vars
  <2>4. CASE Take \/ Publish \/ MakeRoom \/ Retry \/ Stop
    BY <2>2, <2>4 DEF Take, Publish, MakeRoom, Retry, Stop, Holding, TypeOK
  <2>. QED  BY <2>1, <2>3, <2>4 DEF Next, Loop
<1>5. \A i \in 1..Len(results') : Fits(results[i])'
  <2>. SUFFICES ASSUME NEW i \in 1..Len(results') PROVE Fits(results[i])'
    OBVIOUS
  <2>1. \E r \in Result : r = results'[i] /\ Fits(r)
    <3>1. CASE results' = results
      BY <1>3, <3>1 DEF FitInv
    <3>2. CASE results # <<>> /\ results' = Tail(results)
      <4>1. i + 1 \in 1..Len(results) /\ results'[i] = results[i + 1]
        BY <3>2, FirstResult
      <4>. QED  BY <1>3, <4>1 DEF FitInv
    <3>3. CASE results' = Append(results, loop.result) /\ loop.pc \in Holding
      <4>1. i \in 1..Len(results) => results'[i] = results[i]
        BY <1>3, <3>3, NextResult
      <4>2. i \notin 1..Len(results) => results'[i] = loop.result
        BY <1>3, <3>3, NextResult
      <4>. QED  BY <1>3, <3>3, <4>1, <4>2 DEF FitInv
    <3>4. CASE results' = <<>>
      BY <3>4, EmptySeq
    <3>. QED
      BY <3>1, <3>2, <3>3, <3>4, Touches DEF Apply, Publish, MakeRoom, DropOldest, Retry, Holding
  <2>2. PICK r \in Result : r = results'[i] /\ Fits(r)
    BY <2>1
  <2>3. Fits(r)'
    BY <1>2, <2>2
  <2>. QED  BY <2>2, <2>3 DEF Fits, Old, LatestGeneration, Dirty
<1>. QED  BY <1>4, <1>5 DEF FitInv

\* The room made for a retry is still there when the retry comes.
LEMMA RoomStep ==
    ASSUME TypeOK, RoomInv, [Next]_vars
    PROVE  RoomInv'
<1>0. Len(results) \in Nat /\ Len(results) <= ResultCap /\ ResultCap \in Nat \ {0} /\ Len(<<>>) = 0
  <2>1. results \in Seq(Result) /\ Len(results) <= ResultCap
    BY DEF TypeOK
  <2>2. Len(results) \in Nat
    BY <2>1, LenProperties
  <2>3. Len(<<>>) = 0
    BY EmptySeq
  <2>. QED  BY <2>1, <2>2, <2>3, Editors
<1>1. CASE MakeRoom
  <2>1. CASE results = <<>>
    BY <1>0, <1>1, <2>1 DEF MakeRoom, DropOldest, RoomInv
  <2>2. CASE results # <<>>
    <3>1. Len(results') = Len(results) - 1
      BY <1>1, <2>2, FirstResult DEF MakeRoom, DropOldest
    <3>. QED  BY <1>0, <3>1 DEF RoomInv
  <2>. QED  BY <2>1, <2>2
<1>2. CASE Apply
  <2>1. Len(results') = Len(results) - 1
    BY <1>2, FirstResult DEF Apply
  <2>. QED  BY <1>0, <1>2, <2>1 DEF Apply, RoomInv
<1>3. CASE Take \/ Read \/ Publish \/ Retry \/ Stop
  BY <1>3 DEF Take, Read, Publish, Retry, Stop, RoomInv, TypeOK
<1>4. CASE loop' = loop /\ results' = results
  BY <1>4 DEF RoomInv
<1>. QED  BY <1>1, <1>2, <1>3, <1>4, Touches DEF Next, UI, Loop, vars, Publish, MakeRoom, Retry

\* What is owed after a step was owed before it, unless it is a new request.
LEMMA StillOwed ==
    ASSUME TypeOK, TodoInv, AgeInv, [Next]_vars, ~Bump, Owed'
    PROVE  /\ Owed /\ last' = last /\ content'[last.tag] = content[last.tag]
           /\ generation'[last.tag] = generation[last.tag]
<1>1. last' = last /\ last.tag \in Tag
  BY Touches DEF TypeOK, Request
<1>2. last.generation \in Int /\ generation[last.tag] \in Int /\ generation'[last.tag] \in Int
  BY <1>1, EditorTypes DEF TypeOK, Request
<1>3. generation'[last.tag] = generation[last.tag]
  BY <1>1, <1>2, EditorStep DEF Steady, Owed, LatestGeneration, AgeInv, Old
<1>. QED  BY <1>1, <1>3, EditorStep DEF Steady, Owed, LatestGeneration, Dirty

\* No step drops the last request or its answer: whoever evicts carries it on.
LEMMA AnswerStep ==
    ASSUME TypeOK, TypeOK', TodoInv, AgeInv, FitInv, RoomInv, AnswerInv, [Next]_vars
    PROVE  AnswerInv'
<1>. SUFFICES ASSUME Owed' PROVE Stage'
  BY DEF AnswerInv
<1>. USE DEF editors
<1>1. CASE Bump
  BY <1>1 DEF Bump, Stage
<1>2. CASE Offer \/ Evict \/ Send
  BY <1>2 DEF Offer, Evict, Send, Sent, Stage
<1>3. ASSUME ~Bump, ~Offer, ~Evict, ~Send PROVE Stage'
  <2>1. /\ Stage /\ last' = last /\ content'[last.tag] = content[last.tag] /\ last \in Request
        /\ last.tag \in Tag /\ Owed
    BY <1>3, StillOwed DEF AnswerInv, TypeOK, Request
  <2>2. ui' = ui \/ ui \notin {"offer", "evict", "send"}
    BY <1>3 DEF Next, UI, Loop, Take, Read, Publish, MakeRoom, Retry, Stop, vars, Apply,
       ApplyConversion, DrainEnds, NextFrame, Change, TypeRight, Refresh, NewDocument, Close
  <2>3. CASE ui \in {"offer", "evict", "send"}
    BY <2>2, <2>3 DEF Stage
  <2>4. CASE requests = <<last>>
    <3>1. CASE Take
      <4>1. Head(<<last>>) = last
        OBVIOUS
      <4>. QED  BY <2>1, <2>4, <3>1, <4>1 DEF Take, Stage, TypeOK
    <3>2. CASE ~Take
      BY <1>3, <2>1, <2>4, <3>2, Touches DEF Stage
    <3>. QED  BY <3>1, <3>2
  <2>5. CASE requests = <<>> /\ loop.pc = "read" /\ loop.request = last
    <3>1. CASE Read
      BY <2>1, <2>5, <3>1 DEF Read, Stage, Holding, Answers, TypeOK
    <3>2. CASE ~Read
      <4>1. loop' = loop
        BY <2>5, <3>2, Touches DEF Next, Loop, vars, Take, Publish, MakeRoom, Retry, Stop
      <4>2. requests' = requests
        BY <1>3, <2>5, Touches DEF Take
      <4>. QED  BY <2>1, <2>5, <4>1, <4>2 DEF Stage
    <3>. QED  BY <3>1, <3>2
  <2>6. CASE requests = <<>> /\ loop.pc \in Holding /\ Answers(loop.result)
    <3>0. requests' = requests
      BY <1>3, <2>6, Touches DEF Take
    <3>1. CASE loop'.pc \in Holding /\ loop'.result = loop.result
      BY <2>1, <2>6, <3>0, <3>1 DEF Stage, Answers
    <3>2. CASE results' = Append(results, loop.result) /\ loop'.pc = "wait"
      <4>1. results' # <<>> /\ results'[Len(results')] = loop.result
        BY <3>2, NextResult DEF TypeOK
      <4>. QED  BY <2>1, <2>6, <3>0, <3>2, <4>1 DEF Stage, Answers
    <3>3. CASE UI \/ UNCHANGED vars
      BY <2>6, <3>1, <3>3, Touches DEF vars
    <3>4. CASE Publish \/ MakeRoom \/ Retry
      BY <2>6, <3>1, <3>2, <3>4 DEF Publish, MakeRoom, Retry, RoomInv, Holding, TypeOK
    <3>. QED  BY <2>6, <3>3, <3>4 DEF Next, Loop, Take, Read, Stop, Holding
  <2>7. CASE /\ requests = <<>> /\ loop.pc \in {"wait", "done"}
             /\ results # <<>> /\ Answers(results[Len(results)])
    <3>0. requests' = requests /\ loop'.pc \in {"wait", "done"}
      BY <1>3, <2>7, Touches DEF Next, Loop, vars, Take, Read, Publish, MakeRoom, Retry, Stop, TypeOK
    <3>1. CASE Apply
      <4>1. CASE Tail(results) = <<>>
        <5>1. Head(results) = results[Len(results)] /\ Fits(Head(results))
          BY <2>7, <4>1, FirstResult DEF FitInv
        <5>2. shown'[last.tag] = content[last.tag]
          BY <2>1, <2>7, <3>1, <5>1 DEF Apply, Fits, Answers, Owed, LatestGeneration, TypeOK
        <5>. QED  BY <2>1, <5>2 DEF Stage
      <4>2. CASE Tail(results) # <<>>
        <5>1. Tail(results)[Len(Tail(results))] = results[Len(results)]
          BY <2>7, <4>2, FirstResult
        <5>. QED  BY <2>1, <2>7, <3>0, <3>1, <4>2, <5>1 DEF Apply, Stage, Answers
      <4>. QED  BY <4>1, <4>2
    <3>2. CASE ~Apply
      <4>1. results' = results
        BY <2>7, <3>2, Touches DEF Publish, MakeRoom, Retry
      <4>. QED  BY <2>1, <2>7, <3>0, <4>1 DEF Stage, Answers
    <3>. QED  BY <3>1, <3>2
  <2>8. CASE shown[last.tag] = content[last.tag]
    <3>1. CASE Apply
      <4>1. Fits(Head(results))
        BY <3>1, FirstResult, Editors DEF Apply, FitInv
      <4>2. shown'[last.tag] = content[last.tag]
        BY <2>1, <2>8, <3>1, <4>1 DEF Apply, Fits, Owed, TypeOK
      <4>. QED  BY <2>1, <4>2 DEF Stage
    <3>2. CASE ApplyConversion
      <4>1. content["right"] \in Int /\ content'["right"] = content["right"] + 1
        BY <3>2, Editors DEF ApplyConversion, TypeOK, Version
      <4>2. last.tag = "left"
        BY <2>1, <4>1, Editors
      <4>3. PICK tokens \in {content'["right"], Bare} : shown' = [shown EXCEPT !["right"] = tokens]
        BY <3>2 DEF ApplyConversion
      <4>4. shown'["left"] = shown["left"]
        BY <4>3, Editors DEF TypeOK
      <4>. QED  BY <2>1, <2>8, <4>2, <4>4 DEF Stage
    <3>3. CASE shown' = shown
      BY <2>1, <2>8, <3>3 DEF Stage
    <3>. QED
      BY <1>3, <3>1, <3>2, <3>3, Touches DEF Next, UI, DrainEnds, NextFrame, Change, TypeRight, Refresh,
         NewDocument, Close
  <2>. QED  BY <2>1, <2>3, <2>4, <2>5, <2>6, <2>7, <2>8 DEF Stage
<1>. QED  BY <1>1, <1>2, <1>3

-----------------------------------------------------------------------------
(* The theorems *)

\* At the start nothing is requested and nothing is owed.
LEMMA HighlightInit == Init => HighlightInv
<1>. SUFFICES ASSUME Init PROVE HighlightInv
  OBVIOUS
<1>1. TypeOK
  <2>1. <<"left", "right">> \in Seq(Tag) /\ <<>> \in Seq(Request) /\ <<>> \in Seq(Result) /\ Len(<<>>) = 0
    BY Editors, EmptySeq
  <2>2. NoRequest \in Request /\ NoResult \in Result
    BY Editors DEF NoRequest, NoResult, Request, Result, Version
  <2>3. content \in [Tag -> Version] /\ shown \in [Tag -> Version \cup {Bare}] /\ generation \in [Tag -> 0..MaxGeneration]
    BY Editors DEF Init, Version
  <2>4. loop \in [pc : {"wait", "read", "publish", "dropOldest", "retry", "done"},
                  request : Request, result : Result]
    BY <2>2 DEF Init
  <2>5. todo \in Seq(Tag) /\ requests \in Seq(Request) /\ results \in Seq(Result)
        /\ Len(requests) <= 1 /\ Len(results) <= ResultCap
    BY <2>1, Editors DEF Init
  <2>. QED  BY <2>2, <2>3, <2>4, <2>5 DEF Init, TypeOK
<1>2. TodoInv
  BY Editors DEF Init, TodoInv
<1>3. AgeInv /\ FitInv /\ RoomInv
  BY Editors, EmptySeq DEF Init, AgeInv, Old, FitInv, RoomInv, Holding, NoRequest
<1>4. AnswerInv
  BY Editors DEF Init, AnswerInv, Stage, NoRequest
<1>. QED  BY <1>1, <1>2, <1>3, <1>4 DEF HighlightInv

\* The parts of the invariant are kept together.
LEMMA HighlightStep == HighlightInv /\ [Next]_vars => HighlightInv'
  BY TodoStep, TypeStep, AgeStep, FitStep, RoomStep, AnswerStep DEF HighlightInv

\* Requests, results and answers are tracked by the inductive invariant: what
\* is current fits its editor, and the last request is in somebody's hands.
THEOREM HighlighterIsInvariant == Spec => []HighlightInv
  BY HighlightInit, HighlightStep, PTL DEF Spec

\* The types, the capacities of the two channels, and that Submit on the UI
\* thread never reaches its blocking send with the slot taken: it cannot stall
\* a frame (service.go, Submit).
THEOREM SubmitNeverBlocks == Spec => []TypeOK
<1>1. HighlightInv => TypeOK
  BY DEF HighlightInv
<1>. QED  BY <1>1, HighlighterIsInvariant, PTL

\* However many requests are superseded and results dropped, the last request
\* is answered: once everything is quiet its editor shows the tokens of what
\* it holds.
THEOREM LastRequestIsAnswered == Spec => []LastRequestIsShown
<1>1. HighlightInv => LastRequestIsShown
  <2>. SUFFICES ASSUME HighlightInv, Settled, last.generation = generation[last.tag],
                       last.tag \notin unannounced
                PROVE  shown[last.tag] = content[last.tag]
    BY DEF LastRequestIsShown
  <2>1. Owed
    BY DEF Owed, LatestGeneration, Dirty, Settled
  <2>2. requests # <<last>>
    BY DEF Settled
  <2>. QED  BY <2>1, <2>2 DEF HighlightInv, AnswerInv, Stage, Settled, Holding
<1>. QED  BY <1>1, HighlighterIsInvariant, PTL

\* Tokens put into an editor fit what it holds at that moment, although they
\* were scanned while the user typed: a stale result carries an old generation.
THEOREM StaleTokensAreDropped == Spec => TokensFitText
<1>1. HighlightInv /\ [Next]_vars
        => [\A t \in Tag : shown'[t] # shown[t] /\ t \notin unannounced
                             => shown'[t] \in {content'[t], Bare}]_vars
  <2>. SUFFICES ASSUME HighlightInv, [Next]_vars, NEW t \in Tag,
                       shown'[t] # shown[t], t \notin unannounced
                PROVE  shown'[t] \in {content'[t], Bare}
    OBVIOUS
  <2>1. CASE Apply
    <3>1. Fits(Head(results)) /\ Head(results).tag \in Tag
      BY <2>1, FirstResult, Editors DEF Apply, HighlightInv, FitInv, Result
    <3>. QED  BY <2>1, <3>1 DEF Apply, Fits, Dirty, HighlightInv, TypeOK
  <2>2. CASE ApplyConversion
    BY <2>2, Editors DEF ApplyConversion, HighlightInv, TypeOK
  <2>3. shown' = shown \/ Apply \/ ApplyConversion
    BY Touches DEF Next, UI, editors, DrainEnds, NextFrame, Change, TypeRight, Refresh, NewDocument, Close, Bump,
       Offer, Evict, Send
  <2>. QED  BY <2>1, <2>2, <2>3
<1>. QED  BY <1>1, HighlighterIsInvariant, PTL DEF Spec, TokensFitText
=============================================================================
