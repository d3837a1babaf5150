------------------------- MODULE ProjectPipelineProofs -------------------------
(****************************************************************************)
(* Theorems about ProjectPipeline, for every number of units and workers.   *)
(****************************************************************************)
EXTENDS ProjectPipeline, FiniteSetTheorems, TLAPS

-----------------------------------------------------------------------------
(* Channels *)

\* The semaphore and queue bound is a positive number.
LEMMA WIsPositive == W \in Nat /\ W > 0
<1>1. W \in Nat
  BY WorkersAssumption, FS_CardinalityType DEF W
<1>2. W # 0
  BY WorkersAssumption, FS_EmptySet DEF W
<1>. QED  BY <1>1, <1>2

\* A send keeps the channels well typed and touches only the named one.
LEMMA SendType ==
    ASSUME queue \in [Channel -> Seq(Item)], NEW ch \in Channel, NEW x \in Item,
           Send(ch, x)
    PROVE  /\ queue' \in [Channel -> Seq(Item)]
           /\ Len(queue'[ch]) = Len(queue[ch]) + 1
           /\ \A d \in Channel \ {ch} : queue'[d] = queue[d]
           /\ closed' = closed
<1>1. Append(queue[ch], x) \in Seq(Item)
  OBVIOUS
<1>2. Len(Append(queue[ch], x)) = Len(queue[ch]) + 1
  OBVIOUS
<1>. QED  BY <1>1, <1>2 DEF Send

\* A receive keeps the channels well typed and takes one typed item.
LEMMA ReceiveType ==
    ASSUME queue \in [Channel -> Seq(Item)], NEW ch \in Channel, Receive(ch)
    PROVE  /\ queue' \in [Channel -> Seq(Item)]
           /\ Head(queue[ch]) \in Item
           /\ Len(queue'[ch]) = Len(queue[ch]) - 1
           /\ \A d \in Channel \ {ch} : queue'[d] = queue[d]
           /\ closed' = closed
<1>1. queue[ch] \in Seq(Item) /\ queue[ch] # <<>>
  BY DEF Receive
<1>2. Tail(queue[ch]) \in Seq(Item) /\ Head(queue[ch]) \in Item
  BY <1>1
<1>3. Len(Tail(queue[ch])) = Len(queue[ch]) - 1
  BY <1>1
<1>. QED  BY <1>2, <1>3 DEF Receive

-----------------------------------------------------------------------------
(* Type correctness *)

\* The empty hand of a goroutine is an item like others.
LEMMA IdleIsItem == Idle \in Item
  BY UnitsAssumption DEF Idle, Item, Unit

\* The initial states are well typed.
LEMMA TypeInit == Init => TypeOK
<1>. SUFFICES ASSUME Init PROVE TypeOK
  OBVIOUS
<1>1. loader \in LoaderState /\ writer \in WriterState /\ caller \in CallerState
  BY UnitsAssumption, IdleIsItem DEF Init, LoaderState, WriterState, CallerState
<1>2. prep \in [PrepWorker -> PrepState] /\ comp \in [CompileWorker -> CompState]
  BY IdleIsItem DEF Init, PrepState, CompState
<1>3. queue \in [Channel -> Seq(Item)]
  BY DEF Init
<1>4. cache \subseteq Unit \X {"summary", "fragments", "empty"}
  BY DEF Init
<1>. QED  BY <1>1, <1>2, <1>3, <1>4 DEF Init, TypeOK

\* The semaphore apart, which TokenStep settles, every step keeps the types.
LEMMA TypeStep == TypeOK /\ [Next]_vars /\ bodyTokens' \in Nat => TypeOK'
<1>. SUFFICES ASSUME TypeOK, [Next]_vars, bodyTokens' \in Nat PROVE TypeOK'
  OBVIOUS
<1>. USE DEF disk, pipes, main
<1>1. CASE LoaderNext
  BY <1>1, UnitsAssumption DEF LoaderNext, TypeOK, LoaderState, Unit
<1>2. CASE LoaderSend
  <2>1. /\ queue' \in [Channel -> Seq(Item)] /\ closed' = closed
        /\ loader.at \in Unit
    BY <1>2, SendType DEF LoaderSend, TypeOK, Channel, Item, Failure
  <2>. QED
    BY <1>2, <2>1, UnitsAssumption DEF LoaderSend, LoaderAdvance, TypeOK, LoaderState, Unit
<1>3. CASE LoaderCancelled
  BY <1>3 DEF LoaderCancelled, TypeOK, LoaderState
<1>4. CASE LoaderClose
  BY <1>4 DEF LoaderClose, Close, TypeOK, LoaderState, Channel
<1>5. ASSUME NEW p \in PrepWorker, PrepReceive(p) PROVE TypeOK'
  <2>1. /\ queue' \in [Channel -> Seq(Item)] /\ closed' = closed
        /\ Head(queue["load"]) \in Item
    BY <1>5, ReceiveType DEF PrepReceive, TypeOK, Channel
  <2>2. prep' \in [PrepWorker -> PrepState]
    BY <1>5, <2>1 DEF PrepReceive, TypeOK, PrepState
  <2>. QED  BY <1>5, <2>1, <2>2 DEF PrepReceive, TypeOK
<1>6. ASSUME NEW p \in PrepWorker, PrepAcquire(p) PROVE TypeOK'
  <2>1. prep' \in [PrepWorker -> PrepState]
    BY <1>6 DEF PrepAcquire, TypeOK, PrepState
  <2>. QED  BY <1>6, <2>1 DEF PrepAcquire, TypeOK
<1>7. ASSUME NEW p \in PrepWorker, PrepParse(p) PROVE TypeOK'
  <2>1. \E pc \in {"sendErr", "sendPrepared"} : prep' = [prep EXCEPT ![p].pc = pc]
    BY <1>7 DEF PrepParse
  <2>2. prep' \in [PrepWorker -> PrepState]
    BY <2>1 DEF TypeOK, PrepState
  <2>. QED  BY <1>7, <2>2 DEF PrepParse, TypeOK
<1>8. ASSUME NEW p \in PrepWorker, PrepSend(p) PROVE TypeOK'
  <2>1. prep[p].item \in Item
    BY DEF TypeOK, PrepState
  <2>2. [unit |-> prep[p].item.unit, err |-> "parse"] \in Item
    BY <2>1 DEF Item, Failure
  <2>3. queue' \in [Channel -> Seq(Item)] /\ closed' = closed
    BY <1>8, <2>1, <2>2, SendType DEF PrepSend, TypeOK, Channel
  <2>4. prep' \in [PrepWorker -> PrepState]
    BY <1>8, IdleIsItem DEF PrepSend, TypeOK, PrepState
  <2>. QED  BY <1>8, <2>3, <2>4 DEF PrepSend, TypeOK
<1>9. ASSUME NEW p \in PrepWorker, PrepExit(p) PROVE TypeOK'
  <2>1. prep' \in [PrepWorker -> PrepState]
    BY <1>9, IdleIsItem DEF PrepExit, TypeOK, PrepState
  <2>. QED  BY <1>9, <2>1 DEF PrepExit, TypeOK
<1>10. CASE PrepareCloser
  BY <1>10 DEF PrepareCloser, Close, TypeOK, Channel
<1>11. ASSUME NEW c \in CompileWorker, CompileReceive(c) PROVE TypeOK'
  <2>1. /\ queue' \in [Channel -> Seq(Item)] /\ closed' = closed
        /\ Head(queue["prepare"]) \in Item
    BY <1>11, ReceiveType DEF CompileReceive, TypeOK, Channel
  <2>2. comp' \in [CompileWorker -> CompState]
    BY <1>11, <2>1 DEF CompileReceive, TypeOK, CompState
  <2>. QED  BY <1>11, <2>1, <2>2 DEF CompileReceive, TypeOK
<1>12. ASSUME NEW c \in CompileWorker, CompileUnit(c) PROVE TypeOK'
  <2>1. comp[c].item.unit \in Unit
    BY DEF TypeOK, CompState, Item
  <2>2. comp' \in [CompileWorker -> CompState]
    BY <1>12, <2>1 DEF CompileUnit, TypeOK, CompState, Item, Failure
  <2>3. cache' \subseteq Unit \X {"summary", "fragments", "empty"}
    BY <1>12, <2>1 DEF CompileUnit, TypeOK
  <2>. QED  BY <1>12, <2>2, <2>3 DEF CompileUnit, TypeOK
<1>13. ASSUME NEW c \in CompileWorker, CompileSend(c) PROVE TypeOK'
  <2>1. comp[c].item \in Item
    BY DEF TypeOK, CompState
  <2>2. queue' \in [Channel -> Seq(Item)] /\ closed' = closed
    BY <1>13, <2>1, SendType DEF CompileSend, TypeOK, Channel
  <2>3. comp' \in [CompileWorker -> CompState]
    BY <1>13, IdleIsItem DEF CompileSend, TypeOK, CompState
  <2>. QED  BY <1>13, <2>2, <2>3 DEF CompileSend, TypeOK
<1>14. ASSUME NEW c \in CompileWorker, CompileExit(c) PROVE TypeOK'
  <2>1. comp' \in [CompileWorker -> CompState]
    BY <1>14, IdleIsItem DEF CompileExit, TypeOK, CompState
  <2>. QED  BY <1>14, <2>1 DEF CompileExit, TypeOK
<1>15. CASE FragmentCloser
  BY <1>15 DEF FragmentCloser, Close, TypeOK, Channel
<1>16. CASE WriterReceive
  <2>1. /\ queue' \in [Channel -> Seq(Item)] /\ closed' = closed
        /\ Head(queue["fragment"]) \in Item
    BY <1>16, ReceiveType DEF WriterReceive, TypeOK, Channel
  <2>. QED  BY <1>16, <2>1 DEF WriterReceive, TypeOK, WriterState
<1>17. CASE WriterSend
  <2>1. queue' \in [Channel -> Seq(Item)] /\ closed' = closed
    BY <1>17, SendType DEF WriterSend, TypeOK, WriterState, Channel
  <2>. QED  BY <1>17, <2>1, IdleIsItem DEF WriterSend, TypeOK, WriterState
<1>18. CASE WriterExit
  BY <1>18, IdleIsItem DEF WriterExit, Close, TypeOK, WriterState, Channel
<1>19. CASE Collect
  <2>1. /\ queue' \in [Channel -> Seq(Item)] /\ closed' = closed
        /\ Head(queue["result"]) \in Item
    BY <1>19, ReceiveType DEF Collect, TypeOK, Channel
  <2>2. results' \in [Unit -> Failure \cup {"nil", "none"}]
    BY <1>19, <2>1 DEF Collect, TypeOK, Item
  <2>3. cancelled' \in BOOLEAN
    BY <1>19 DEF Collect, CancelOnError, TypeOK
  <2>. QED  BY <1>19, <2>1, <2>2, <2>3 DEF Collect, TypeOK
<1>20. CASE CheckEntry
  BY <1>20 DEF CheckEntry, TypeOK, CallerState, Returns
<1>21. CASE MergeFailed \/ MergeUnit
  <2>1. caller' \in CallerState
    BY <1>21, UnitsAssumption DEF MergeFailed, MergeUnit, Merging, TypeOK, CallerState, Returns, Unit
  <2>2. root' \in [Unit -> {"summary", "fragments", "empty"}]
    BY <1>21 DEF MergeFailed, MergeUnit, TypeOK
  <2>3. cancelled' \in BOOLEAN
    BY <1>21 DEF MergeFailed, MergeUnit, TypeOK
  <2>. QED  BY <1>21, <2>1, <2>2, <2>3 DEF MergeFailed, MergeUnit, TypeOK
<1>22. CASE Link
  BY <1>22 DEF Link, TypeOK, CallerState, Returns
<1>23. CASE Crash
  BY <1>23 DEF Crash, SendOnClosed, MergeRaces, TypeOK, CallerState
<1>24. CASE UNCHANGED vars
  BY <1>24 DEF vars, TypeOK
<1>. QED
  BY <1>1, <1>2, <1>3, <1>4, <1>5, <1>6, <1>7, <1>8, <1>9, <1>10, <1>11, <1>12,
     <1>13, <1>14, <1>15, <1>16, <1>17, <1>18, <1>19, <1>20, <1>21, <1>22, <1>23, <1>24
     DEF Next, Loader, Prep, Compile, Writer, Caller, Terminated

-----------------------------------------------------------------------------
(* The body semaphore *)

TokenInv == TypeOK /\ TokenAccounting /\ BodyBound

\* The holders of bodies can be counted.
LEMMA HoldersFinite ==
    /\ IsFiniteSet(PrepHolders) /\ IsFiniteSet(CompHolders)
    /\ Cardinality(PrepHolders) \in Nat /\ Cardinality(CompHolders) \in Nat
<1>1. IsFiniteSet(PrepHolders) /\ IsFiniteSet(CompHolders)
  BY WorkersAssumption, FS_Subset DEF PrepHolders, CompHolders
<1>. QED  BY <1>1, FS_CardinalityType

\* The count of live bodies is a natural number, before and after a step.
LEMMA LiveBodiesType == TypeOK => LiveBodies \in Nat
  BY HoldersFinite DEF TypeOK, LiveBodies, Channel

\* Only the holders and prepareCh matter to the count.
LEMMA TokenFrame ==
    ASSUME TokenInv, PrepHolders' = PrepHolders, CompHolders' = CompHolders,
           queue'["prepare"] = queue["prepare"], bodyTokens' = bodyTokens
    PROVE  TokenAccounting' /\ BodyBound' /\ bodyTokens' \in Nat
  BY DEF TokenInv, TypeOK, TokenAccounting, BodyBound, LiveBodies

\* The three counts move with the tokens, and within the bound.
LEMMA TokenDelta ==
    ASSUME TokenInv, NEW P \in Nat, NEW L \in Nat, NEW C \in Nat,
           Cardinality(PrepHolders)' = P, Len(queue["prepare"])' = L,
           Cardinality(CompHolders)' = C,
           bodyTokens' = P + L + C, P + L + C <= W
    PROVE  TokenAccounting' /\ BodyBound' /\ bodyTokens' \in Nat
  BY DEF TokenAccounting, BodyBound, LiveBodies

\* Every step keeps the token account and its bound.
LEMMA TokenStep ==
    TokenInv /\ [Next]_vars => TokenAccounting' /\ BodyBound' /\ bodyTokens' \in Nat
<1>. SUFFICES ASSUME TokenInv, [Next]_vars
              PROVE  TokenAccounting' /\ BodyBound' /\ bodyTokens' \in Nat
  OBVIOUS
<1>. DEFINE P == Cardinality(PrepHolders)
            C == Cardinality(CompHolders)
            L == Len(queue["prepare"])
            Good == TokenAccounting' /\ BodyBound' /\ bodyTokens' \in Nat
<1>a. /\ TypeOK /\ P \in Nat /\ C \in Nat /\ L \in Nat /\ W \in Nat
      /\ bodyTokens = P + L + C /\ P + L + C <= W
  BY HoldersFinite, WIsPositive DEF TokenInv, TokenAccounting, BodyBound, LiveBodies,
     TypeOK, Channel
<1>. USE DEF disk, pipes, main
<1>1. CASE UNCHANGED <<prep, comp, queue, bodyTokens>>
  BY <1>1, TokenFrame DEF PrepHolders, CompHolders
<1>2. ASSUME UNCHANGED <<prep, comp, bodyTokens>>,
             NEW ch \in Channel \ {"prepare"}, NEW x \in Item, Send(ch, x)
      PROVE  Good
  <2>1. queue'["prepare"] = queue["prepare"]
    BY <1>a, <1>2, SendType DEF TypeOK, Channel
  <2>. QED  BY <1>2, <2>1, TokenFrame DEF PrepHolders, CompHolders
<1>3. ASSUME UNCHANGED <<prep, comp, bodyTokens>>,
             NEW ch \in Channel \ {"prepare"}, Receive(ch)
      PROVE  Good
  <2>1. queue'["prepare"] = queue["prepare"]
    BY <1>a, <1>3, ReceiveType DEF TypeOK, Channel
  <2>. QED  BY <1>3, <2>1, TokenFrame DEF PrepHolders, CompHolders
<1>4. ASSUME NEW p \in PrepWorker, PrepReceive(p) PROVE Good
  <2>1. queue'["prepare"] = queue["prepare"]
    BY <1>a, <1>4, ReceiveType DEF PrepReceive, TypeOK, Channel
  <2>2. PrepHolders' = PrepHolders /\ CompHolders' = CompHolders
    BY <1>a, <1>4 DEF PrepReceive, PrepHolders, CompHolders, TypeOK, PrepState
  <2>. QED  BY <1>4, <2>1, <2>2, TokenFrame DEF PrepReceive
<1>5. ASSUME NEW p \in PrepWorker, PrepAcquire(p) PROVE Good
  <2>1. PrepHolders' = PrepHolders \cup {p} /\ p \notin PrepHolders
    BY <1>a, <1>5 DEF PrepAcquire, PrepHolders, TypeOK, PrepState
  <2>2. Cardinality(PrepHolders)' = P + 1
    BY <2>1, HoldersFinite, FS_AddElement
  <2>3. Cardinality(CompHolders)' = C /\ Len(queue["prepare"])' = L
    BY <1>5 DEF PrepAcquire, CompHolders
  <2>4. bodyTokens' = bodyTokens + 1 /\ bodyTokens < W
    BY <1>5 DEF PrepAcquire, Acquire
  <2>. HIDE DEF P, L, C
  <2>5. P + 1 \in Nat /\ bodyTokens' = P + 1 + L + C /\ P + 1 + L + C <= W
    BY <1>a, <2>4
  <2>. QED  BY <1>a, <2>2, <2>3, <2>5, TokenDelta
<1>6. ASSUME NEW p \in PrepHolders, PrepHolders' = PrepHolders \ {p},
             CompHolders' = CompHolders,
             \/ Len(queue'["prepare"]) = L /\ Release
             \/ Len(queue'["prepare"]) = L + 1 /\ bodyTokens' = bodyTokens
      PROVE  Good
  <2>1. Cardinality(PrepHolders)' = P - 1
    BY <1>6, HoldersFinite, FS_RemoveElement
  <2>2. P # 0
    BY <1>6, HoldersFinite, FS_EmptySet
  <2>3. Cardinality(CompHolders)' = C
    BY <1>6
  <2>. HIDE DEF P, L, C
  <2>4. PICK l \in Nat : /\ Len(queue["prepare"])' = l
                         /\ bodyTokens' = (P - 1) + l + C
                         /\ (P - 1) + l + C <= W
    <3>1. CASE Len(queue'["prepare"]) = L /\ Release
      BY <1>a, <2>2, <3>1 DEF Release
    <3>2. CASE Len(queue'["prepare"]) = L + 1 /\ bodyTokens' = bodyTokens
      BY <1>a, <2>2, <3>2
    <3>. QED  BY <1>6, <3>1, <3>2
  <2>5. P - 1 \in Nat
    BY <1>a, <2>2
  <2>. QED  BY <1>a, <2>1, <2>3, <2>4, <2>5, TokenDelta
<1>7. ASSUME NEW p \in PrepWorker, PrepParse(p) PROVE Good
  <2>1. CASE UNCHANGED bodyTokens /\ prep' = [prep EXCEPT ![p].pc = "sendPrepared"]
    <3>1. PrepHolders' = PrepHolders /\ CompHolders' = CompHolders
      BY <1>a, <1>7, <2>1 DEF PrepParse, PrepHolders, CompHolders, TypeOK, PrepState
    <3>. QED  BY <1>7, <2>1, <3>1, TokenFrame DEF PrepParse
  <2>2. CASE Release /\ prep' = [prep EXCEPT ![p].pc = "sendErr"]
    <3>1. p \in PrepHolders /\ PrepHolders' = PrepHolders \ {p}
      BY <1>a, <1>7, <2>2 DEF PrepParse, PrepHolders, TypeOK, PrepState
    <3>2. CompHolders' = CompHolders /\ queue' = queue
      BY <1>7 DEF PrepParse, CompHolders
    <3>. QED  BY <1>6, <2>2, <3>1, <3>2
  <2>. QED  BY <1>7, <2>1, <2>2 DEF PrepParse
<1>8. ASSUME NEW p \in PrepWorker, PrepSend(p) PROVE Good
  <2>. DEFINE bad == [unit |-> prep[p].item.unit, err |-> "parse"]
  <2>1. prep[p].item \in Item /\ bad \in Item
    BY <1>a DEF TypeOK, PrepState, Item, Failure
  <2>2. CASE prep[p].pc = "sendErr" /\ Send("result", bad)
    <3>1. queue'["prepare"] = queue["prepare"]
      BY <1>a, <2>1, <2>2, SendType DEF TypeOK, Channel
    <3>2. PrepHolders' = PrepHolders /\ CompHolders' = CompHolders
      BY <1>a, <1>8, <2>2 DEF PrepSend, PrepHolders, CompHolders, TypeOK, PrepState
    <3>. QED  BY <1>8, <3>1, <3>2, TokenFrame DEF PrepSend
  <2>3. CASE prep[p].pc = "sendPrepared" /\ Send("prepare", prep[p].item)
    <3>1. Len(queue'["prepare"]) = L + 1
      BY <1>a, <2>1, <2>3, SendType DEF TypeOK, Channel
    <3>2. p \in PrepHolders /\ PrepHolders' = PrepHolders \ {p}
      BY <1>a, <1>8, <2>3 DEF PrepSend, PrepHolders, TypeOK, PrepState
    <3>3. CompHolders' = CompHolders /\ bodyTokens' = bodyTokens
      BY <1>8 DEF PrepSend, CompHolders
    <3>. QED  BY <1>6, <3>1, <3>2, <3>3
  <2>. QED  BY <1>8, <2>2, <2>3 DEF PrepSend
<1>9. ASSUME NEW p \in PrepWorker, PrepExit(p) PROVE Good
  <2>1. CompHolders' = CompHolders /\ queue' = queue
    BY <1>9 DEF PrepExit, CompHolders
  <2>2. CASE prep[p].pc = "sendPrepared" /\ Release
    <3>1. p \in PrepHolders /\ PrepHolders' = PrepHolders \ {p}
      BY <1>a, <1>9, <2>2 DEF PrepExit, PrepHolders, TypeOK, PrepState
    <3>. QED  BY <1>6, <2>1, <2>2, <3>1
  <2>3. CASE prep[p].pc \in {"recv", "acquire"} /\ UNCHANGED bodyTokens
    <3>1. PrepHolders' = PrepHolders
      BY <1>a, <1>9, <2>3 DEF PrepExit, PrepHolders, TypeOK, PrepState
    <3>. QED  BY <2>1, <2>3, <3>1, TokenFrame
  <2>. QED  BY <1>9, <2>2, <2>3 DEF PrepExit
<1>10. ASSUME NEW c \in CompileWorker, CompileReceive(c) PROVE Good
  <2>1. CompHolders' = CompHolders \cup {c} /\ c \notin CompHolders
    BY <1>a, <1>10 DEF CompileReceive, CompHolders, TypeOK, CompState
  <2>2. Cardinality(CompHolders)' = C + 1
    BY <2>1, HoldersFinite, FS_AddElement
  <2>3. Len(queue["prepare"])' = L - 1 /\ L # 0
    BY <1>a, <1>10, ReceiveType DEF CompileReceive, Receive, TypeOK, Channel
  <2>4. Cardinality(PrepHolders)' = P /\ bodyTokens' = bodyTokens
    BY <1>10 DEF CompileReceive, PrepHolders
  <2>. HIDE DEF P, L, C
  <2>5. /\ C + 1 \in Nat /\ L - 1 \in Nat
        /\ bodyTokens' = P + (L - 1) + (C + 1) /\ P + (L - 1) + (C + 1) <= W
    BY <1>a, <2>3, <2>4
  <2>. QED  BY <1>a, <2>2, <2>3, <2>4, <2>5, TokenDelta
<1>11. ASSUME NEW c \in CompileWorker, CompileUnit(c) PROVE Good
  <2>1. CompHolders' = CompHolders \ {c} /\ c \in CompHolders
    BY <1>a, <1>11 DEF CompileUnit, CompHolders, TypeOK, CompState
  <2>2. Cardinality(CompHolders)' = C - 1
    BY <2>1, HoldersFinite, FS_RemoveElement
  <2>3. C # 0
    BY <2>1, HoldersFinite, FS_EmptySet
  <2>4. Cardinality(PrepHolders)' = P /\ Len(queue["prepare"])' = L /\ bodyTokens' = bodyTokens - 1
    BY <1>11 DEF CompileUnit, PrepHolders, Release
  <2>. HIDE DEF P, L, C
  <2>5. /\ C - 1 \in Nat
        /\ bodyTokens' = P + L + (C - 1) /\ P + L + (C - 1) <= W
    BY <1>a, <2>3, <2>4
  <2>. QED  BY <1>a, <2>2, <2>4, <2>5, TokenDelta
<1>12. ASSUME NEW c \in CompileWorker, CompileSend(c) PROVE Good
  <2>1. comp[c].item \in Item
    BY <1>a DEF TypeOK, CompState
  <2>2. queue'["prepare"] = queue["prepare"]
    BY <1>a, <1>12, <2>1, SendType DEF CompileSend, TypeOK, Channel
  <2>3. PrepHolders' = PrepHolders /\ CompHolders' = CompHolders
    BY <1>a, <1>12 DEF CompileSend, PrepHolders, CompHolders, TypeOK, CompState
  <2>. QED  BY <1>12, <2>2, <2>3, TokenFrame DEF CompileSend
<1>13. ASSUME NEW c \in CompileWorker, CompileExit(c) PROVE Good
  <2>1. PrepHolders' = PrepHolders /\ CompHolders' = CompHolders
    BY <1>a, <1>13 DEF CompileExit, PrepHolders, CompHolders, TypeOK, CompState
  <2>. QED  BY <1>13, <2>1, TokenFrame DEF CompileExit
<1>14. CASE Loader
  <2>1. CASE LoaderSend
    BY <1>a, <1>2, <2>1 DEF LoaderSend, TypeOK, Item, Failure, Channel
  <2>. QED  BY <1>1, <1>14, <2>1 DEF Loader, LoaderNext, LoaderCancelled, LoaderClose, Close
<1>15. CASE Writer
  <2>1. CASE WriterSend
    BY <1>a, <1>2, <2>1 DEF WriterSend, TypeOK, WriterState, Channel
  <2>2. CASE WriterReceive
    BY <1>3, <2>2 DEF WriterReceive, Channel
  <2>. QED  BY <1>1, <1>15, <2>1, <2>2 DEF Writer, WriterExit, Close
<1>16. CASE Caller
  <2>1. CASE Collect
    BY <1>3, <2>1 DEF Collect, Channel
  <2>. QED  BY <1>1, <1>16, <2>1 DEF Caller, CheckEntry, MergeFailed, MergeUnit, Link
<1>17. CASE PrepareCloser \/ FragmentCloser \/ Crash \/ UNCHANGED vars
  BY <1>1, <1>17 DEF PrepareCloser, FragmentCloser, Crash, SendOnClosed, MergeRaces, Close, vars
<1>. QED
  BY <1>4, <1>5, <1>7, <1>8, <1>9, <1>10, <1>11, <1>12, <1>13, <1>14, <1>15, <1>16, <1>17
     DEF Next, Prep, Compile, Terminated

\* At the start no token is out.
LEMMA TokenInit == Init => TokenAccounting /\ BodyBound
<1>. SUFFICES ASSUME Init PROVE TokenAccounting /\ BodyBound
  OBVIOUS
<1>1. PrepHolders = {} /\ CompHolders = {} /\ Len(queue["prepare"]) = 0
  BY DEF Init, PrepHolders, CompHolders, Channel
<1>. QED  BY <1>1, FS_EmptySet, WIsPositive DEF Init, TokenAccounting, BodyBound, LiveBodies

\* Every reachable state is well typed and the body semaphore is exact: at most
\* W parsed programs are in memory, whatever fails and whenever it is cancelled.
THEOREM BodiesBounded == Spec => [](TypeOK /\ TokenAccounting /\ BodyBound)
<1>1. Init => TokenInv
  BY TypeInit, TokenInit DEF TokenInv
<1>2. TokenInv /\ [Next]_vars => TokenInv'
  BY TokenStep, TypeStep DEF TokenInv
<1>. QED  BY <1>1, <1>2, PTL DEF Spec, TokenInv

\* Every reachable state of the pipeline is well typed: in particular no goroutine
\* ever takes a token from an empty semaphore.
THEOREM PipelineTypes == Spec => []TypeOK
  BY BodiesBounded, PTL

-----------------------------------------------------------------------------
(* The order in which channels are closed *)

\* A channel is closed only when all its senders that use a select are done.
CloseOrder ==
    /\ "load" \in closed => loader.pc = "done"
    /\ "prepare" \in closed => \A p \in PrepWorker : prep[p].pc = "done"
    /\ "fragment" \in closed =>
          loader.pc = "done" /\ \A c \in CompileWorker : comp[c].pc = "done"
    /\ "result" \in closed => writer.pc = "done"

\* Every close comes after the last sender of its channel.
LEMMA CloseStep == TypeOK /\ CloseOrder /\ [Next]_vars => CloseOrder'
<1>. SUFFICES ASSUME TypeOK, CloseOrder, [Next]_vars PROVE CloseOrder'
  OBVIOUS
<1>. USE DEF disk, pipes, main, CloseOrder
<1>1. CASE Loader
  BY <1>1 DEF Loader, LoaderNext, LoaderSend, LoaderAdvance, LoaderCancelled, LoaderClose,
     Send, Close, TypeOK, LoaderState
<1>2. ASSUME NEW p \in PrepWorker, Prep(p) PROVE CloseOrder'
  <2>1. closed' = closed /\ UNCHANGED <<loader, comp, writer>> /\ prep[p].pc # "done"
    BY <1>2 DEF Prep, PrepReceive, PrepAcquire, PrepParse, PrepSend, PrepExit, Send, Receive
  <2>. QED  BY <2>1
<1>3. ASSUME NEW c \in CompileWorker, Compile(c) PROVE CloseOrder'
  <2>1. closed' = closed /\ UNCHANGED <<loader, prep, writer>> /\ comp[c].pc # "done"
    BY <1>3 DEF Compile, CompileReceive, CompileUnit, CompileSend, CompileExit, Send, Receive
  <2>. QED  BY <2>1
<1>4. CASE Writer
  BY <1>4 DEF Writer, WriterReceive, WriterSend, WriterExit, Send, Receive, Close
<1>5. CASE PrepareCloser
  BY <1>5 DEF PrepareCloser, Close
<1>6. CASE FragmentCloser
  BY <1>6 DEF FragmentCloser, FragmentSendersDone, Close
<1>7. CASE Caller
  BY <1>7 DEF Caller, Collect, CheckEntry, MergeFailed, MergeUnit, Link, Receive
<1>8. CASE Crash \/ UNCHANGED vars
  BY <1>8 DEF Crash, SendOnClosed, MergeRaces, vars
<1>. QED
  BY <1>1, <1>2, <1>3, <1>4, <1>5, <1>6, <1>7, <1>8 DEF Next, Terminated

\* Only the two bare sends of an error can meet a closed channel.
THEOREM NoOtherPanic == Spec => []SendersFindOpen
<1>1. Init => CloseOrder
  BY DEF Init, CloseOrder
<1>2. TypeOK /\ CloseOrder /\ [Next]_vars => CloseOrder'
  BY CloseStep
<1>3. CloseOrder => SendersFindOpen
  BY DEF CloseOrder, SendersFindOpen
<1>. QED  BY <1>1, <1>2, <1>3, BodiesBounded, PTL DEF Spec
-----------------------------------------------------------------------------
(* Where the units are *)

\* A unit is held by the loader until it is sent, by a channel or a goroutine
\* while it travels, and by the collector's slice once it has reported.
Place ==
    {<<"loader", 0>>, <<"writer", 0>>, <<"results", 0>>}
        \cup {"queue"} \X Channel \cup {"prep"} \X PrepWorker \cup {"comp"} \X CompileWorker

Content(ch) == {queue[ch][i] : i \in 1..Len(queue[ch])}

Held == [pl \in Place |->
    CASE pl[1] = "loader"  -> {u \in Unit : loader.at <= u}
      [] pl[1] = "queue"   -> {x.unit : x \in Content(pl[2])}
      [] pl[1] = "prep"    -> IF prep[pl[2]].pc \in {"recv", "done"} THEN {} ELSE {prep[pl[2]].item.unit}
      [] pl[1] = "comp"    -> IF comp[pl[2]].pc \in {"recv", "done"} THEN {} ELSE {comp[pl[2]].item.unit}
      [] pl[1] = "writer"  -> IF writer.pc = "send" THEN {writer.item.unit} ELSE {}
      [] pl[1] = "results" -> {u \in Unit : results[u] # "none"}]

SomeFailed == \E u \in Unit : Failed(u)

\* No unit is in two places, or twice in one channel.
NoRepeat  == \A ch \in Channel : \A i, j \in 1..Len(queue[ch]) :
                i # j => queue[ch][i].unit # queue[ch][j].unit
Exclusive == \A p, q \in Place : p # q => Held[p] \cap Held[q] = {}
\* Until a failure is recorded no unit is dropped.
Conserved == SomeFailed \/ \A u \in Unit : \E p \in Place : u \in Held[p]

Placed == TypeOK /\ NoRepeat /\ Exclusive

\* The places a unit can be in.
LEMMA PlaceType ==
    /\ <<"loader", 0>> \in Place /\ <<"writer", 0>> \in Place /\ <<"results", 0>> \in Place
    /\ \A ch \in Channel : <<"queue", ch>> \in Place
    /\ \A p \in PrepWorker : <<"prep", p>> \in Place
    /\ \A c \in CompileWorker : <<"comp", c>> \in Place
  BY DEF Place

\* What each place holds, now and after a step.
HeldTable ==
    /\ Held[<<"loader", 0>>] = {u \in Unit : loader.at <= u}
    /\ Held[<<"writer", 0>>] = IF writer.pc = "send" THEN {writer.item.unit} ELSE {}
    /\ Held[<<"results", 0>>] = {u \in Unit : results[u] # "none"}
    /\ \A ch \in Channel : Held[<<"queue", ch>>] = {x.unit : x \in Content(ch)}
    /\ \A p \in PrepWorker : Held[<<"prep", p>>] =
          IF prep[p].pc \in {"recv", "done"} THEN {} ELSE {prep[p].item.unit}
    /\ \A c \in CompileWorker : Held[<<"comp", c>>] =
          IF comp[c].pc \in {"recv", "done"} THEN {} ELSE {comp[c].item.unit}

\* What each place holds.
LEMMA HeldAt == HeldTable
<1>1. /\ Held[<<"loader", 0>>] = {u \in Unit : loader.at <= u}
      /\ Held[<<"writer", 0>>] = IF writer.pc = "send" THEN {writer.item.unit} ELSE {}
      /\ Held[<<"results", 0>>] = {u \in Unit : results[u] # "none"}
  BY PlaceType DEF Held
<1>2. ASSUME NEW ch \in Channel
      PROVE  Held[<<"queue", ch>>] = {x.unit : x \in Content(ch)}
  BY PlaceType DEF Held
<1>3. ASSUME NEW p \in PrepWorker
      PROVE  Held[<<"prep", p>>] =
                 IF prep[p].pc \in {"recv", "done"} THEN {} ELSE {prep[p].item.unit}
  BY PlaceType DEF Held
<1>4. ASSUME NEW c \in CompileWorker
      PROVE  Held[<<"comp", c>>] =
                 IF comp[c].pc \in {"recv", "done"} THEN {} ELSE {comp[c].item.unit}
  BY PlaceType DEF Held
<1>. QED  BY <1>1, <1>2, <1>3, <1>4 DEF HeldTable

\* What each place holds after a step.
LEMMA HeldAtNext == HeldTable'
  BY HeldAt, PTL

\* A property of every place is one of each kind of place.
LEMMA PlaceSplit ==
    ASSUME NEW pl \in Place
    PROVE  \/ pl \in {<<"loader", 0>>, <<"writer", 0>>, <<"results", 0>>}
           \/ \E ch \in Channel : pl = <<"queue", ch>>
           \/ \E p \in PrepWorker : pl = <<"prep", p>>
           \/ \E c \in CompileWorker : pl = <<"comp", c>>
  BY DEF Place

\* A send adds one item to the content of its channel, a receive takes one.
LEMMA SendContent ==
    ASSUME TypeOK, NEW ch \in Channel, NEW x \in Item, Send(ch, x)
    PROVE  /\ Content(ch)' = Content(ch) \cup {x}
           /\ \A d \in Channel \ {ch} : queue'[d] = queue[d]
           /\ queue' \in [Channel -> Seq(Item)]
           /\ queue'[ch] = Append(queue[ch], x)
<1>1. queue'[ch] = Append(queue[ch], x)
  BY DEF Send, TypeOK
<1>2. queue[ch] \in Seq(Item)
  BY DEF TypeOK
<1>3. Content(ch)' = Content(ch) \cup {x}
  BY <1>1, <1>2 DEF Content
<1>. QED  BY <1>1, <1>3, SendType DEF TypeOK

\* A received item was in the channel, and the rest stays there.
LEMMA ReceiveContent ==
    ASSUME TypeOK, NEW ch \in Channel, Receive(ch)
    PROVE  /\ Head(queue[ch]) \in Content(ch)
           /\ Content(ch) = Content(ch)' \cup {Head(queue[ch])}
           /\ Head(queue[ch]) \in Item
           /\ \A d \in Channel \ {ch} : queue'[d] = queue[d]
           /\ queue'[ch] = Tail(queue[ch])
<1>1. queue'[ch] = Tail(queue[ch]) /\ queue[ch] # <<>>
  BY DEF Receive, TypeOK
<1>2. queue[ch] \in Seq(Item) /\ queue[ch] # <<>>
  BY <1>1 DEF TypeOK
<1>3. Head(queue[ch]) = queue[ch][1] /\ Len(queue[ch]) >= 1 /\ Len(queue[ch]) \in Nat
  BY <1>2
<1>4. /\ Len(Tail(queue[ch])) = Len(queue[ch]) - 1
      /\ \A i \in 1..(Len(queue[ch]) - 1) : Tail(queue[ch])[i] = queue[ch][i + 1]
  BY <1>2
<1>5. ASSUME NEW x \in Content(ch) PROVE x \in Content(ch)' \cup {Head(queue[ch])}
  <2>1. PICK i \in 1..Len(queue[ch]) : x = queue[ch][i]
    BY DEF Content
  <2>2. CASE i = 1
    BY <2>1, <2>2, <1>3
  <2>3. CASE i # 1
    <3>1. i - 1 \in 1..Len(queue'[ch]) /\ queue'[ch][i - 1] = x
      BY <2>1, <2>3, <1>1, <1>3, <1>4
    <3>. QED  BY <3>1 DEF Content
  <2>. QED  BY <2>2, <2>3
<1>6. Content(ch)' \subseteq Content(ch)
  BY <1>1, <1>3, <1>4 DEF Content
<1>7. Head(queue[ch]) \in Content(ch)
  BY <1>3 DEF Content
<1>. QED  BY <1>1, <1>5, <1>6, <1>7, ReceiveType DEF TypeOK

\* How a unit moves: places other than its old and its new one are left alone.
MovesAt(u, from, to, pl) ==
    Held'[pl] = IF pl = from THEN Held[pl] \ {u} ELSE IF pl = to THEN Held[pl] \cup {u} ELSE Held[pl]
Moves(u, from, to) == \A pl \in Place : MovesAt(u, from, to, pl)

\* Every unit that is somewhere stays somewhere.
NothingLost == \A u \in Unit : (\E p \in Place : u \in Held[p]) => \E p \in Place : u \in Held'[p]

\* A unit that moves from one place to another leaves the places exclusive.
LEMMA MoveKeepsPlaces ==
    ASSUME NEW from \in Place, NEW to \in Place, from # to, NEW u \in Held[from],
           Exclusive, Moves(u, from, to)
    PROVE  /\ Exclusive'
           /\ \A v \in Unit : (\E p \in Place : v \in Held[p]) => \E p \in Place : v \in Held'[p]
<1>1. ASSUME NEW p \in Place, NEW q \in Place, p # q, NEW v, v \in Held'[p], v \in Held'[q]
      PROVE  FALSE
  BY <1>1, ZenonT(60) DEF Exclusive, Moves, MovesAt
<1>2. ASSUME NEW v \in Unit, NEW p \in Place, v \in Held[p]
      PROVE  \E q \in Place : v \in Held'[q]
  <2>1. CASE v = u
    BY <2>1, from # to DEF Moves, MovesAt
  <2>2. CASE v # u
    BY <1>2, <2>2 DEF Moves, MovesAt
  <2>. QED  BY <2>1, <2>2
<1>3. Exclusive'
  <2>. SUFFICES ASSUME NEW p \in Place, NEW q \in Place, p # q
                PROVE  Held'[p] \cap Held'[q] = {}
    BY DEF Exclusive
  <2>. QED  BY <1>1
<1>. QED  BY <1>2, <1>3

\* Dropping units leaves the places exclusive.
LEMMA DropKeepsPlaces ==
    ASSUME Exclusive, \A pl \in Place : Held'[pl] \subseteq Held[pl]
    PROVE  Exclusive'
  BY DEF Exclusive

\* A send moves the unit of the item into the channel, a receive moves the
\* unit of the first item out of it, and the channel repeats no unit.
LEMMA SendPlaces ==
    ASSUME Placed, NEW ch \in Channel, NEW x \in Item, Send(ch, x),
           NEW from \in Place, from # <<"queue", ch>>, x.unit \in Held[from]
    PROVE  /\ Held'[<<"queue", ch>>] = Held[<<"queue", ch>>] \cup {x.unit}
           /\ \A d \in Channel \ {ch} : Held'[<<"queue", d>>] = Held[<<"queue", d>>]
           /\ NoRepeat'
<1>. USE DEF Placed
<1>1. /\ Content(ch)' = Content(ch) \cup {x}
      /\ \A d \in Channel \ {ch} : queue'[d] = queue[d]
      /\ queue'[ch] = Append(queue[ch], x)
  BY SendContent
<1>2. \A d \in Channel : /\ Held[<<"queue", d>>] = {y.unit : y \in Content(d)}
                         /\ Held'[<<"queue", d>>] = {y.unit : y \in Content(d)'}
  BY HeldAt, HeldAtNext DEF HeldTable
<1>3. \A d \in Channel \ {ch} : Content(d)' = Content(d)
  BY <1>1 DEF Content
<1>4. x.unit \notin Held[<<"queue", ch>>]
  BY PlaceType DEF Exclusive
<1>5. \A i \in 1..Len(queue[ch]) : queue[ch][i].unit # x.unit
  BY <1>2, <1>4 DEF Content
<1>6. queue[ch] \in Seq(Item)
  BY DEF TypeOK
<1>7. ASSUME NEW i \in 1..Len(queue'[ch]), NEW j \in 1..Len(queue'[ch]), i # j
      PROVE  queue'[ch][i].unit # queue'[ch][j].unit
  <2>1. /\ Len(queue'[ch]) = Len(queue[ch]) + 1 /\ Len(queue[ch]) \in Nat
        /\ queue'[ch][Len(queue[ch]) + 1] = x
        /\ \A k \in 1..Len(queue[ch]) : queue'[ch][k] = queue[ch][k]
    BY <1>1, <1>6
  <2>. PICK n \in Nat : n = Len(queue[ch])
    BY <2>1
  <2>2. i \in 1..(n + 1) /\ j \in 1..(n + 1)
    BY <1>7, <2>1
  <2>3. CASE i = n + 1
    <3>1. j \in 1..n
      BY <1>7, <2>2, <2>3
    <3>. QED  BY <1>5, <2>1, <2>3, <3>1
  <2>4. CASE j = n + 1
    <3>1. i \in 1..n
      BY <1>7, <2>2, <2>4
    <3>. QED  BY <1>5, <2>1, <2>4, <3>1
  <2>5. CASE i \in 1..n /\ j \in 1..n
    BY <1>7, <2>1, <2>5, SMTT(30) DEF NoRepeat
  <2>6. (i = n + 1 \/ i \in 1..n) /\ (j = n + 1 \/ j \in 1..n)
    BY <2>2
  <2>. QED  BY <2>3, <2>4, <2>5, <2>6
<1>8. NoRepeat'
  <2>. SUFFICES ASSUME NEW d \in Channel, NEW i \in 1..Len(queue'[d]), NEW j \in 1..Len(queue'[d]), i # j
                PROVE  queue'[d][i].unit # queue'[d][j].unit
    BY DEF NoRepeat
  <2>1. CASE d = ch
    <3>1. i \in 1..Len(queue'[ch]) /\ j \in 1..Len(queue'[ch])
      BY <2>1
    <3>. QED  BY <1>7, <2>1, <3>1
  <2>2. CASE d # ch
    BY <1>1, <2>2, SMTT(30) DEF NoRepeat
  <2>. QED  BY <2>1, <2>2
<1>. QED  BY <1>1, <1>2, <1>3, <1>8

\* The unit of a received item leaves the channel.
LEMMA ReceivePlaces ==
    ASSUME Placed, NEW ch \in Channel, Receive(ch)
    PROVE  /\ Head(queue[ch]).unit \in Held[<<"queue", ch>>]
           /\ Held'[<<"queue", ch>>] = Held[<<"queue", ch>>] \ {Head(queue[ch]).unit}
           /\ \A d \in Channel \ {ch} : Held'[<<"queue", d>>] = Held[<<"queue", d>>]
           /\ NoRepeat'
<1>. USE DEF Placed
<1>. DEFINE x == Head(queue[ch])
<1>1. /\ x \in Content(ch) /\ Content(ch) = Content(ch)' \cup {x}
      /\ \A d \in Channel \ {ch} : queue'[d] = queue[d]
      /\ queue'[ch] = Tail(queue[ch])
  BY ReceiveContent
<1>2. \A d \in Channel : /\ Held[<<"queue", d>>] = {y.unit : y \in Content(d)}
                         /\ Held'[<<"queue", d>>] = {y.unit : y \in Content(d)'}
  BY HeldAt, HeldAtNext DEF HeldTable
<1>3. \A d \in Channel \ {ch} : Content(d)' = Content(d)
  BY <1>1 DEF Content
<1>4. queue[ch] \in Seq(Item) /\ queue[ch] # <<>>
  BY DEF TypeOK, Receive
<1>5. /\ Len(queue'[ch]) = Len(queue[ch]) - 1 /\ Len(queue[ch]) \in Nat \ {0}
      /\ x = queue[ch][1]
      /\ \A k \in 1..(Len(queue[ch]) - 1) : queue'[ch][k] = queue[ch][k + 1]
  BY <1>1, <1>4
<1>6. ASSUME NEW y \in Content(ch)' PROVE y.unit # x.unit
  <2>1. PICK k \in 1..(Len(queue[ch]) - 1) : y = queue[ch][k + 1]
    BY <1>5 DEF Content
  <2>2. k + 1 \in 1..Len(queue[ch]) /\ 1 \in 1..Len(queue[ch]) /\ k + 1 # 1
    BY <1>5
  <2>. QED  BY <1>5, <2>1, <2>2 DEF NoRepeat
<1>7. ASSUME NEW i \in 1..Len(queue'[ch]), NEW j \in 1..Len(queue'[ch]), i # j
      PROVE  queue'[ch][i].unit # queue'[ch][j].unit
  <2>1. i + 1 \in 1..Len(queue[ch]) /\ j + 1 \in 1..Len(queue[ch]) /\ i + 1 # j + 1
    <3>. PICK n \in Nat \ {0} : n = Len(queue[ch])
      BY <1>5
    <3>1. i \in 1..(n - 1) /\ j \in 1..(n - 1)
      BY <1>5, <1>7
    <3>2. i + 1 \in 1..n /\ j + 1 \in 1..n /\ i + 1 # j + 1
      BY <1>7, <3>1
    <3>. QED  BY <3>2
  <2>. QED  BY <1>5, <2>1, SMTT(30) DEF NoRepeat
<1>8. NoRepeat'
  <2>. SUFFICES ASSUME NEW d \in Channel, NEW i \in 1..Len(queue'[d]), NEW j \in 1..Len(queue'[d]), i # j
                PROVE  queue'[d][i].unit # queue'[d][j].unit
    BY DEF NoRepeat
  <2>1. CASE d = ch
    <3>1. i \in 1..Len(queue'[ch]) /\ j \in 1..Len(queue'[ch])
      BY <2>1
    <3>. QED  BY <1>7, <2>1, <3>1
  <2>2. CASE d # ch
    BY <1>1, <2>2, SMTT(30) DEF NoRepeat
  <2>. QED  BY <2>1, <2>2
<1>. HIDE DEF x
<1>9. {y.unit : y \in Content(ch)'} = {y.unit : y \in Content(ch)} \ {x.unit}
  BY <1>1, <1>6
<1>10. x.unit \in Held[<<"queue", ch>>]
  BY <1>1, <1>2
<1>. QED  BY <1>1, <1>2, <1>3, <1>8, <1>9, <1>10 DEF x

\* Places that a step leaves alone.
LEMMA PlacesFrame ==
    /\ loader'.at = loader.at => Held'[<<"loader", 0>>] = Held[<<"loader", 0>>]
    /\ writer' = writer => Held'[<<"writer", 0>>] = Held[<<"writer", 0>>]
    /\ results' = results => Held'[<<"results", 0>>] = Held[<<"results", 0>>]
    /\ \A ch \in Channel : queue'[ch] = queue[ch] => Held'[<<"queue", ch>>] = Held[<<"queue", ch>>]
    /\ \A p \in PrepWorker : prep'[p] = prep[p] => Held'[<<"prep", p>>] = Held[<<"prep", p>>]
    /\ \A c \in CompileWorker : comp'[c] = comp[c] => Held'[<<"comp", c>>] = Held[<<"comp", c>>]
<1>1. /\ loader'.at = loader.at => Held'[<<"loader", 0>>] = Held[<<"loader", 0>>]
      /\ writer' = writer => Held'[<<"writer", 0>>] = Held[<<"writer", 0>>]
      /\ results' = results => Held'[<<"results", 0>>] = Held[<<"results", 0>>]
  BY HeldAt, HeldAtNext DEF HeldTable
<1>2. ASSUME NEW ch \in Channel, queue'[ch] = queue[ch]
      PROVE  Held'[<<"queue", ch>>] = Held[<<"queue", ch>>]
  <2>1. Content(ch)' = Content(ch)
    BY <1>2 DEF Content
  <2>2. {x.unit : x \in Content(ch)'} = {x.unit : x \in Content(ch)}
    BY <2>1
  <2>. QED  BY <2>2, HeldAt, HeldAtNext, ZenonT(60) DEF HeldTable
<1>3. ASSUME NEW p \in PrepWorker, prep'[p] = prep[p]
      PROVE  Held'[<<"prep", p>>] = Held[<<"prep", p>>]
  BY <1>3, HeldAt, HeldAtNext, ZenonT(60) DEF HeldTable
<1>4. ASSUME NEW c \in CompileWorker, comp'[c] = comp[c]
      PROVE  Held'[<<"comp", c>>] = Held[<<"comp", c>>]
  BY <1>4, HeldAt, HeldAtNext, ZenonT(60) DEF HeldTable
<1>. QED  BY <1>1, <1>2, <1>3, <1>4

\* A step of one goroutine changes its own place only.
LEMMA PrepPlace ==
    ASSUME NEW p \in PrepWorker, \A q \in PrepWorker \ {p} : prep'[q] = prep[q]
    PROVE  /\ \A q \in PrepWorker \ {p} : Held'[<<"prep", q>>] = Held[<<"prep", q>>]
           /\ Held'[<<"prep", p>>] =
                  IF prep'[p].pc \in {"recv", "done"} THEN {} ELSE {prep'[p].item.unit}
           /\ Held[<<"prep", p>>] =
                  IF prep[p].pc \in {"recv", "done"} THEN {} ELSE {prep[p].item.unit}
  BY PlacesFrame, HeldAt, HeldAtNext DEF HeldTable

\* A step of one compile worker changes no place of another.
LEMMA CompPlace ==
    ASSUME NEW c \in CompileWorker, \A d \in CompileWorker \ {c} : comp'[d] = comp[d]
    PROVE  /\ \A d \in CompileWorker \ {c} : Held'[<<"comp", d>>] = Held[<<"comp", d>>]
           /\ Held'[<<"comp", c>>] =
                  IF comp'[c].pc \in {"recv", "done"} THEN {} ELSE {comp'[c].item.unit}
           /\ Held[<<"comp", c>>] =
                  IF comp[c].pc \in {"recv", "done"} THEN {} ELSE {comp[c].item.unit}
  BY PlacesFrame, HeldAt, HeldAtNext DEF HeldTable

\* What holds of every kind of place holds of every place.
LEMMA SameByKind ==
    ASSUME \A pl \in {<<"loader", 0>>, <<"writer", 0>>, <<"results", 0>>} : Held'[pl] = Held[pl],
           \A ch \in Channel : Held'[<<"queue", ch>>] = Held[<<"queue", ch>>],
           \A p \in PrepWorker : Held'[<<"prep", p>>] = Held[<<"prep", p>>],
           \A c \in CompileWorker : Held'[<<"comp", c>>] = Held[<<"comp", c>>]
    PROVE  \A pl \in Place : Held'[pl] = Held[pl]
  BY PlaceSplit

Queues == {"queue"} \X Channel
\* Only place pl, and the channels, may have changed.
Others(pl) == \A q \in Place \ Queues : q # pl => Held'[q] = Held[q]

\* A step that changes the state of one goroutine changes no other's place.
LEMMA OthersStay ==
    /\ UNCHANGED <<prep, comp, writer, results>> => Others(<<"loader", 0>>)
    /\ loader'.at = loader.at /\ UNCHANGED <<prep, comp, results>> => Others(<<"writer", 0>>)
    /\ loader'.at = loader.at /\ UNCHANGED <<prep, comp, writer>> => Others(<<"results", 0>>)
    /\ \A p \in PrepWorker :
          /\ loader'.at = loader.at /\ UNCHANGED <<comp, writer, results>>
          /\ \A q \in PrepWorker \ {p} : Held'[<<"prep", q>>] = Held[<<"prep", q>>]
          => Others(<<"prep", p>>)
    /\ \A c \in CompileWorker :
          /\ loader'.at = loader.at /\ UNCHANGED <<prep, writer, results>>
          /\ \A d \in CompileWorker \ {c} : Held'[<<"comp", d>>] = Held[<<"comp", d>>]
          => Others(<<"comp", c>>)
<1>1. \A q \in Place \ Queues :
          \/ q \in {<<"loader", 0>>, <<"writer", 0>>, <<"results", 0>>}
          \/ \E p \in PrepWorker : q = <<"prep", p>>
          \/ \E c \in CompileWorker : q = <<"comp", c>>
  BY PlaceSplit DEF Queues
<1>2. /\ loader'.at = loader.at => Held'[<<"loader", 0>>] = Held[<<"loader", 0>>]
      /\ writer' = writer => Held'[<<"writer", 0>>] = Held[<<"writer", 0>>]
      /\ results' = results => Held'[<<"results", 0>>] = Held[<<"results", 0>>]
  BY PlacesFrame
<1>3. prep' = prep => \A p \in PrepWorker : Held'[<<"prep", p>>] = Held[<<"prep", p>>]
  BY PlacesFrame
<1>4. comp' = comp => \A c \in CompileWorker : Held'[<<"comp", c>>] = Held[<<"comp", c>>]
  BY PlacesFrame
<1>. QED  BY <1>1, <1>2, <1>3, <1>4 DEF Others

\* A send moves the unit of its item into the channel, and loses none.
LEMMA SendMoves ==
    ASSUME Placed, NEW ch \in Channel, NEW x \in Item, Send(ch, x),
           NEW from \in Place \ Queues, x.unit \in Held[from],
           Held'[from] = Held[from] \ {x.unit}, Others(from)
    PROVE  Exclusive' /\ NoRepeat' /\ NothingLost
<1>1. <<"queue", ch>> \in Place /\ <<"queue", ch>> # from
  BY PlaceType DEF Queues
<1>2. /\ Held'[<<"queue", ch>>] = Held[<<"queue", ch>>] \cup {x.unit}
      /\ \A d \in Channel \ {ch} : Held'[<<"queue", d>>] = Held[<<"queue", d>>]
      /\ NoRepeat'
  BY <1>1, SendPlaces
<1>3. Moves(x.unit, from, <<"queue", ch>>)
  <2>. SUFFICES ASSUME NEW pl \in Place PROVE MovesAt(x.unit, from, <<"queue", ch>>, pl)
    BY DEF Moves
  <2>1. CASE pl \in Queues
    <3>1. PICK d \in Channel : pl = <<"queue", d>>
      BY <2>1 DEF Queues
    <3>2. CASE d = ch
      BY <1>1, <1>2, <2>1, <3>1, <3>2 DEF MovesAt
    <3>3. CASE d # ch
      BY <1>1, <1>2, <2>1, <3>1, <3>3 DEF MovesAt
    <3>. QED  BY <3>2, <3>3
  <2>2. CASE pl \notin Queues
    BY <2>2 DEF Others, MovesAt, Queues
  <2>. QED  BY <2>1, <2>2
<1>. QED  BY <1>1, <1>2, <1>3, MoveKeepsPlaces DEF Placed, NothingLost

\* A receive moves the unit of its item to the receiver, and loses none.
LEMMA ReceiveMoves ==
    ASSUME Placed, NEW ch \in Channel, Receive(ch), NEW to \in Place \ Queues,
           Held'[to] = Held[to] \cup {Head(queue[ch]).unit}, Others(to)
    PROVE  Exclusive' /\ NoRepeat' /\ NothingLost
<1>. DEFINE u == Head(queue[ch]).unit
<1>1. <<"queue", ch>> \in Place /\ <<"queue", ch>> # to
  BY PlaceType DEF Queues
<1>2. /\ u \in Held[<<"queue", ch>>]
      /\ Held'[<<"queue", ch>>] = Held[<<"queue", ch>>] \ {u}
      /\ \A d \in Channel \ {ch} : Held'[<<"queue", d>>] = Held[<<"queue", d>>]
      /\ NoRepeat'
  BY ReceivePlaces
<1>4. Held'[to] = Held[to] \cup {u}
  OBVIOUS
<1>3. Moves(u, <<"queue", ch>>, to)
  <2>. SUFFICES ASSUME NEW pl \in Place PROVE MovesAt(u, <<"queue", ch>>, to, pl)
    BY DEF Moves
  <2>1. CASE pl \in Queues
    <3>1. PICK d \in Channel : pl = <<"queue", d>>
      BY <2>1 DEF Queues
    <3>. QED  BY <1>1, <1>2, <2>1, <3>1 DEF MovesAt
  <2>2. CASE pl \notin Queues
    <3>. HIDE DEF u
    <3>1. pl # <<"queue", ch>> /\ to # <<"queue", ch>>
      BY <1>1, <2>2 DEF Queues
    <3>2. CASE pl = to
      BY <1>4, <3>1, <3>2 DEF MovesAt
    <3>3. CASE pl # to
      BY <2>2, <3>1, <3>3 DEF Others, MovesAt
    <3>. QED  BY <3>2, <3>3
  <2>. QED  BY <2>1, <2>2
<1>. HIDE DEF u
<1>. QED  BY <1>1, <1>2, <1>3, MoveKeepsPlaces DEF Placed, NothingLost

\* A goroutine that holds a unit and gives up on cancellation.
MayDrop ==
    /\ cancelled
    /\ \/ \E p \in PrepWorker : prep[p].pc \in {"acquire", "sendPrepared"}
       \/ \E c \in CompileWorker : comp[c].pc = "send"
       \/ writer.pc = "send"

\* A step moves at most one unit from one place to another; only a goroutine
\* that is cancelled drops one.
LEMMA PlacesStep ==
    ASSUME Placed, [Next]_vars
    PROVE  Exclusive' /\ NoRepeat' /\ (NothingLost \/ MayDrop)
<1>. DEFINE Good == Exclusive' /\ NoRepeat' /\ (NothingLost \/ MayDrop)
<1>a. /\ TypeOK /\ NoRepeat /\ Exclusive
      /\ loader.at \in Nat /\ writer.item \in Item
      /\ \A p \in PrepWorker : prep[p].item \in Item
      /\ \A c \in CompileWorker : comp[c].item \in Item
  BY DEF Placed, TypeOK, LoaderState, WriterState, PrepState, CompState
<1>. USE DEF disk, pipes, main
<1>1. ASSUME \A pl \in Place : Held'[pl] = Held[pl], queue' = queue PROVE Good
  BY <1>1, <1>a DEF NoRepeat, Exclusive, NothingLost
<1>2. ASSUME NEW pl \in Place \ Queues, Held'[pl] \subseteq Held[pl], Others(pl), queue' = queue,
             MayDrop \/ Held'[pl] = Held[pl]
      PROVE  Good
  <2>1. \A ch \in Channel : Held'[<<"queue", ch>>] = Held[<<"queue", ch>>]
    BY <1>2, PlacesFrame
  <2>2. \A q \in Place : q # pl => Held'[q] = Held[q]
    BY <1>2, <2>1 DEF Others, Queues
  <2>3. CASE Held'[pl] = Held[pl]
    BY <1>1, <1>2, <2>2, <2>3
  <2>4. CASE MayDrop
    BY <1>2, <1>a, <2>2, <2>4, DropKeepsPlaces DEF NoRepeat
  <2>. QED  BY <1>2, <2>3, <2>4
<1>3. ASSUME UNCHANGED <<prep, comp, writer, results, queue>>, loader'.at = loader.at PROVE Good
  <2>1. /\ \A pl \in {<<"loader", 0>>, <<"writer", 0>>, <<"results", 0>>} : Held'[pl] = Held[pl]
        /\ \A ch \in Channel : Held'[<<"queue", ch>>] = Held[<<"queue", ch>>]
        /\ \A p \in PrepWorker : Held'[<<"prep", p>>] = Held[<<"prep", p>>]
        /\ \A c \in CompileWorker : Held'[<<"comp", c>>] = Held[<<"comp", c>>]
    BY <1>3, PlacesFrame
  <2>. QED  BY <1>1, <1>3, <2>1, SameByKind
<1>4. /\ <<"loader", 0>> \in Place \ Queues /\ <<"writer", 0>> \in Place \ Queues
      /\ <<"results", 0>> \in Place \ Queues
      /\ \A p \in PrepWorker : <<"prep", p>> \in Place \ Queues
      /\ \A c \in CompileWorker : <<"comp", c>> \in Place \ Queues
  BY PlaceType DEF Queues
<1>5. CASE LoaderSend
  <2>1. PICK ch \in {"load", "fragment", "result"}, x \in Item :
            Send(ch, x) /\ x.unit = loader.at
    BY <1>5, <1>a, UnitsAssumption DEF LoaderSend, TypeOK, Item, Failure, Unit
  <2>2. loader'.at = loader.at + 1 /\ loader.at \in Unit
    BY <1>5, <1>a, <2>1 DEF LoaderSend, LoaderAdvance, Item
  <2>3. /\ loader.at \in Held[<<"loader", 0>>]
        /\ Held'[<<"loader", 0>>] = Held[<<"loader", 0>>] \ {loader.at}
    BY <1>a, <2>2, HeldAt, HeldAtNext DEF HeldTable, Unit
  <2>4. Others(<<"loader", 0>>)
    BY <1>5, OthersStay DEF LoaderSend
  <2>. QED  BY <1>4, <2>1, <2>3, <2>4, SendMoves DEF Channel
<1>6. ASSUME NEW p \in PrepWorker, PrepReceive(p) PROVE Good
  <2>1. /\ Receive("load") /\ prep[p].pc = "recv" /\ UNCHANGED <<loader, comp, writer, results>>
        /\ prep'[p] = [pc |-> "acquire", item |-> Head(queue["load"])]
        /\ \A q \in PrepWorker \ {p} : prep'[q] = prep[q]
    BY <1>6, <1>a DEF PrepReceive, TypeOK
  <2>2. /\ \A q \in PrepWorker \ {p} : Held'[<<"prep", q>>] = Held[<<"prep", q>>]
        /\ Held'[<<"prep", p>>] = Held[<<"prep", p>>] \cup {Head(queue["load"]).unit}
    <3>1. /\ \A q \in PrepWorker \ {p} : Held'[<<"prep", q>>] = Held[<<"prep", q>>]
          /\ Held'[<<"prep", p>>] =
                 IF prep'[p].pc \in {"recv", "done"} THEN {} ELSE {prep'[p].item.unit}
          /\ Held[<<"prep", p>>] =
                 IF prep[p].pc \in {"recv", "done"} THEN {} ELSE {prep[p].item.unit}
      BY <2>1, PrepPlace
    <3>. QED  BY <2>1, <3>1
  <2>3. Others(<<"prep", p>>)
    BY <2>1, <2>2, OthersStay
  <2>. QED  BY <1>4, <2>1, <2>2, <2>3, ReceiveMoves DEF Channel
<1>7. ASSUME NEW p \in PrepWorker, PrepSend(p) PROVE Good
  <2>1. PICK ch \in {"prepare", "result"}, x \in Item : Send(ch, x) /\ x.unit = prep[p].item.unit
    BY <1>7, <1>a DEF PrepSend, Item, Failure
  <2>2. /\ prep'[p] = [pc |-> "recv", item |-> Idle]
        /\ \A q \in PrepWorker \ {p} : prep'[q] = prep[q]
        /\ prep[p].pc \notin {"recv", "done"}
        /\ UNCHANGED <<loader, comp, writer, results>>
    BY <1>7, <1>a DEF PrepSend, TypeOK
  <2>3. /\ \A q \in PrepWorker \ {p} : Held'[<<"prep", q>>] = Held[<<"prep", q>>]
        /\ x.unit \in Held[<<"prep", p>>]
        /\ Held'[<<"prep", p>>] = Held[<<"prep", p>>] \ {x.unit}
    <3>1. /\ \A q \in PrepWorker \ {p} : Held'[<<"prep", q>>] = Held[<<"prep", q>>]
          /\ Held'[<<"prep", p>>] =
                 IF prep'[p].pc \in {"recv", "done"} THEN {} ELSE {prep'[p].item.unit}
          /\ Held[<<"prep", p>>] =
                 IF prep[p].pc \in {"recv", "done"} THEN {} ELSE {prep[p].item.unit}
      BY <2>1, <2>2, PrepPlace
    <3>. QED  BY <2>1, <2>2, <3>1
  <2>4. Others(<<"prep", p>>)
    BY <2>2, <2>3, OthersStay
  <2>. QED  BY <1>4, <2>1, <2>3, <2>4, SendMoves DEF Channel
<1>8. ASSUME NEW p \in PrepWorker, PrepAcquire(p) \/ PrepParse(p) \/ PrepExit(p) PROVE Good
  <2>1. /\ \A q \in PrepWorker \ {p} : prep'[q] = prep[q]
        /\ \/ /\ {prep[p].pc, prep'[p].pc} \cap {"recv", "done"} = {}
              /\ prep'[p].item = prep[p].item
           \/ prep[p].pc = "recv" /\ prep'[p].pc = "done"
           \/ prep[p].pc \in {"acquire", "sendPrepared"} /\ prep'[p].pc = "done" /\ cancelled
    BY <1>8, <1>a DEF PrepAcquire, PrepParse, PrepExit, TypeOK, PrepState
  <2>2. UNCHANGED <<loader, comp, writer, results, queue>>
    BY <1>8 DEF PrepAcquire, PrepParse, PrepExit
  <2>3. /\ \A q \in PrepWorker \ {p} : Held'[<<"prep", q>>] = Held[<<"prep", q>>]
        /\ Held'[<<"prep", p>>] \subseteq Held[<<"prep", p>>]
        /\ MayDrop \/ Held'[<<"prep", p>>] = Held[<<"prep", p>>]
    <3>1. /\ \A q \in PrepWorker \ {p} : Held'[<<"prep", q>>] = Held[<<"prep", q>>]
          /\ Held'[<<"prep", p>>] =
                 IF prep'[p].pc \in {"recv", "done"} THEN {} ELSE {prep'[p].item.unit}
          /\ Held[<<"prep", p>>] =
                 IF prep[p].pc \in {"recv", "done"} THEN {} ELSE {prep[p].item.unit}
      BY <2>1, PrepPlace
    <3>. QED  BY <2>1, <3>1 DEF MayDrop
  <2>4. Others(<<"prep", p>>)
    BY <2>2, <2>3, OthersStay
  <2>. QED  BY <1>2, <1>4, <2>2, <2>3, <2>4
<1>9. ASSUME NEW c \in CompileWorker, CompileReceive(c) PROVE Good
  <2>1. /\ Receive("prepare") /\ comp[c].pc = "recv" /\ UNCHANGED <<loader, prep, writer, results>>
        /\ comp'[c] = [pc |-> "compile", item |-> Head(queue["prepare"])]
        /\ \A d \in CompileWorker \ {c} : comp'[d] = comp[d]
    BY <1>9, <1>a DEF CompileReceive, TypeOK
  <2>2. /\ \A d \in CompileWorker \ {c} : Held'[<<"comp", d>>] = Held[<<"comp", d>>]
        /\ Held'[<<"comp", c>>] = Held[<<"comp", c>>] \cup {Head(queue["prepare"]).unit}
    <3>1. /\ \A d \in CompileWorker \ {c} : Held'[<<"comp", d>>] = Held[<<"comp", d>>]
          /\ Held'[<<"comp", c>>] =
                 IF comp'[c].pc \in {"recv", "done"} THEN {} ELSE {comp'[c].item.unit}
          /\ Held[<<"comp", c>>] =
                 IF comp[c].pc \in {"recv", "done"} THEN {} ELSE {comp[c].item.unit}
      BY <2>1, CompPlace
    <3>. QED  BY <2>1, <3>1
  <2>3. Others(<<"comp", c>>)
    BY <2>1, <2>2, OthersStay
  <2>. QED  BY <1>4, <2>1, <2>2, <2>3, ReceiveMoves DEF Channel
<1>10. ASSUME NEW c \in CompileWorker, CompileSend(c) PROVE Good
  <2>1. /\ Send("fragment", comp[c].item) /\ comp[c].pc = "send"
        /\ comp'[c] = [pc |-> "recv", item |-> Idle]
        /\ \A d \in CompileWorker \ {c} : comp'[d] = comp[d]
        /\ UNCHANGED <<loader, prep, writer, results>>
    BY <1>10, <1>a DEF CompileSend, TypeOK
  <2>2. /\ \A d \in CompileWorker \ {c} : Held'[<<"comp", d>>] = Held[<<"comp", d>>]
        /\ comp[c].item.unit \in Held[<<"comp", c>>]
        /\ Held'[<<"comp", c>>] = Held[<<"comp", c>>] \ {comp[c].item.unit}
    <3>1. /\ \A d \in CompileWorker \ {c} : Held'[<<"comp", d>>] = Held[<<"comp", d>>]
          /\ Held'[<<"comp", c>>] =
                 IF comp'[c].pc \in {"recv", "done"} THEN {} ELSE {comp'[c].item.unit}
          /\ Held[<<"comp", c>>] =
                 IF comp[c].pc \in {"recv", "done"} THEN {} ELSE {comp[c].item.unit}
      BY <2>1, CompPlace
    <3>. QED  BY <2>1, <3>1
  <2>3. Others(<<"comp", c>>)
    BY <2>1, <2>2, OthersStay
  <2>. QED  BY <1>4, <1>a, <2>1, <2>2, <2>3, SendMoves DEF Channel
<1>11. ASSUME NEW c \in CompileWorker, CompileUnit(c) \/ CompileExit(c) PROVE Good
  <2>1. /\ \A d \in CompileWorker \ {c} : comp'[d] = comp[d]
        /\ \/ /\ comp[c].pc = "compile" /\ comp'[c].pc = "send"
              /\ comp'[c].item.unit = comp[c].item.unit
           \/ comp[c].pc = "recv" /\ comp'[c].pc = "done"
           \/ comp[c].pc = "send" /\ comp'[c].pc = "done" /\ cancelled
    BY <1>11, <1>a DEF CompileUnit, CompileExit, TypeOK
  <2>2. UNCHANGED <<loader, prep, writer, results, queue>>
    BY <1>11 DEF CompileUnit, CompileExit
  <2>3. /\ \A d \in CompileWorker \ {c} : Held'[<<"comp", d>>] = Held[<<"comp", d>>]
        /\ Held'[<<"comp", c>>] \subseteq Held[<<"comp", c>>]
        /\ MayDrop \/ Held'[<<"comp", c>>] = Held[<<"comp", c>>]
    <3>1. /\ \A d \in CompileWorker \ {c} : Held'[<<"comp", d>>] = Held[<<"comp", d>>]
          /\ Held'[<<"comp", c>>] =
                 IF comp'[c].pc \in {"recv", "done"} THEN {} ELSE {comp'[c].item.unit}
          /\ Held[<<"comp", c>>] =
                 IF comp[c].pc \in {"recv", "done"} THEN {} ELSE {comp[c].item.unit}
      BY <2>1, CompPlace
    <3>. QED  BY <2>1, <3>1 DEF MayDrop
  <2>4. Others(<<"comp", c>>)
    BY <2>2, <2>3, OthersStay
  <2>. QED  BY <1>2, <1>4, <2>2, <2>3, <2>4
<1>12. CASE WriterReceive
  <2>1. /\ Receive("fragment") /\ writer.pc = "recv" /\ UNCHANGED <<loader, prep, comp, results>>
        /\ writer' = [pc |-> "send", item |-> Head(queue["fragment"])]
    BY <1>12 DEF WriterReceive
  <2>2. Held'[<<"writer", 0>>] = Held[<<"writer", 0>>] \cup {Head(queue["fragment"]).unit}
    BY <2>1, HeldAt, HeldAtNext DEF HeldTable
  <2>3. Others(<<"writer", 0>>)
    BY <2>1, OthersStay
  <2>. QED  BY <1>4, <2>1, <2>2, <2>3, ReceiveMoves DEF Channel
<1>13. CASE WriterSend
  <2>1. /\ Send("result", writer.item) /\ writer.pc = "send" /\ UNCHANGED <<loader, prep, comp, results>>
        /\ writer' = [pc |-> "recv", item |-> Idle]
    BY <1>13 DEF WriterSend
  <2>2. /\ writer.item.unit \in Held[<<"writer", 0>>]
        /\ Held'[<<"writer", 0>>] = Held[<<"writer", 0>>] \ {writer.item.unit}
    BY <2>1, HeldAt, HeldAtNext DEF HeldTable
  <2>3. Others(<<"writer", 0>>)
    BY <2>1, OthersStay
  <2>. QED  BY <1>4, <1>a, <2>1, <2>2, <2>3, SendMoves DEF Channel
<1>14. CASE WriterExit
  <2>1. writer' = [pc |-> "done", item |-> Idle] /\ UNCHANGED <<loader, prep, comp, results, queue>>
    BY <1>14 DEF WriterExit, Close
  <2>2. /\ Held'[<<"writer", 0>>] \subseteq Held[<<"writer", 0>>]
        /\ MayDrop \/ Held'[<<"writer", 0>>] = Held[<<"writer", 0>>]
    BY <1>14, <2>1, HeldAt, HeldAtNext DEF HeldTable, WriterExit, MayDrop
  <2>3. Others(<<"writer", 0>>)
    BY <2>1, OthersStay
  <2>. QED  BY <1>2, <1>4, <2>1, <2>2, <2>3
<1>15. CASE Collect
  <2>1. /\ Receive("result") /\ UNCHANGED <<loader, prep, comp, writer>>
        /\ results' = [results EXCEPT ![Head(queue["result"]).unit] = Head(queue["result"]).err]
    BY <1>15 DEF Collect
  <2>2. Head(queue["result"]) \in Item
    BY <2>1, <1>a, ReceiveContent DEF Channel
  <2>3. Held'[<<"results", 0>>] = Held[<<"results", 0>>] \cup {Head(queue["result"]).unit}
    BY <1>a, <2>1, <2>2, HeldAt, HeldAtNext DEF HeldTable, TypeOK, Item, Failure
  <2>4. Others(<<"results", 0>>)
    BY <2>1, OthersStay
  <2>. QED  BY <1>4, <2>1, <2>3, <2>4, ReceiveMoves DEF Channel
<1>16. CASE LoaderNext \/ LoaderCancelled \/ LoaderClose
  <2>1. loader'.at = loader.at
    BY <1>16, <1>a DEF LoaderNext, LoaderCancelled, LoaderClose, TypeOK, LoaderState
  <2>. QED  BY <1>3, <1>16, <2>1 DEF LoaderNext, LoaderCancelled, LoaderClose, Close
<1>17. CASE PrepareCloser \/ FragmentCloser \/ CheckEntry \/ MergeFailed \/ MergeUnit \/ Link \/ Crash
  BY <1>3, <1>17 DEF PrepareCloser, FragmentCloser, CheckEntry, MergeFailed, MergeUnit, Link, Crash,
     SendOnClosed, MergeRaces, Close
<1>18. CASE UNCHANGED vars
  BY <1>3, <1>18 DEF vars
<1>. QED
  BY <1>5, <1>6, <1>7, <1>8, <1>9, <1>10, <1>11, <1>12, <1>13, <1>14, <1>15, <1>16, <1>17, <1>18
     DEF Next, Loader, Prep, Compile, Writer, Caller, Terminated

\* The report of a unit is final.
LEMMA ReportsStay ==
    ASSUME Placed, [Next]_vars, NEW u \in Unit, results[u] # "none"
    PROVE  results'[u] = results[u]
<1>1. CASE Collect
  <2>. DEFINE x == Head(queue["result"])
  <2>1. x.unit \in Held[<<"queue", "result">>]
    BY <1>1, ReceivePlaces DEF Collect, Channel
  <2>2. u \in Held[<<"results", 0>>]
    BY HeldAt DEF HeldTable
  <2>3. x.unit # u
    BY <2>1, <2>2, PlaceType DEF Placed, Exclusive, Channel
  <2>. QED  BY <1>1, <2>3 DEF Collect, Placed, TypeOK
<1>2. CASE ~Collect
  BY <1>2 DEF Next, Loader, Prep, Compile, Writer, Caller, Terminated, vars, main,
     LoaderNext, LoaderSend, LoaderCancelled, LoaderClose, PrepReceive, PrepAcquire,
     PrepParse, PrepSend, PrepExit, PrepareCloser, CompileReceive, CompileUnit,
     CompileSend, CompileExit, FragmentCloser, WriterReceive, WriterSend, WriterExit,
     CheckEntry, MergeFailed, MergeUnit, Link, Crash, SendOnClosed, MergeRaces
<1>. QED  BY <1>1, <1>2

\* A recorded failure stays recorded.
LEMMA FailureStays ==
    ASSUME Placed, [Next]_vars, SomeFailed
    PROVE  SomeFailed'
<1>1. PICK u \in Unit : results[u] \in Failure
  BY DEF SomeFailed, Failed
<1>2. results'[u] = results[u]
  BY <1>1, ReportsStay DEF Failure
<1>. QED  BY <1>1, <1>2 DEF SomeFailed, Failed


-----------------------------------------------------------------------------
(* Who may stop, and what the caller knows *)

\* While no failure is recorded, a goroutine stops only at the end of its input.
Quiet == SomeFailed \/
    /\ loader.pc \in {"close", "done"} => loader.at > UnitCount
    /\ \A p \in PrepWorker : prep[p].pc = "done" => "load" \in closed /\ queue["load"] = <<>>
    /\ \A c \in CompileWorker :
          comp[c].pc = "done" => "prepare" \in closed /\ queue["prepare"] = <<>>
    /\ writer.pc = "done" => "fragment" \in closed /\ queue["fragment"] = <<>>

\* What the caller has established by the time it merges, returns or panics.
CallerInv ==
    /\ caller.pc # "collect" => "result" \in closed
    /\ caller.pc \notin {"collect", "sentOnClosed"} => queue["result"] = <<>>
    /\ caller.pc = "collect" => caller.at = 1 /\ \A u \in Unit : root[u] = "summary"
    /\ caller.pc \in {"merge", "linked", "linkError"} => \A u \in Unit : u < caller.at => ~Failed(u)
    /\ caller.pc \in {"linked", "linkError"} => caller.at > UnitCount
    /\ caller.pc = "unitError" => SomeFailed
    /\ caller.pc = "racedOnIndex" => SomeFailed
    /\ cancelled => caller.pc \in Returns \cup {"sentOnClosed"} \/ SomeFailed

\* Without a failure, a closed result channel means that all input is used up.
Finished ==
    /\ loader.pc = "done" /\ loader.at > UnitCount /\ writer.pc = "done"
    /\ \A p \in PrepWorker : prep[p].pc = "done"
    /\ \A c \in CompileWorker : comp[c].pc = "done"
    /\ queue["load"] = <<>> /\ queue["prepare"] = <<>> /\ queue["fragment"] = <<>>

\* Without a failure the result channel is closed only after all input.
LEMMA ClosedIsFinished ==
    ASSUME CloseOrder, Quiet, ~SomeFailed, "result" \in closed
    PROVE  Finished
<1>1. writer.pc = "done" /\ "fragment" \in closed /\ queue["fragment"] = <<>>
  BY DEF CloseOrder, Quiet
<1>2. loader.pc = "done" /\ \A c \in CompileWorker : comp[c].pc = "done"
  BY <1>1 DEF CloseOrder
<1>3. "prepare" \in closed /\ queue["prepare"] = <<>>
  BY <1>2, WorkersAssumption DEF Quiet
<1>4. \A p \in PrepWorker : prep[p].pc = "done"
  BY <1>3 DEF CloseOrder
<1>5. queue["load"] = <<>>
  BY <1>4, WorkersAssumption DEF Quiet
<1>. QED  BY <1>1, <1>2, <1>3, <1>4, <1>5 DEF Finished, Quiet

\* The caller cancels only on a failure or when it leaves, and it leaves only
\* after the result channel was closed.
LEMMA CancelledIsFinished ==
    ASSUME CloseOrder, Quiet, CallerInv, ~SomeFailed, cancelled
    PROVE  Finished
<1>1. "result" \in closed
  BY DEF CallerInv, Returns
<1>. QED  BY <1>1, ClosedIsFinished

\* No step drops a unit before a failure is recorded.
LEMMA ConservedStep ==
    ASSUME Placed, CloseOrder, Quiet, CallerInv, Conserved, [Next]_vars
    PROVE  Conserved'
<1>1. CASE SomeFailed
  BY <1>1, FailureStays DEF Conserved
<1>2. CASE ~SomeFailed
  <2>1. ~MayDrop
    BY <1>2, CancelledIsFinished DEF MayDrop, Finished
  <2>2. NothingLost
    BY <2>1, PlacesStep
  <2>. QED  BY <1>2, <2>2 DEF Conserved, NothingLost
<1>. QED  BY <1>1, <1>2

\* Nothing is sent on a closed channel, so an empty closed channel stays empty.
LEMMA SpentStays ==
    ASSUME TypeOK, [Next]_vars, NEW ch \in Channel, ch \in closed
    PROVE  /\ ch \in closed'
           /\ queue[ch] = <<>> => queue'[ch] = <<>>
<1>1. ASSUME NEW d \in Channel, NEW x, Send(d, x)
      PROVE  ch \in closed' /\ (queue[ch] = <<>> => queue'[ch] = <<>>)
  BY <1>1 DEF Send, TypeOK
<1>2. ASSUME NEW d \in Channel, Receive(d)
      PROVE  ch \in closed' /\ (queue[ch] = <<>> => queue'[ch] = <<>>)
  BY <1>2 DEF Receive, TypeOK
<1>3. CASE queue' = queue /\ closed \subseteq closed'
  BY <1>3
<1>. USE DEF disk, pipes, main, Channel
<1>4. CASE Loader
  BY <1>1, <1>3, <1>4 DEF Loader, LoaderNext, LoaderSend, LoaderCancelled, LoaderClose, Close
<1>5. ASSUME NEW p \in PrepWorker, Prep(p)
      PROVE  ch \in closed' /\ (queue[ch] = <<>> => queue'[ch] = <<>>)
  BY <1>1, <1>2, <1>3, <1>5 DEF Prep, PrepReceive, PrepAcquire, PrepParse, PrepSend, PrepExit
<1>6. ASSUME NEW c \in CompileWorker, Compile(c)
      PROVE  ch \in closed' /\ (queue[ch] = <<>> => queue'[ch] = <<>>)
  BY <1>1, <1>2, <1>3, <1>6 DEF Compile, CompileReceive, CompileUnit, CompileSend, CompileExit
<1>7. CASE Writer
  BY <1>1, <1>2, <1>3, <1>7 DEF Writer, WriterReceive, WriterSend, WriterExit, Close
<1>8. CASE Caller
  BY <1>2, <1>3, <1>8 DEF Caller, Collect, CheckEntry, MergeFailed, MergeUnit, Link
<1>9. CASE PrepareCloser \/ FragmentCloser \/ Crash \/ UNCHANGED vars
  BY <1>3, <1>9 DEF PrepareCloser, FragmentCloser, Crash, SendOnClosed, MergeRaces, Close, vars
<1>. QED  BY <1>4, <1>5, <1>6, <1>7, <1>8, <1>9 DEF Next, Terminated

\* The state of a goroutine changes only by a step of its own.
LEMMA StepOf ==
    ASSUME [Next]_vars
    PROVE  /\ loader' = loader \/ Loader
           /\ prep' = prep \/ \E p \in PrepWorker : Prep(p)
           /\ comp' = comp \/ \E c \in CompileWorker : Compile(c)
           /\ writer' = writer \/ Writer
           /\ UNCHANGED main \/ Caller \/ Crash
<1>. USE DEF disk, pipes, main
<1>1. CASE Loader
  BY <1>1 DEF Loader, LoaderNext, LoaderSend, LoaderCancelled, LoaderClose
<1>2. ASSUME NEW p \in PrepWorker, Prep(p) PROVE UNCHANGED <<loader, comp, writer, main>>
  BY <1>2 DEF Prep, PrepReceive, PrepAcquire, PrepParse, PrepSend, PrepExit
<1>3. ASSUME NEW c \in CompileWorker, Compile(c) PROVE UNCHANGED <<loader, prep, writer, main>>
  BY <1>3 DEF Compile, CompileReceive, CompileUnit, CompileSend, CompileExit
<1>4. CASE Writer
  BY <1>4 DEF Writer, WriterReceive, WriterSend, WriterExit
<1>5. CASE Caller
  BY <1>5 DEF Caller, Collect, CheckEntry, MergeFailed, MergeUnit, Link
<1>6. CASE PrepareCloser \/ FragmentCloser \/ Crash \/ UNCHANGED vars
  BY <1>6 DEF PrepareCloser, FragmentCloser, Crash, SendOnClosed, MergeRaces, vars
<1>. QED  BY <1>1, <1>2, <1>3, <1>4, <1>5, <1>6 DEF Next, Terminated

\* No goroutine stops early before a failure is recorded.
LEMMA QuietStep ==
    ASSUME Placed, CloseOrder, Quiet, CallerInv, [Next]_vars
    PROVE  Quiet'
<1>. SUFFICES ASSUME ~SomeFailed' PROVE Quiet'
  BY DEF Quiet
<1>a. ~SomeFailed /\ TypeOK
  BY FailureStays DEF Placed
<1>b. cancelled => Finished
  BY <1>a, CancelledIsFinished
<1>. USE DEF disk, pipes, main
<1>1. loader'.pc \in {"close", "done"} => loader'.at > UnitCount
  <2>1. CASE loader' = loader
    BY <1>a, <2>1 DEF Quiet
  <2>2. CASE LoaderNext
    BY <1>a, <1>b, <2>2 DEF LoaderNext, Finished, TypeOK, LoaderState
  <2>3. CASE LoaderSend
    BY <2>3 DEF LoaderSend, LoaderAdvance
  <2>4. CASE LoaderCancelled
    BY <1>b, <2>4 DEF LoaderCancelled, Finished
  <2>5. CASE LoaderClose
    BY <1>a, <2>5 DEF LoaderClose, TypeOK, LoaderState, Quiet
  <2>. QED  BY <2>1, <2>2, <2>3, <2>4, <2>5, StepOf DEF Loader
<1>2. ASSUME NEW p \in PrepWorker, prep'[p].pc = "done"
      PROVE  "load" \in closed' /\ queue'["load"] = <<>>
  <2>1. CASE prep[p].pc = "done"
    BY <1>a, <2>1, SpentStays DEF Quiet, Channel
  <2>2. CASE prep[p].pc # "done"
    <3>1. PICK q \in PrepWorker : Prep(q)
      BY <1>2, <2>2, StepOf
    <3>2. ~(PrepReceive(q) \/ PrepSend(q))
      <4>1. ASSUME NEW r, r.pc # "done", prep' = [prep EXCEPT ![q] = r] PROVE FALSE
        BY <1>a, <1>2, <2>2, <4>1 DEF TypeOK
      <4>. QED  BY <4>1 DEF PrepReceive, PrepSend
    <3>3. ~(PrepAcquire(q) \/ PrepParse(q))
      <4>1. ASSUME NEW pc, pc # "done", prep' = [prep EXCEPT ![q].pc = pc] PROVE FALSE
        BY <1>a, <1>2, <2>2, <4>1 DEF TypeOK, PrepState
      <4>. QED  BY <4>1 DEF PrepAcquire, PrepParse
    <3>4. PrepExit(q) /\ q = p
      BY <1>a, <1>2, <2>2, <3>1, <3>2, <3>3 DEF Prep, PrepExit, TypeOK
    <3>5. Drained("load")
      BY <1>b, <2>2, <3>4 DEF PrepExit, Finished
    <3>. QED  BY <1>a, <3>5, SpentStays DEF Drained, Channel
  <2>. QED  BY <2>1, <2>2
<1>3. ASSUME NEW c \in CompileWorker, comp'[c].pc = "done"
      PROVE  "prepare" \in closed' /\ queue'["prepare"] = <<>>
  <2>1. CASE comp[c].pc = "done"
    BY <1>a, <2>1, SpentStays DEF Quiet, Channel
  <2>2. CASE comp[c].pc # "done"
    <3>1. PICK d \in CompileWorker : Compile(d)
      BY <1>3, <2>2, StepOf
    <3>2. CompileExit(c)
      BY <1>a, <1>3, <2>2, <3>1 DEF Compile, CompileReceive, CompileUnit, CompileSend, CompileExit,
         TypeOK, CompState
    <3>3. Drained("prepare")
      BY <1>b, <2>2, <3>2 DEF CompileExit, Finished
    <3>. QED  BY <1>a, <3>3, SpentStays DEF Drained, Channel
  <2>. QED  BY <2>1, <2>2
<1>4. ASSUME writer'.pc = "done"
      PROVE  "fragment" \in closed' /\ queue'["fragment"] = <<>>
  <2>1. CASE writer.pc = "done"
    BY <1>a, <2>1, SpentStays DEF Quiet, Channel
  <2>2. CASE writer.pc # "done"
    <3>1. WriterExit
      BY <1>4, <2>2, StepOf DEF Writer, WriterReceive, WriterSend
    <3>2. Drained("fragment")
      BY <1>b, <2>2, <3>1 DEF WriterExit, Finished
    <3>. QED  BY <1>a, <3>2, SpentStays DEF Drained, Channel
  <2>. QED  BY <2>1, <2>2
<1>. QED  BY <1>1, <1>2, <1>3, <1>4 DEF Quiet

\* The caller leaves its loop, cancels and returns only with cause.
LEMMA CallerStep ==
    ASSUME Placed, CloseOrder, Quiet, CallerInv, [Next]_vars
    PROVE  CallerInv'
<1>. USE DEF disk, pipes, main
<1>a. TypeOK /\ (SomeFailed => SomeFailed')
  BY FailureStays DEF Placed
<1>b. /\ "result" \in closed => "result" \in closed'
      /\ "result" \in closed /\ queue["result"] = <<>> => queue'["result"] = <<>>
  BY <1>a, SpentStays DEF Channel
<1>1. CASE UNCHANGED <<caller, results, root, cancelled>>
  BY <1>1, <1>a, <1>b DEF CallerInv, Failed
<1>2. CASE Collect
  <2>. DEFINE x == Head(queue["result"])
  <2>1. /\ caller.pc = "collect" /\ UNCHANGED <<caller, root>>
        /\ results' = [results EXCEPT ![x.unit] = x.err]
        /\ cancelled' = (cancelled \/ x.err # "nil") /\ x \in Item
    BY <1>2, <1>a, ReceiveContent DEF Collect, CancelOnError, Channel
  <2>2. cancelled' => SomeFailed'
    <3>1. CASE cancelled
      BY <1>a, <2>1, <3>1 DEF CallerInv, Returns
    <3>2. CASE x.err # "nil"
      <4>. HIDE DEF x
      <4>1. x.unit \in Unit /\ x.err \in Failure /\ results'[x.unit] = x.err
        BY <1>a, <2>1, <3>2 DEF Item, TypeOK
      <4>. QED  BY <4>1 DEF SomeFailed, Failed
    <3>. QED  BY <2>1, <3>1, <3>2
  <2>. QED  BY <2>1, <2>2 DEF CallerInv, Returns
<1>3. CASE CheckEntry
  <2>1. /\ UNCHANGED <<root, results, pipes>> /\ caller.pc = "collect"
        /\ "result" \in closed /\ queue["result"] = <<>>
        /\ caller'.pc \in {"merge", "entryDuplicate", "entryNotFound"} /\ caller'.at = caller.at
        /\ cancelled' => cancelled \/ caller'.pc # "merge"
    BY <1>3, <1>a DEF CheckEntry, Drained, TypeOK, CallerState
  <2>2. caller'.at = 1
    BY <2>1 DEF CallerInv
  <2>3. \A u \in Unit : ~(u < 1)
    BY UnitsAssumption DEF Unit
  <2>4. cancelled => SomeFailed
    BY <2>1 DEF CallerInv, Returns
  <2>. QED  BY <2>1, <2>2, <2>3, <2>4, <1>a DEF CallerInv, Returns
<1>4. CASE MergeFailed \/ MergeUnit
  <2>1. /\ caller.pc = "merge" /\ caller.at \in Unit /\ UNCHANGED <<results, pipes>>
        /\ \A u \in Unit : u < caller.at => ~Failed(u)
        /\ "result" \in closed /\ queue["result"] = <<>>
        /\ cancelled => SomeFailed
    BY <1>4 DEF MergeFailed, MergeUnit, Merging, CallerInv, Returns
  <2>2. CASE MergeFailed
    <3>1. caller'.pc = "unitError" /\ caller'.at = caller.at
      BY <2>2, <1>a DEF MergeFailed, TypeOK, CallerState
    <3>2. SomeFailed
      BY <2>1, <2>2 DEF MergeFailed, SomeFailed
    <3>. QED  BY <1>a, <2>1, <3>1, <3>2 DEF CallerInv, Returns
  <2>3. CASE caller' = [caller EXCEPT !.at = @ + 1] /\ ~Failed(caller.at) /\ UNCHANGED cancelled
    <3>1. caller'.pc = "merge" /\ caller'.at = caller.at + 1 /\ cancelled' = cancelled
      BY <2>1, <2>3, <1>a DEF TypeOK, CallerState
    <3>2. \A u \in Unit : u < caller.at + 1 => ~Failed(u)
      BY <2>1, <2>3 DEF Unit
    <3>. QED  BY <1>a, <2>1, <3>1, <3>2 DEF CallerInv, Returns, Failed
  <2>4. CASE caller' = [caller EXCEPT !.pc = "clash"]
    <3>1. caller'.pc = "clash"
      BY <2>4, <1>a DEF TypeOK, CallerState
    <3>. QED  BY <1>a, <2>1, <3>1 DEF CallerInv, Returns
  <2>. QED  BY <1>4, <2>2, <2>3, <2>4 DEF MergeUnit
<1>5. CASE Link
  <2>1. /\ caller.pc = "merge" /\ caller.at > UnitCount /\ UNCHANGED <<results, pipes>>
        /\ caller'.pc \in {"linked", "linkError"} /\ caller'.at = caller.at
    BY <1>5, <1>a DEF Link, TypeOK, CallerState
  <2>. QED  BY <2>1 DEF CallerInv, Returns, Failed
<1>6. CASE SendOnClosed
  <2>1. "result" \in closed' /\ caller'.pc = "sentOnClosed" /\ UNCHANGED <<results, cancelled>>
    BY <1>6, <1>a DEF SendOnClosed, TypeOK, CallerState
  <2>. QED  BY <2>1 DEF CallerInv, Returns
<1>12. CASE MergeRaces
  <2>1. /\ caller.pc = "merge" /\ caller'.pc = "racedOnIndex" /\ UNCHANGED <<results, pipes, cancelled>>
    BY <1>12, <1>a DEF MergeRaces, Merging, TypeOK, CallerState
  <2>2. "result" \in closed /\ queue["result"] = <<>>
    BY <2>1 DEF CallerInv
  <2>3. SomeFailed
    <3>1. ~Finished
      BY <1>12 DEF MergeRaces, Finished
    <3>. QED  BY <1>a, <2>2, <3>1, ClosedIsFinished
  <2>. QED  BY <1>a, <2>1, <2>2, <2>3 DEF CallerInv, Returns
<1>7. CASE Loader
  BY <1>1, <1>7 DEF Loader, LoaderNext, LoaderSend, LoaderCancelled, LoaderClose
<1>8. ASSUME NEW p \in PrepWorker, Prep(p) PROVE UNCHANGED <<caller, results, root, cancelled>>
  BY <1>8 DEF Prep, PrepReceive, PrepAcquire, PrepParse, PrepSend, PrepExit
<1>9. ASSUME NEW c \in CompileWorker, Compile(c) PROVE UNCHANGED <<caller, results, root, cancelled>>
  BY <1>9 DEF Compile, CompileReceive, CompileUnit, CompileSend, CompileExit
<1>10. CASE Writer
  BY <1>1, <1>10 DEF Writer, WriterReceive, WriterSend, WriterExit
<1>11. CASE PrepareCloser \/ FragmentCloser \/ UNCHANGED vars
  BY <1>1, <1>11 DEF PrepareCloser, FragmentCloser, vars
<1>. QED
  BY <1>1, <1>2, <1>3, <1>4, <1>5, <1>6, <1>7, <1>8, <1>9, <1>10, <1>11, <1>12
     DEF Next, Caller, Crash, Terminated

-----------------------------------------------------------------------------
(* What a report is worth *)

\* A unit whose fragments are reported is good, was covered by a complete
\* cache record, or has company that failed.
Good(u) == outcome[u] = "nil" \/ <<u, "summary">> \in cache \/ SomeFailed
\* An item or a result says what happened to the file of its unit.
Worth(u, e) == IF e = "nil" THEN Good(u) ELSE outcome[u] = e
Report(x)   == Worth(x.unit, x.err)
Opened(u)   == outcome[u] # "read"
Parsed(u)   == outcome[u] \notin {"read", "parse"}

PrepOrigin(p) ==
    /\ prep[p].pc \in {"acquire", "parse"} => Opened(prep[p].item.unit)
    /\ prep[p].pc = "sendErr" => outcome[prep[p].item.unit] = "parse"
    /\ prep[p].pc = "sendPrepared" => Parsed(prep[p].item.unit)
CompOrigin(c) ==
    /\ comp[c].pc = "compile" => Parsed(comp[c].item.unit)
    /\ comp[c].pc = "send" => Report(comp[c].item)

LoaderOrigin ==
    /\ loader.pc = "sendLoad" => Opened(loader.at)
    /\ loader.pc = "sendErr" => outcome[loader.at] = "read"
    /\ loader.pc = "sendCached" => Good(loader.at)
QueueOrigin ==
    /\ \A x \in Content("load") : Opened(x.unit)
    /\ \A x \in Content("prepare") : Parsed(x.unit)
    /\ \A x \in Content("fragment") \cup Content("result") : Report(x)

\* What travels is what the file of its unit deserves.
Origin ==
    /\ LoaderOrigin /\ QueueOrigin
    /\ \A p \in PrepWorker : PrepOrigin(p)
    /\ \A c \in CompileWorker : CompOrigin(c)
    /\ writer.pc = "send" => Report(writer.item)
    /\ \A u \in Unit : results[u] # "none" => Worth(u, results[u])

\* The files do not change, the cache only grows and a failure is not unsaid.
LEMMA WorthStays ==
    ASSUME Placed, [Next]_vars
    PROVE  /\ outcome' = outcome
           /\ \A u \in Unit : Good(u) => Good(u)'
           /\ \A u, e : Worth(u, e) => Worth(u, e)'
<1>1. outcome' = outcome /\ cache \subseteq cache'
  BY DEF Next, Loader, Prep, Compile, Writer, Caller, Terminated, vars, disk,
     LoaderNext, LoaderSend, LoaderCancelled, LoaderClose, PrepReceive, PrepAcquire,
     PrepParse, PrepSend, PrepExit, PrepareCloser, CompileReceive, CompileUnit,
     CompileSend, CompileExit, FragmentCloser, WriterReceive, WriterSend, WriterExit,
     Collect, CheckEntry, MergeFailed, MergeUnit, Link, Crash, SendOnClosed, MergeRaces
<1>2. SomeFailed => SomeFailed'
  BY FailureStays
<1>. QED  BY <1>1, <1>2 DEF Good, Worth

\* Who is about to send what on which channel.
Sends(ch, x) ==
    \/ ch = "fragment" /\ loader.pc = "sendCached" /\ x = [unit |-> loader.at, err |-> "nil"]
    \/ ch = "load" /\ loader.pc = "sendLoad" /\ x = [unit |-> loader.at, err |-> "nil"]
    \/ ch = "result" /\ loader.pc = "sendErr" /\ x = [unit |-> loader.at, err |-> "read"]
    \/ ch = "result" /\ \E p \in PrepWorker :
          prep[p].pc = "sendErr" /\ x = [unit |-> prep[p].item.unit, err |-> "parse"]
    \/ ch = "prepare" /\ \E p \in PrepWorker : prep[p].pc = "sendPrepared" /\ x = prep[p].item
    \/ ch = "fragment" /\ \E c \in CompileWorker : comp[c].pc = "send" /\ x = comp[c].item
    \/ ch = "result" /\ writer.pc = "send" /\ x = writer.item

\* What a channel holds after a step it held before, or somebody sent it.
LEMMA ContentStep ==
    ASSUME TypeOK, [Next]_vars, NEW ch \in Channel, NEW x \in Content(ch)'
    PROVE  x \in Content(ch) \/ Sends(ch, x)
<1>. DEFINE Goal == x \in Content(ch) \/ Sends(ch, x)
<1>. USE DEF disk, pipes, main
<1>a. /\ loader.pc \in {"sendCached", "sendLoad", "sendErr"} => loader.at \in Unit
      /\ writer.item \in Item
      /\ \A p \in PrepWorker : prep[p].item \in Item
      /\ \A c \in CompileWorker : comp[c].item \in Item
  BY DEF TypeOK, WriterState, PrepState, CompState
<1>1. CASE queue' = queue
  BY <1>1 DEF Content
<1>2. ASSUME NEW d \in Channel, Receive(d) PROVE Goal
  <2>1. CASE d = ch
    BY <1>2, <2>1, ReceiveContent
  <2>2. CASE d # ch
    BY <1>2, <2>2, ReceiveContent DEF Content
  <2>. QED  BY <2>1, <2>2
<1>3. ASSUME NEW d \in Channel, NEW y \in Item, Send(d, y), Sends(d, y) PROVE Goal
  <2>1. CASE d = ch
    <3>1. Content(ch)' = Content(ch) \cup {y}
      BY <1>3, <2>1, SendContent
    <3>. QED  BY <1>3, <2>1, <3>1
  <2>2. CASE d # ch
    <3>1. queue'[ch] = queue[ch]
      BY <1>3, <2>2, SendContent
    <3>. QED  BY <3>1 DEF Content
  <2>. QED  BY <2>1, <2>2
<1>4. CASE LoaderSend
  <2>1. PICK d \in Channel, e \in {"nil", "read"} :
            /\ Send(d, [unit |-> loader.at, err |-> e]) /\ Sends(d, [unit |-> loader.at, err |-> e])
            /\ loader.at \in Unit
    <3>1. CASE loader.pc = "sendCached" /\ Send("fragment", [unit |-> loader.at, err |-> "nil"])
      BY <1>a, <3>1 DEF Sends, Channel
    <3>2. CASE loader.pc = "sendLoad" /\ Send("load", [unit |-> loader.at, err |-> "nil"])
      BY <1>a, <3>2 DEF Sends, Channel
    <3>3. CASE loader.pc = "sendErr" /\ Send("result", [unit |-> loader.at, err |-> "read"])
      BY <1>a, <3>3 DEF Sends, Channel
    <3>. QED  BY <1>4, <3>1, <3>2, <3>3 DEF LoaderSend
  <2>2. [unit |-> loader.at, err |-> e] \in Item
    BY <2>1 DEF Item, Failure
  <2>. QED  BY <1>3, <2>1, <2>2
<1>5. ASSUME NEW p \in PrepWorker, PrepSend(p) PROVE Goal
  <2>1. CASE prep[p].pc = "sendErr" /\ Send("result", [unit |-> prep[p].item.unit, err |-> "parse"])
    <3>1. [unit |-> prep[p].item.unit, err |-> "parse"] \in Item
      BY <1>a DEF Item, Failure
    <3>2. Sends("result", [unit |-> prep[p].item.unit, err |-> "parse"])
      BY <2>1 DEF Sends
    <3>. QED  BY <1>3, <2>1, <3>1, <3>2 DEF Channel
  <2>2. CASE prep[p].pc = "sendPrepared" /\ Send("prepare", prep[p].item)
    <3>1. Sends("prepare", prep[p].item)
      BY <2>2 DEF Sends
    <3>. QED  BY <1>3, <1>a, <2>2, <3>1 DEF Channel
  <2>. QED  BY <1>5, <2>1, <2>2 DEF PrepSend
<1>6. ASSUME NEW c \in CompileWorker, CompileSend(c) PROVE Goal
  <2>1. Sends("fragment", comp[c].item) /\ Send("fragment", comp[c].item)
    BY <1>6 DEF CompileSend, Sends
  <2>. QED  BY <1>3, <1>a, <2>1 DEF Channel
<1>7. CASE WriterSend
  <2>1. Sends("result", writer.item) /\ Send("result", writer.item)
    BY <1>7 DEF WriterSend, Sends
  <2>. QED  BY <1>3, <1>a, <2>1 DEF Channel
<1>8. ASSUME NEW p \in PrepWorker, Prep(p) PROVE Goal
  BY <1>1, <1>2, <1>5, <1>8 DEF Prep, PrepReceive, PrepAcquire, PrepParse, PrepExit, Channel
<1>9. ASSUME NEW c \in CompileWorker, Compile(c) PROVE Goal
  BY <1>1, <1>2, <1>6, <1>9 DEF Compile, CompileReceive, CompileUnit, CompileExit, Channel
<1>10. CASE Loader \/ Writer \/ Caller
  BY <1>1, <1>2, <1>4, <1>7, <1>10 DEF Loader, LoaderNext, LoaderCancelled, LoaderClose,
     Writer, WriterReceive, WriterExit, Caller, Collect, CheckEntry, MergeFailed, MergeUnit, Link, Close, Channel
<1>11. CASE PrepareCloser \/ FragmentCloser \/ Crash \/ UNCHANGED vars
  BY <1>1, <1>11 DEF PrepareCloser, FragmentCloser, Crash, SendOnClosed, MergeRaces, Close, vars
<1>. QED  BY <1>8, <1>9, <1>10, <1>11 DEF Next, Terminated

\* A received item is one of the channel.
LEMMA HeadInContent ==
    ASSUME TypeOK, NEW ch \in Channel, Receive(ch)
    PROVE  Head(queue[ch]) \in Content(ch) /\ Head(queue[ch]) \in Item
  BY ReceiveContent

\* A channel keeps items that say what happened to their files.
LEMMA QueueOriginStep ==
    ASSUME Placed, Origin, [Next]_vars
    PROVE  QueueOrigin'
<1>a. TypeOK
  BY DEF Placed
<1>b. outcome' = outcome /\ \A u, e : Worth(u, e) => Worth(u, e)'
  BY WorthStays
<1>1. ASSUME NEW x \in Content("load")' PROVE Opened(x.unit)'
  <2>1. x \in Content("load") \/ Sends("load", x)
    BY <1>a, ContentStep DEF Channel
  <2>. QED  BY <1>b, <2>1 DEF Sends, Origin, LoaderOrigin, QueueOrigin, Opened
<1>2. ASSUME NEW x \in Content("prepare")' PROVE Parsed(x.unit)'
  <2>1. x \in Content("prepare") \/ Sends("prepare", x)
    BY <1>a, ContentStep DEF Channel
  <2>. QED  BY <1>b, <2>1 DEF Sends, Origin, PrepOrigin, QueueOrigin, Parsed
<1>3. ASSUME NEW x \in Content("fragment")' PROVE Report(x)'
  <2>1. x \in Content("fragment") \/ Sends("fragment", x)
    BY <1>a, ContentStep DEF Channel
  <2>2. Report(x)
    BY <2>1 DEF Sends, Origin, LoaderOrigin, CompOrigin, QueueOrigin, Report, Worth
  <2>. QED  BY <1>b, <2>2 DEF Report
<1>4. ASSUME NEW x \in Content("result")' PROVE Report(x)'
  <2>1. x \in Content("result") \/ Sends("result", x)
    BY <1>a, ContentStep DEF Channel
  <2>2. Report(x)
    BY <2>1 DEF Sends, Origin, LoaderOrigin, PrepOrigin, QueueOrigin, Report, Worth
  <2>. QED  BY <1>b, <2>2 DEF Report
<1>. QED  BY <1>1, <1>2, <1>3, <1>4 DEF QueueOrigin

\* The loader takes a unit for what its file or a complete record is.
LEMMA LoaderOriginStep ==
    ASSUME Placed, CloseOrder, Quiet, CallerInv, Origin, [Next]_vars
    PROVE  LoaderOrigin'
<1>a. TypeOK
  BY DEF Placed
<1>b. outcome' = outcome /\ \A u \in Unit : Good(u) => Good(u)'
  BY WorthStays
<1>1. CASE loader' = loader
  <2>1. loader.pc = "sendCached" => loader.at \in Unit
    BY <1>a DEF TypeOK
  <2>. QED  BY <1>1, <1>b, <2>1 DEF Origin, LoaderOrigin, Opened
<1>2. CASE LoaderNext
  <2>1. /\ loader.pc = "next" /\ loader'.at = loader.at
        /\ loader'.pc = IF loader.at > UnitCount \/ cancelled THEN "close"
             ELSE IF <<loader.at, root[loader.at]>> \in cache THEN "sendCached"
             ELSE IF outcome[loader.at] = "read" THEN "sendErr" ELSE "sendLoad"
    BY <1>2, <1>a DEF LoaderNext, TypeOK, LoaderState
  <2>2. loader'.pc = "sendCached" => Good(loader.at) /\ loader.at \in Unit
    <3>1. SUFFICES ASSUME <<loader.at, root[loader.at]>> \in cache, loader.at \in Unit, ~SomeFailed
                   PROVE  root[loader.at] = "summary"
      BY <1>a, <2>1 DEF Good, TypeOK, LoaderState, Unit
    <3>2. "result" \notin closed
      BY <2>1, <3>1, ClosedIsFinished DEF Finished
    <3>. QED  BY <3>1, <3>2 DEF CallerInv
  <2>. QED  BY <1>b, <2>1, <2>2 DEF LoaderOrigin, Opened
<1>3. CASE LoaderSend \/ LoaderCancelled \/ LoaderClose
  <2>1. loader'.pc \in {"next", "close", "done"}
    BY <1>3, <1>a DEF LoaderSend, LoaderAdvance, LoaderCancelled, LoaderClose, TypeOK, LoaderState
  <2>. QED  BY <2>1 DEF LoaderOrigin
<1>. QED  BY <1>1, <1>2, <1>3, StepOf DEF Loader

\* A parser passes on what it received, or the failure it met.
LEMMA PrepOriginStep ==
    ASSUME Placed, Origin, [Next]_vars, NEW p \in PrepWorker
    PROVE  PrepOrigin(p)'
<1>a. TypeOK /\ outcome' = outcome
  BY WorthStays DEF Placed
<1>. USE DEF PrepOrigin, Opened, Parsed
<1>1. CASE prep'[p] = prep[p]
  BY <1>1, <1>a DEF Origin
<1>2. CASE PrepReceive(p)
  <2>1. prep'[p].pc = "acquire" /\ prep'[p].item = Head(queue["load"])
    BY <1>2, <1>a DEF PrepReceive, TypeOK
  <2>2. Opened(Head(queue["load"]).unit)
    BY <1>2, <1>a, HeadInContent DEF PrepReceive, Origin, QueueOrigin, Channel
  <2>. QED  BY <1>a, <2>1, <2>2
<1>3. CASE PrepAcquire(p) \/ PrepParse(p)
  <2>1. /\ prep'[p].item = prep[p].item /\ prep[p].item.unit \in Unit
        /\ \/ prep[p].pc = "acquire" /\ prep'[p].pc = "parse"
           \/ /\ prep[p].pc = "parse"
              /\ prep'[p].pc = IF outcome[prep[p].item.unit] = "parse" THEN "sendErr" ELSE "sendPrepared"
    BY <1>3, <1>a DEF PrepAcquire, PrepParse, TypeOK, PrepState, Item
  <2>2. prep[p].pc \in {"acquire", "parse"} => outcome[prep[p].item.unit] # "read"
    BY DEF Origin
  <2>. QED  BY <1>a, <2>1, <2>2
<1>4. CASE PrepSend(p) \/ PrepExit(p)
  <2>1. prep'[p].pc \in {"recv", "done"}
    BY <1>4, <1>a DEF PrepSend, PrepExit, TypeOK
  <2>. QED  BY <2>1
<1>5. ASSUME NEW q \in PrepWorker, Prep(q), q # p PROVE prep'[p] = prep[p]
  BY <1>5, <1>a DEF Prep, PrepReceive, PrepAcquire, PrepParse, PrepSend, PrepExit, TypeOK
<1>. QED  BY <1>1, <1>2, <1>3, <1>4, <1>5, StepOf DEF Prep

\* A compile worker passes on what it received, or the failure it met.
LEMMA CompOriginStep ==
    ASSUME Placed, Origin, [Next]_vars, NEW c \in CompileWorker
    PROVE  CompOrigin(c)'
<1>a. TypeOK /\ outcome' = outcome /\ \A u, e : Worth(u, e) => Worth(u, e)'
  BY WorthStays DEF Placed
<1>. USE DEF CompOrigin, Parsed, Report
<1>1. CASE comp'[c] = comp[c]
  BY <1>1, <1>a DEF Origin
<1>2. CASE CompileReceive(c)
  <2>1. comp'[c].pc = "compile" /\ comp'[c].item = Head(queue["prepare"])
    BY <1>2, <1>a DEF CompileReceive, TypeOK
  <2>2. Parsed(Head(queue["prepare"]).unit)
    BY <1>2, <1>a, HeadInContent DEF CompileReceive, Origin, QueueOrigin, Channel
  <2>. QED  BY <1>a, <2>1, <2>2
<1>3. CASE CompileUnit(c)
  <2>. DEFINE u == comp[c].item.unit
              e == IF outcome[u] = "compile" THEN "compile" ELSE "nil"
  <2>1. comp[c].pc = "compile" /\ comp'[c].pc = "send" /\ comp'[c].item = [unit |-> u, err |-> e]
    BY <1>3, <1>a DEF CompileUnit, TypeOK
  <2>2. Parsed(u) /\ outcome[u] \in Failure \cup {"nil"}
    BY <1>a, <2>1 DEF Origin, TypeOK, CompState, Item
  <2>3. Worth(u, e)
    BY <2>2 DEF Worth, Good, Failure
  <2>. QED  BY <1>a, <2>1, <2>3
<1>4. CASE CompileSend(c) \/ CompileExit(c)
  <2>1. comp'[c].pc \in {"recv", "done"}
    BY <1>4, <1>a DEF CompileSend, CompileExit, TypeOK
  <2>. QED  BY <2>1
<1>5. ASSUME NEW d \in CompileWorker, Compile(d), d # c PROVE comp'[c] = comp[c]
  BY <1>5, <1>a DEF Compile, CompileReceive, CompileUnit, CompileSend, CompileExit, TypeOK
<1>. QED  BY <1>1, <1>2, <1>3, <1>4, <1>5, StepOf DEF Compile

\* Every step keeps what travels true to the files.
LEMMA OriginStep ==
    ASSUME Placed, CloseOrder, Quiet, CallerInv, Origin, [Next]_vars
    PROVE  Origin'
<1>a. TypeOK /\ \A u, e : Worth(u, e) => Worth(u, e)'
  BY WorthStays DEF Placed
<1>1. writer'.pc = "send" => Report(writer.item)'
  <2>1. CASE writer' = writer
    BY <2>1, <1>a DEF Origin, Report
  <2>2. CASE WriterReceive
    <3>1. writer'.item = Head(queue["fragment"]) /\ Report(Head(queue["fragment"]))
      BY <2>2, <1>a, HeadInContent DEF WriterReceive, Origin, QueueOrigin, Channel
    <3>. QED  BY <3>1, <1>a DEF Report
  <2>3. CASE WriterSend \/ WriterExit
    BY <2>3 DEF WriterSend, WriterExit
  <2>. QED  BY <2>1, <2>2, <2>3, StepOf DEF Writer
<1>2. ASSUME NEW u \in Unit, results'[u] # "none" PROVE Worth(u, results[u])'
  <2>1. CASE results'[u] = results[u]
    BY <1>2, <2>1, <1>a DEF Origin
  <2>2. CASE Collect
    <3>. DEFINE x == Head(queue["result"])
    <3>1. Report(x) /\ results' = [results EXCEPT ![x.unit] = x.err]
      BY <2>2, <1>a, HeadInContent DEF Collect, Origin, QueueOrigin, Channel
    <3>2. CASE u = x.unit
      BY <3>1, <3>2, <1>a DEF Report, TypeOK
    <3>3. CASE u # x.unit
      BY <3>1, <3>3, <2>1, <1>a DEF TypeOK
    <3>. QED  BY <3>2, <3>3
  <2>3. CASE ~Collect
    BY <2>1, <2>3, StepOf DEF main, Caller, CheckEntry, MergeFailed, MergeUnit, Link, Crash,
       SendOnClosed, MergeRaces
  <2>. QED  BY <2>2, <2>3
<1>. QED
  BY <1>1, <1>2, QueueOriginStep, LoaderOriginStep, PrepOriginStep, CompOriginStep DEF Origin

-----------------------------------------------------------------------------
(* The inductive invariant and what follows from it *)

PipelineInv ==
    /\ Placed /\ CloseOrder /\ Conserved
    /\ Quiet /\ CallerInv /\ Origin /\ CrashNeedsFailures

\* A panic needs a bad unit besides the one whose failure was recorded, a race of the
\* merge with a worker needs that one.
LEMMA PanicStep ==
    ASSUME PipelineInv, [Next]_vars
    PROVE  CrashNeedsFailures'
<1>a. /\ Placed /\ TypeOK /\ CloseOrder /\ Quiet /\ Origin /\ CrashNeedsFailures
      /\ outcome' = outcome
  BY WorthStays DEF PipelineInv, Placed
<1>1. CASE caller' = caller
  <2>1. SomeFailed => SomeFailed'
    BY FailureStays DEF PipelineInv
  <2>. QED  BY <1>1, <1>a, <2>1 DEF CrashNeedsFailures, SomeFailed
<1>2. CASE Caller
  <2>1. caller'.pc \notin {"sentOnClosed", "racedOnIndex"}
    BY <1>2, <1>a DEF Caller, Collect, CheckEntry, Merging, MergeFailed, MergeUnit, Link, TypeOK,
       CallerState
  <2>. QED  BY <2>1 DEF CrashNeedsFailures
<1>3. CASE SendOnClosed
  <2>1. SomeFailed
    <3>1. ~Finished
      BY <1>3 DEF SendOnClosed, Finished
    <3>. QED  BY <1>3, <1>a, <3>1, ClosedIsFinished DEF SendOnClosed
  <2>2. PICK v \in Unit : results[v] \in Failure
    BY <2>1 DEF SomeFailed, Failed
  <2>3. outcome[v] # "nil" /\ v \in Held[<<"results", 0>>]
    BY <1>a, <2>2, HeldAt DEF Origin, Worth, Failure, HeldTable
  <2>4. \E u \in Unit : outcome[u] # "nil" /\ \E pl \in Place \ {<<"results", 0>>} : u \in Held[pl]
    <3>1. CASE loader.pc = "sendErr"
      <4>1. loader.at \in Unit /\ outcome[loader.at] = "read"
        BY <1>a, <3>1 DEF TypeOK, Origin, LoaderOrigin
      <4>2. loader.at \in Held[<<"loader", 0>>]
        BY <4>1, HeldAt DEF HeldTable, Unit
      <4>. QED  BY <4>1, <4>2, PlaceType
    <3>2. ASSUME NEW p \in PrepWorker, prep[p].pc = "sendErr"
          PROVE  \E u \in Unit : outcome[u] # "nil" /\ \E pl \in Place \ {<<"results", 0>>} : u \in Held[pl]
      <4>1. prep[p].item.unit \in Unit /\ outcome[prep[p].item.unit] = "parse"
        BY <1>a, <3>2 DEF TypeOK, PrepState, Item, Origin, PrepOrigin
      <4>2. prep[p].item.unit \in Held[<<"prep", p>>]
        BY <3>2, HeldAt DEF HeldTable
      <4>3. <<"prep", p>> \in Place \ {<<"results", 0>>}
        BY PlaceType
      <4>. QED  BY <4>1, <4>2, <4>3
    <3>. QED  BY <1>3, <3>1, <3>2 DEF SendOnClosed
  <2>5. PICK u \in Unit : outcome[u] # "nil" /\ u # v
    BY <1>a, <2>3, <2>4, PlaceType DEF Placed, Exclusive
  <2>6. caller'.pc = "sentOnClosed"
    BY <1>3, <1>a DEF SendOnClosed, TypeOK, CallerState
  <2>. QED  BY <1>a, <2>3, <2>5, <2>6 DEF CrashNeedsFailures
<1>4. CASE MergeRaces
  <2>1. caller.pc = "merge" /\ caller'.pc = "racedOnIndex" /\ results' = results
    BY <1>4, <1>a DEF MergeRaces, Merging, TypeOK, CallerState
  <2>2. "result" \in closed /\ ~Finished
    BY <1>4, <2>1 DEF MergeRaces, Finished, PipelineInv, CallerInv
  <2>3. SomeFailed
    BY <1>a, <2>2, ClosedIsFinished
  <2>. QED  BY <2>1, <2>3 DEF CrashNeedsFailures, SomeFailed, Failed
<1>. QED  BY <1>1, <1>2, <1>3, <1>4, StepOf DEF main, Crash

\* The parts of the invariant are kept together.
LEMMA PipelineStep == PipelineInv /\ [Next]_vars /\ TypeOK' => PipelineInv'
<1>. SUFFICES ASSUME PipelineInv, [Next]_vars, TypeOK' PROVE PipelineInv'
  OBVIOUS
<1>1. Placed /\ TypeOK /\ CloseOrder /\ Conserved /\ Quiet /\ CallerInv /\ Origin
  BY DEF PipelineInv, Placed
<1>2. Placed'
  BY <1>1, PlacesStep DEF Placed
<1>3. CloseOrder' /\ Conserved' /\ Quiet' /\ CallerInv'
  BY <1>1, CloseStep, ConservedStep, QuietStep, CallerStep
<1>. QED  BY <1>1, <1>2, <1>3, OriginStep, PanicStep DEF PipelineInv

\* At the start every unit is with the loader.
LEMMA PipelineInit == Init => PipelineInv
<1>. SUFFICES ASSUME Init PROVE PipelineInv
  OBVIOUS
<1>1. TypeOK
  BY TypeInit
<1>2. \A ch \in Channel : queue[ch] = <<>> /\ Content(ch) = {}
  BY DEF Init, Content
<1>3. /\ Held[<<"loader", 0>>] = Unit
      /\ \A pl \in Place : pl # <<"loader", 0>> => Held[pl] = {}
  <2>1. Held[<<"loader", 0>>] = Unit
    BY HeldAt DEF HeldTable, Init, Unit
  <2>2. Held[<<"writer", 0>>] = {} /\ Held[<<"results", 0>>] = {}
    BY HeldAt DEF HeldTable, Init
  <2>3. ASSUME NEW ch \in Channel PROVE Held[<<"queue", ch>>] = {}
    BY <1>2, HeldAt DEF HeldTable
  <2>4. ASSUME NEW p \in PrepWorker PROVE Held[<<"prep", p>>] = {}
    BY HeldAt DEF HeldTable, Init
  <2>5. ASSUME NEW c \in CompileWorker PROVE Held[<<"comp", c>>] = {}
    BY HeldAt DEF HeldTable, Init
  <2>. QED  BY <2>1, <2>2, <2>3, <2>4, <2>5, PlaceSplit
<1>4. NoRepeat /\ Exclusive /\ Conserved
  BY <1>2, <1>3, PlaceType DEF NoRepeat, Exclusive, Conserved
<1>5. CloseOrder /\ Quiet /\ CallerInv /\ CrashNeedsFailures
  BY DEF Init, CloseOrder, Quiet, CallerInv, CrashNeedsFailures, Returns
<1>6. Origin
  BY <1>2 DEF Init, Origin, LoaderOrigin, QueueOrigin, PrepOrigin, CompOrigin, Channel
<1>. QED  BY <1>1, <1>4, <1>5, <1>6 DEF PipelineInv, Placed

\* At every moment the goroutines, the four channels and the caller stand in the
\* relations of PipelineInv: where each unit is, what is known of it, and who may
\* have stopped.
THEOREM PipelineIsInvariant == Spec => []PipelineInv
<1>1. Init => PipelineInv
  BY PipelineInit
<1>2. TypeOK' /\ PipelineInv /\ [Next]_vars => PipelineInv'
  BY PipelineStep
<1>. QED  BY <1>1, <1>2, BodiesBounded, PTL DEF Spec

\* No unit is processed twice or lost: at every moment each unit is in exactly
\* one place, and it can be in none only after a failure was recorded.
THEOREM UnitsConserved == Spec => [](NoRepeat /\ Exclusive /\ Conserved)
<1>1. PipelineInv => NoRepeat /\ Exclusive /\ Conserved
  BY DEF PipelineInv, Placed
<1>. QED  BY <1>1, PipelineIsInvariant, PTL

\* The context is cancelled only on a recorded failure or on a return.
THEOREM CancelIsCaused == Spec => []CancelHasCause
<1>1. PipelineInv => CancelHasCause
  BY DEF PipelineInv, CallerInv, CancelHasCause, SomeFailed, Returned, Panicked
<1>. QED  BY <1>1, PipelineIsInvariant, PTL

\* When the caller has left the collecting loop with no failure, all units
\* have reported.
LEMMA AllReport ==
    ASSUME PipelineInv, ~SomeFailed, "result" \in closed, queue["result"] = <<>>
    PROVE  \A u \in Unit : results[u] = "nil"
<1>. USE DEF PipelineInv, Placed
<1>1. Finished
  BY ClosedIsFinished
<1>2. \A ch \in Channel : Content(ch) = {}
  BY <1>1 DEF Finished, Channel, Content
<1>3. Held[<<"loader", 0>>] = {} /\ Held[<<"writer", 0>>] = {}
  <2>1. loader.at \in Nat /\ loader.at > UnitCount /\ writer.pc # "send"
    BY <1>1 DEF Finished, TypeOK, LoaderState
  <2>2. \A u \in Unit : ~(loader.at <= u)
    BY <2>1, UnitsAssumption DEF Unit
  <2>. QED  BY <2>1, <2>2, HeldAt DEF HeldTable
<1>4. \A ch \in Channel : Held[<<"queue", ch>>] = {}
  <2>. TAKE ch \in Channel
  <2>. QED  BY <1>2, HeldAt DEF HeldTable
<1>5. \A p \in PrepWorker : Held[<<"prep", p>>] = {}
  BY <1>1, HeldAt DEF HeldTable, Finished
<1>6. \A c \in CompileWorker : Held[<<"comp", c>>] = {}
  BY <1>1, HeldAt DEF HeldTable, Finished
<1>. SUFFICES ASSUME NEW u \in Unit PROVE results[u] = "nil"
  OBVIOUS
<1>7. PICK pl \in Place : u \in Held[pl]
  BY DEF Conserved
<1>8. pl = <<"results", 0>>
  BY <1>3, <1>4, <1>5, <1>6, <1>7, PlaceSplit
<1>9. results[u] # "none"
  BY <1>7, <1>8, HeldAt DEF HeldTable
<1>. QED  BY <1>9 DEF TypeOK, SomeFailed, Failed

\* An executable is linked from the fragments of every unit, and none of them
\* stands for a file that is bad and not covered by a complete cache record.
THEOREM LinkIsSound == Spec => []LinkedIsSound
<1>1. PipelineInv => LinkedIsSound
  <2>. SUFFICES ASSUME PipelineInv, caller.pc = "linked", NEW u \in Unit
                PROVE  results[u] = "nil" /\ (outcome[u] = "nil" \/ <<u, "summary">> \in cache)
    BY DEF LinkedIsSound
  <2>1. caller.at > UnitCount /\ \A v \in Unit : v < caller.at => ~Failed(v)
    BY DEF PipelineInv, CallerInv
  <2>2. ~SomeFailed
    BY <2>1, UnitsAssumption DEF SomeFailed, Unit, PipelineInv, Placed, TypeOK, CallerState
  <2>3. results[u] = "nil"
    BY <2>2, AllReport DEF PipelineInv, CallerInv
  <2>4. Worth(u, "nil")
    BY <2>3 DEF PipelineInv, Origin
  <2>. QED  BY <2>2, <2>3, <2>4 DEF Worth, Good
<1>. QED  BY <1>1, PipelineIsInvariant, PTL

\* The caller merges alone: without a failure, no goroutine that touches the
\* index or the units is running by then.
THEOREM MergeIsQuiescent == Spec => []QuiescentMerge
<1>1. PipelineInv => QuiescentMerge
  <2>. SUFFICES ASSUME PipelineInv, caller.pc \in {"merge", "clash", "linked", "linkError"}, ~SomeFailed
                PROVE  loader.pc = "done" /\ \A c \in CompileWorker : comp[c].pc = "done"
    BY DEF QuiescentMerge, SomeFailed
  <2>1. "result" \in closed
    BY DEF PipelineInv, CallerInv
  <2>. QED  BY <2>1, ClosedIsFinished DEF PipelineInv, Finished
<1>. QED  BY <1>1, PipelineIsInvariant, PTL

\* A send on a closed channel takes two bad units: a goroutine that panics holds a bad
\* unit other than the one whose failure was recorded.  The fatal access to the index
\* takes a recorded failure, and one bad unit is enough for that.
THEOREM CrashTakesFailures == Spec => []CrashNeedsFailures
<1>1. PipelineInv => CrashNeedsFailures
  BY DEF PipelineInv
<1>. QED  BY <1>1, PipelineIsInvariant, PTL

-----------------------------------------------------------------------------
(* Nobody waits for ever on everybody *)

\* What each goroutine needs in order to take its next step: the guards of its
\* actions, channel by channel.
CanSend(ch)    == ch \notin closed /\ Len(queue[ch]) < W
CanReceive(ch) == queue[ch] # <<>> \/ ch \in closed
CanReport      == CanSend("result") \/ "result" \in closed    \* the bare sends: or panic

LoaderCanMove ==
    \/ loader.pc \in {"next", "close"}
    \/ loader.pc = "sendCached" /\ (CanSend("fragment") \/ cancelled)
    \/ loader.pc = "sendLoad" /\ (CanSend("load") \/ cancelled)
    \/ loader.pc = "sendErr" /\ CanReport
PrepCanMove(p) ==
    \/ prep[p].pc = "recv" /\ CanReceive("load")
    \/ prep[p].pc = "acquire" /\ (bodyTokens < W \/ cancelled)
    \/ prep[p].pc = "parse"
    \/ prep[p].pc = "sendErr" /\ CanReport
    \/ prep[p].pc = "sendPrepared" /\ (CanSend("prepare") \/ cancelled)
CompileCanMove(c) ==
    \/ comp[c].pc = "recv" /\ CanReceive("prepare")
    \/ comp[c].pc = "compile"
    \/ comp[c].pc = "send" /\ (CanSend("fragment") \/ cancelled)
WriterCanMove ==
    \/ writer.pc = "recv" /\ CanReceive("fragment")
    \/ writer.pc = "send" /\ (CanSend("result") \/ cancelled)
CallerCanMove == caller.pc = "merge" \/ (caller.pc = "collect" /\ CanReceive("result"))
CloserCanMove ==
    \/ "prepare" \notin closed /\ \A p \in PrepWorker : prep[p].pc = "done"
    \/ "fragment" \notin closed /\ FragmentSendersDone

CanMove ==
    \/ LoaderCanMove \/ WriterCanMove \/ CallerCanMove \/ CloserCanMove
    \/ \E p \in PrepWorker : PrepCanMove(p)
    \/ \E c \in CompileWorker : CompileCanMove(c)

NeverStuck == Panicked \/ (Returned /\ GoroutinesDone) \/ CanMove

\* Who stops leaves a trace: a closed channel behind it, the end of its input, or
\* a cancelled context; and the caller cancels before it returns.
DoneOrder ==
    /\ loader.pc = "done" => "load" \in closed
    /\ writer.pc = "done" => "result" \in closed
    /\ \A p \in PrepWorker : prep[p].pc = "done" => cancelled \/ "load" \in closed
    /\ \A c \in CompileWorker : comp[c].pc = "done" => cancelled \/ "prepare" \in closed
    /\ Returned => cancelled

\* Nobody stops without its trace, and a trace stays.
LEMMA DoneStep == TypeOK /\ DoneOrder /\ [Next]_vars => DoneOrder'
<1>. SUFFICES ASSUME TypeOK, DoneOrder, [Next]_vars PROVE DoneOrder'
  OBVIOUS
<1>. USE DEF disk, pipes, main, DoneOrder
<1>1. CASE Loader
  BY <1>1 DEF Loader, LoaderNext, LoaderSend, LoaderAdvance, LoaderCancelled, LoaderClose,
     Send, Close, TypeOK, LoaderState, Returned
<1>2. ASSUME NEW p \in PrepWorker, Prep(p) PROVE DoneOrder'
  <2>1. /\ closed' = closed /\ UNCHANGED <<loader, comp, writer, cancelled, caller>>
        /\ \A q \in PrepWorker : q # p => prep'[q] = prep[q]
    BY <1>2 DEF Prep, PrepReceive, PrepAcquire, PrepParse, PrepSend, PrepExit, Send, Receive, TypeOK
  <2>2. prep'[p].pc = "done" => cancelled \/ "load" \in closed
    BY <1>2 DEF Prep, PrepReceive, PrepAcquire, PrepParse, PrepSend, PrepExit, Drained, TypeOK,
       PrepState
  <2>. QED  BY <2>1, <2>2 DEF Returned
<1>3. ASSUME NEW c \in CompileWorker, Compile(c) PROVE DoneOrder'
  <2>1. /\ closed' = closed /\ UNCHANGED <<loader, prep, writer, cancelled, caller>>
        /\ \A d \in CompileWorker : d # c => comp'[d] = comp[d]
    BY <1>3 DEF Compile, CompileReceive, CompileUnit, CompileSend, CompileExit, Send, Receive, TypeOK
  <2>2. comp'[c].pc = "done" => cancelled \/ "prepare" \in closed
    BY <1>3 DEF Compile, CompileReceive, CompileUnit, CompileSend, CompileExit, Drained, TypeOK,
       CompState
  <2>. QED  BY <2>1, <2>2 DEF Returned
<1>4. CASE Writer
  BY <1>4 DEF Writer, WriterReceive, WriterSend, WriterExit, Send, Receive, Close, Returned
<1>5. CASE Caller
  <2>1. /\ closed' = closed /\ UNCHANGED <<loader, prep, comp, writer>>
        /\ cancelled => cancelled'
        /\ Returned' => cancelled'
    <3>1. CASE Collect
      BY <3>1 DEF Collect, Receive, Returned
    <3>2. CASE CheckEntry
      BY <3>2 DEF CheckEntry, Returned, Returns, TypeOK, CallerState
    <3>3. CASE MergeFailed \/ MergeUnit
      BY <3>3 DEF MergeFailed, MergeUnit, Merging, Returned, Returns, TypeOK, CallerState
    <3>4. CASE Link
      BY <3>4 DEF Link
    <3>. QED  BY <1>5, <3>1, <3>2, <3>3, <3>4 DEF Caller
  <2>. QED  BY <2>1
<1>6. CASE PrepareCloser \/ FragmentCloser
  BY <1>6 DEF PrepareCloser, FragmentCloser, Close, Returned
<1>7. CASE Crash
  BY <1>7 DEF Crash, SendOnClosed, MergeRaces, Returned, Returns, TypeOK, CallerState
<1>8. CASE UNCHANGED vars
  BY <1>8 DEF vars, Returned
<1>. QED
  BY <1>1, <1>2, <1>3, <1>4, <1>5, <1>6, <1>7, <1>8 DEF Next, Terminated

\* After the call has returned every goroutine finds its way out: the context is
\* cancelled, which ends the selects, and the bare sends panic.
LEMMA ReturnedMoves ==
    ASSUME TypeOK, CloseOrder, DoneOrder, CallerInv, Returned, ~CanMove
    PROVE  GoroutinesDone
<1>1. cancelled /\ "result" \in closed /\ writer.pc = "done"
  BY DEF Returned, Returns, DoneOrder, CallerInv, CloseOrder
<1>2. loader.pc = "done"
  BY <1>1 DEF CanMove, LoaderCanMove, CanReport, TypeOK, LoaderState
<1>3. ASSUME NEW p \in PrepWorker PROVE prep[p].pc = "done"
  <2>1. "load" \in closed
    BY <1>2 DEF DoneOrder
  <2>2. prep[p].pc \in {"recv", "acquire", "parse", "sendErr", "sendPrepared", "done"}
    BY DEF TypeOK, PrepState
  <2>. QED  BY <1>1, <2>1, <2>2 DEF CanMove, PrepCanMove, CanReport, CanReceive
<1>4. "prepare" \in closed
  BY <1>3 DEF CanMove, CloserCanMove
<1>5. ASSUME NEW c \in CompileWorker PROVE comp[c].pc = "done"
  <2>1. comp[c].pc \in {"recv", "compile", "send", "done"}
    BY DEF TypeOK, CompState
  <2>. QED  BY <1>1, <1>4, <2>1 DEF CanMove, CompileCanMove, CanReceive
<1>6. "fragment" \in closed /\ "load" \in closed
  BY <1>2, <1>5 DEF CanMove, CloserCanMove, FragmentSendersDone, DoneOrder
<1>7. closed = Channel
  BY <1>1, <1>4, <1>6 DEF TypeOK, Channel
<1>. QED  BY <1>1, <1>2, <1>3, <1>5, <1>7 DEF GoroutinesDone

\* While the caller collects, somebody moves.  A full queue has a receiver, and a
\* goroutine that waits for a token has a holder of one to wait for.
LEMMA CollectingMoves ==
    ASSUME TypeOK, TokenAccounting, CloseOrder, DoneOrder, caller.pc = "collect"
    PROVE  CanMove
<1>. SUFFICES ASSUME ~CanMove PROVE FALSE
  OBVIOUS
<1>a. W \in Nat /\ W > 0 /\ Len(<<>>) = 0
  BY WIsPositive
<1>1. queue["result"] = <<>> /\ "result" \notin closed /\ CanSend("result")
  BY <1>a DEF CanMove, CallerCanMove, CanReceive, CanSend
<1>2. queue["fragment"] = <<>> /\ "fragment" \notin closed /\ CanSend("fragment")
  <2>1. writer.pc = "recv"
    BY <1>1 DEF CanMove, WriterCanMove, DoneOrder, TypeOK, WriterState
  <2>. QED  BY <1>a, <2>1 DEF CanMove, WriterCanMove, CanReceive, CanSend
<1>3. \/ loader.pc = "done"
      \/ loader.pc = "sendLoad" /\ ~CanSend("load") /\ ~cancelled
  BY <1>1, <1>2 DEF CanMove, LoaderCanMove, CanReport, TypeOK, LoaderState
<1>4. ASSUME NEW c \in CompileWorker, comp[c].pc # "done"
      PROVE  FALSE
  <2>1. comp[c].pc = "recv"
    <3>1. comp[c].pc \in {"recv", "compile", "send"}
      BY <1>4 DEF TypeOK, CompState
    <3>. QED  BY <3>1, <1>2 DEF CanMove, CompileCanMove
  <2>2. queue["prepare"] = <<>> /\ "prepare" \notin closed /\ CanSend("prepare")
    BY <1>a, <2>1 DEF CanMove, CompileCanMove, CanReceive, CanSend
  <2>3. PrepHolders = {} /\ CompHolders = {}
    BY <2>2 DEF CanMove, PrepCanMove, CompileCanMove, PrepHolders, CompHolders
  <2>4. bodyTokens < W
    BY <1>a, <2>2, <2>3, FS_EmptySet DEF TokenAccounting, LiveBodies
  <2>5. PICK p \in PrepWorker : prep[p].pc # "done"
    BY <2>2 DEF CanMove, CloserCanMove
  <2>6. prep[p].pc = "recv"
    <3>1. prep[p].pc \in {"recv", "acquire", "parse", "sendErr", "sendPrepared"}
      BY <2>5 DEF TypeOK, PrepState
    <3>. QED  BY <3>1, <1>1, <2>2, <2>4 DEF CanMove, PrepCanMove, CanReport
  <2>7. queue["load"] = <<>> /\ "load" \notin closed /\ CanSend("load")
    BY <1>a, <2>6 DEF CanMove, PrepCanMove, CanReceive, CanSend
  <2>. QED  BY <1>3, <2>7 DEF DoneOrder
<1>5. loader.pc = "sendLoad" /\ ~cancelled
  BY <1>2, <1>3, <1>4 DEF CanMove, CloserCanMove, FragmentSendersDone
<1>6. "prepare" \in closed
  BY <1>4, <1>5, WorkersAssumption DEF DoneOrder
<1>7. "load" \in closed
  BY <1>5, <1>6, WorkersAssumption DEF CloseOrder, DoneOrder
<1>. QED  BY <1>5, <1>7 DEF CloseOrder

\* The pipeline never deadlocks: until the process has panicked, or the call has
\* returned and left no goroutine behind, some goroutine can take its next step,
\* whatever fails, whenever the context is cancelled and however the queues fill.
THEOREM PipelineNeverStuck == Spec => []NeverStuck
<1>1. Init => DoneOrder
  BY DEF Init, DoneOrder, Returned, Returns
<1>2. TypeOK /\ DoneOrder /\ [Next]_vars => DoneOrder'
  BY DoneStep
<1>3. TypeOK /\ TokenAccounting /\ PipelineInv /\ DoneOrder => NeverStuck
  <2>. SUFFICES ASSUME TypeOK, TokenAccounting, PipelineInv, DoneOrder, ~Panicked, ~CanMove
                PROVE  Returned /\ GoroutinesDone
    BY DEF NeverStuck
  <2>1. CloseOrder /\ CallerInv
    BY DEF PipelineInv
  <2>2. caller.pc # "collect"
    BY <2>1, CollectingMoves
  <2>3. Returned
    BY <2>2 DEF CanMove, CallerCanMove, TypeOK, CallerState, Returned, Panicked
  <2>. QED  BY <2>1, <2>3, ReturnedMoves
<1>. QED  BY <1>1, <1>2, <1>3, BodiesBounded, PipelineIsInvariant, PTL DEF Spec

-----------------------------------------------------------------------------
(* The pipeline implements the abstract compilation *)

verdictOf == IF caller.pc \in {"collect", "merge"} THEN "running"
             ELSE IF Panicked THEN "panicked" ELSE caller.pc

\* When the results are in, every unit has reported or one has failed.
LEMMA ReportedOrFailed ==
    ASSUME PipelineInv, "result" \in closed, queue["result"] = <<>>
    PROVE  Abstract!AllReported \/ Abstract!SomeFailure
<1>1. CASE SomeFailed
  BY <1>1 DEF Abstract!SomeFailure, SomeFailed, Failed, Failure, Abstract!Failure
<1>2. CASE ~SomeFailed
  BY <1>2, AllReport DEF Abstract!AllReported
<1>. QED  BY <1>1, <1>2

\* A step of the pipeline is a report, a verdict or a stutter of ProjectCompile.
LEMMA AbstractStep ==
    ASSUME PipelineInv, [Next]_vars
    PROVE  [Abstract!Next]_<<results, verdictOf>>
<1>a. /\ Placed /\ TypeOK /\ CallerInv
  BY DEF PipelineInv, Placed
<1>. USE DEF verdictOf, Panicked
<1>1. CASE UNCHANGED <<caller, results>>
  BY <1>1
<1>2. CASE Collect
  <2>. DEFINE x == Head(queue["result"])
  <2>1. /\ x.unit \in Unit /\ x.err \in Failure \cup {"nil"} /\ caller.pc = "collect"
        /\ x.unit \in Held[<<"queue", "result">>]
        /\ results' = [results EXCEPT ![x.unit] = x.err] /\ caller' = caller
    BY <1>2, <1>a, HeadInContent, ReceivePlaces DEF Collect, Channel, Item
  <2>2. results[x.unit] = "none"
    BY <1>a, <2>1, PlaceType, HeldAt DEF Placed, Exclusive, HeldTable, Channel
  <2>3. Abstract!Record(x.unit, x.err)
    BY <2>1, <2>2 DEF Abstract!Record
  <2>. QED  BY <2>1, <2>3 DEF Abstract!Next, Abstract!Failure, Failure
<1>3. CASE CheckEntry
  <2>1. /\ caller.pc = "collect" /\ results' = results
        /\ "result" \in closed /\ queue["result"] = <<>>
        /\ caller'.pc \in {"merge", "entryDuplicate", "entryNotFound"}
    BY <1>3, <1>a DEF CheckEntry, Drained, TypeOK, CallerState
  <2>2. CASE caller'.pc = "merge"
    BY <2>1, <2>2
  <2>3. CASE caller'.pc \in {"entryDuplicate", "entryNotFound"}
    <3>1. Abstract!AllReported \/ Abstract!SomeFailure
      BY <2>1, ReportedOrFailed
    <3>2. Abstract!Return(caller'.pc)
      BY <2>1, <2>3, <3>1 DEF Abstract!Return
    <3>. QED  BY <2>3, <3>2 DEF Abstract!Next, Abstract!Verdict
  <2>. QED  BY <2>1, <2>2, <2>3
<1>4. CASE MergeFailed
  <2>1. caller.pc = "merge" /\ caller'.pc = "unitError" /\ results' = results /\ SomeFailed
    BY <1>4, <1>a DEF MergeFailed, Merging, SomeFailed, TypeOK, CallerState
  <2>2. Abstract!SomeFailure
    BY <2>1 DEF Abstract!SomeFailure, SomeFailed, Failed, Failure, Abstract!Failure
  <2>3. Abstract!Return("unitError")
    BY <2>1, <2>2 DEF Abstract!Return
  <2>. QED  BY <2>3 DEF Abstract!Next, Abstract!Verdict
<1>8. CASE MergeUnit
  <2>1. CASE caller' = [caller EXCEPT !.at = @ + 1]
    BY <1>8, <2>1, <1>a DEF MergeUnit, Merging, TypeOK, CallerState
  <2>2. CASE MayClash /\ caller' = [caller EXCEPT !.pc = "clash"]
    <3>1. /\ caller.pc = "merge" /\ caller'.pc = "clash" /\ results' = results
          /\ caller.at \in Unit /\ results[caller.at] = "nil"
      BY <1>8, <2>2, <1>a DEF MergeUnit, Merging, MayClash, TypeOK, CallerState
    <3>2. Abstract!AllReported \/ Abstract!SomeFailure
      BY <3>1, ReportedOrFailed DEF CallerInv, PipelineInv
    <3>3. Abstract!Return("clash")
      BY <3>1, <3>2 DEF Abstract!Return
    <3>. QED  BY <3>3 DEF Abstract!Next, Abstract!Verdict
  <2>. QED  BY <1>8, <2>1, <2>2 DEF MergeUnit
<1>5. CASE Link
  <2>1. /\ caller.pc = "merge" /\ caller.at > UnitCount /\ results' = results
        /\ caller'.pc \in {"linked", "linkError"}
        /\ \A v \in Unit : v < caller.at => ~Failed(v)
    BY <1>5, <1>a DEF Link, TypeOK, CallerState, CallerInv
  <2>2. ~SomeFailed
    BY <1>a, <2>1, UnitsAssumption DEF SomeFailed, Unit, TypeOK, CallerState
  <2>3. Abstract!AllDelivered
    BY <2>1, <2>2, AllReport DEF CallerInv, PipelineInv, Abstract!AllDelivered
  <2>4. Abstract!Return(caller'.pc)
    BY <2>1, <2>3 DEF Abstract!Return
  <2>. QED  BY <2>1, <2>4 DEF Abstract!Next, Abstract!Verdict
<1>7. CASE Crash /\ Panicked
  BY <1>7, <1>a DEF Crash, SendOnClosed, MergeRaces, TypeOK, CallerState, main
<1>6. CASE Crash /\ ~Panicked
  <2>1. Panicked' /\ results' = results /\ ~Panicked
    BY <1>6, <1>a DEF Crash, SendOnClosed, MergeRaces, TypeOK, CallerState, main
  <2>2. SomeFailed
    <3>1. "result" \in closed /\ ~Finished
      BY <1>6 DEF Crash, SendOnClosed, MergeRaces, Merging, Finished, PipelineInv, CallerInv
    <3>. QED  BY <3>1, ClosedIsFinished DEF PipelineInv
  <2>3. Abstract!SomeFailure
    BY <2>2 DEF Abstract!SomeFailure, SomeFailed, Failed, Failure, Abstract!Failure
  <2>4. Abstract!Crash
    BY <1>6, <1>a, <2>1, <2>3
       DEF Abstract!Crash, Crash, SendOnClosed, MergeRaces, TypeOK, CallerState, Returns, Panicked
  <2>. QED  BY <2>4 DEF Abstract!Next
<1>. QED  BY <1>1, <1>2, <1>3, <1>4, <1>5, <1>6, <1>7, <1>8, StepOf DEF Caller, main

\* Whatever the goroutines do, the caller sees each unit report at most once,
\* links only when all of them delivered, and gives up or crashes only after a
\* failure was reported.
THEOREM PipelineImplements == Spec => Implements
<1>1. Init => Abstract!Init
  BY DEF Init, Abstract!Init
<1>2. PipelineInv /\ [Next]_vars => [Abstract!Next]_<<results, verdictOf>>
  BY AbstractStep
<1>. QED
  BY <1>1, <1>2, PipelineIsInvariant, PTL DEF Spec, Implements, Abstract!Spec, verdictOf
=============================================================================
