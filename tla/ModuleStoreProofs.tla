--------------------------- MODULE ModuleStoreProofs ---------------------------
(****************************************************************************)
(* Theorems about ModuleStore, for every number of goroutines, processes,   *)
(* contents, writes, edits and crashes.                                     *)
(****************************************************************************)
EXTENDS ModuleStore, TLAPS

-----------------------------------------------------------------------------
(* The inductive invariant *)

\* Whoever is at work has a key; a writer has a file left to write.
KeyInv == \A t \in Thread :
    /\ at[t].pc # "idle" => at[t].key \in Key
    /\ at[t].pc = "clear" => at[t].written = 0
    /\ at[t].pc = "write" => at[t].written < Len(WriteOrder)

\* A key that mixes two contents of the source comes from an edit between the
\* lowering and the hashing.
Mixed(k) == k.hash # k.prog
MixedInv ==
    /\ \A k \in Key : Mixed(k) /\ dir[k] # Missing => raced
    /\ \A t \in Thread : at[t].pc \in Put_pc /\ Mixed(at[t].key) => raced
    /\ \A t \in Thread : at[t].pc = "lowered" =>
          ~Mixed(at[t].key) /\ (at[t].key.prog # source => raced)

\* Two goroutines of one process that put one key have been noticed.
CollideInv == \A t, u \in Thread : \A k \in Key :
    t # u /\ process[t] = process[u] /\ Putting(t, k) /\ Putting(u, k) => k \in collided

\* Without such a collision a temporary directory holds what its writer has written.
Written(n) == {WriteOrder[i] : i \in 1..n}
TmpInv == \A t \in Thread : at[t].key \notin collided =>
    /\ at[t].pc = "write" => tmp[TmpOf(t)] = Written(at[t].written)
    /\ at[t].pc \in {"publish", "replace", "rename"} => tmp[TmpOf(t)] = File

\* A name that nobody is taking apart, and nobody died over, is whole and put,
\* or gone; it is put and gone only while its writer is about to rename.
Removing(t, k) == at[t].pc \in {"replace", "remove"} /\ at[t].key = k
Renaming(t, k) == at[t].pc = "rename" /\ at[t].key = k
WholeAt(k) ==
    \/ k \in torn \cup collided
    \/ \E t \in Thread : Removing(t, k)
    \/ dir[k] = File /\ k \in stored
    \/ dir[k] = Missing /\ (k \in stored => \E t \in Thread : Renaming(t, k))
WholeInv == \A k \in Key : WholeAt(k)

StoreInv ==
    /\ TypeOK /\ KeyInv /\ (stale => raced) /\ MixedInv
    /\ CollideInv /\ TmpInv /\ WholeInv

-----------------------------------------------------------------------------
(* Facts about states *)

\* A missing directory is none of the sets of files a directory can hold.
LEMMA Files ==
    /\ \A S \in SUBSET File : S # Missing
    /\ File # Missing /\ {} # Missing /\ File # {}
  BY DEF File, Missing

\* Put writes three different files one after another.
LEMMA Order ==
    /\ Len(WriteOrder) = 3 /\ \A n \in 1..3 : WriteOrder[n] \in File
    /\ Written(0) = {} /\ Written(3) = File
    /\ \A n \in 0..2 : Written(n + 1) = Written(n) \cup {WriteOrder[n + 1]}
<1>1. /\ Len(WriteOrder) = 3
      /\ WriteOrder[1] = "se" /\ WriteOrder[2] = "spz" /\ WriteOrder[3] = "meta"
  BY DEF WriteOrder
<1>2. \A n \in 1..3 : n = 1 \/ n = 2 \/ n = 3
  OBVIOUS
<1>3. Written(0) = {} /\ Written(3) = File
  BY <1>1, <1>2 DEF Written, File
<1>4. \A n \in 0..2 : 1..(n + 1) = (1..n) \cup {n + 1}
  OBVIOUS
<1>. QED  BY <1>1, <1>2, <1>3, <1>4 DEF Written, File

Pc == {"idle", "lowered", "remove"} \cup Put_pc
AtType == [pc : Pc, key : Key \cup {NoKey}, written : 0..Len(WriteOrder)]

\* Where a goroutine can be, and in which process.
LEMMA Places ==
    ASSUME TypeOK, NEW t \in Thread
    PROVE  /\ at[t] \in AtType /\ at[t].pc \in Pc /\ at[t].key \in Key \cup {NoKey}
           /\ at[t].written \in 0..3 /\ process[t] \in Process
           /\ Idle \in AtType
           /\ \A pc \in Pc : [at[t] EXCEPT !.pc = pc] \in AtType
           /\ \A k \in Key : \A pc \in Pc : [pc |-> pc, key |-> k, written |-> 0] \in AtType
<1>1. at[t] \in AtType /\ process[t] \in Process
  BY DEF TypeOK, AtType, Pc
<1>. QED  BY <1>1, Order DEF AtType, Idle, Pc

\* Where t is, and that nobody else moves.
Moves(t, pc, key) ==
    /\ at'[t].pc = pc /\ at'[t].key = key
    /\ \A u \in Thread \ {t} : at'[u] = at[u]

-----------------------------------------------------------------------------
(* What each step does to the places *)

\* A miss takes the contents that the files of the module are lowered from.
LEMMA MissMoves ==
    ASSUME TypeOK, NEW t \in Thread, ImportMiss(t)
    PROVE  Moves(t, "lowered", [hash |-> source, prog |-> source]) /\ at'[t].written = 0
           /\ at[t].pc = "idle" /\ at' \in [Thread -> AtType]
<1>1. [hash |-> source, prog |-> source] \in Key
  BY DEF TypeOK, Key
<1>2. [pc |-> "lowered", key |-> [hash |-> source, prog |-> source], written |-> 0] \in AtType
  BY <1>1, Order DEF AtType, Pc
<1>. QED  BY <1>2, Places DEF ImportMiss, Begin, Moves, TypeOK, AtType, Pc

\* Entering Put, from either kind of import.
LEMMA EnterMoves ==
    ASSUME TypeOK, NEW t \in Thread, NEW k \in Key, EnterPut(t, k)
    PROVE  /\ Moves(t, "clear", k) /\ at'[t].written = 0 /\ at' \in [Thread -> AtType]
           /\ collided \subseteq collided' /\ collided' \subseteq collided \cup {k}
           /\ \A u \in Thread \ {t} : process[u] = process[t] /\ Putting(u, k) => k \in collided'
<1>1. [pc |-> "clear", key |-> k, written |-> 0] \in AtType
  BY Order DEF AtType, Pc, Put_pc
<1>. QED  BY <1>1, Places DEF EnterPut, Moves, TypeOK, AtType, Pc

\* ImportHash enters Put with the key of what was lowered and what is read now.
LEMMA HashMoves ==
    ASSUME TypeOK, KeyInv, NEW t \in Thread, ImportHash(t)
    PROVE  /\ at[t].pc = "lowered" /\ at[t].key \in Key
           /\ [at[t].key EXCEPT !.hash = source] \in Key
           /\ [at[t].key EXCEPT !.hash = source].hash = source
           /\ [at[t].key EXCEPT !.hash = source].prog = at[t].key.prog
           /\ EnterPut(t, [at[t].key EXCEPT !.hash = source])
<1>1. at[t].pc = "lowered" /\ at[t].key \in Key /\ source \in Version
  BY DEF ImportHash, KeyInv, TypeOK
<1>. QED  BY <1>1 DEF ImportHash, Key

\* The steps that keep their key.
LEMMA StepMoves ==
    ASSUME TypeOK, NEW t \in Thread, NEW pc \in Pc, Step(t, pc)
    PROVE  Moves(t, pc, at[t].key) /\ at'[t].written = at[t].written /\ at' \in [Thread -> AtType]
<1>1. at'[t] = [at[t] EXCEPT !.pc = pc] /\ \A u \in Thread \ {t} : at'[u] = at[u]
  BY DEF Step, TypeOK
<1>2. at'[t].pc = pc /\ at'[t].key = at[t].key /\ at'[t].written = at[t].written
  BY <1>1, Places DEF AtType
<1>3. at' \in [Thread -> AtType]
  BY <1>1, Places DEF Step, TypeOK, AtType, Pc
<1>. QED  BY <1>1, <1>2, <1>3 DEF Moves

\* A return leaves the goroutine idle, without a key.
LEMMA ReturnMoves ==
    ASSUME TypeOK, NEW t \in Thread, Return(t)
    PROVE  Moves(t, "idle", NoKey) /\ at' \in [Thread -> AtType]
  BY Places DEF Return, Moves, Idle, TypeOK, AtType, Pc

\* A write adds the next file, or fails on a directory that is gone.
LEMMA WriteMoves ==
    ASSUME TypeOK, KeyInv, NEW t \in Thread, WriteFile(t)
    PROVE  \/ TmpGone(t) /\ Return(t) /\ tmp' = tmp
           \/ /\ ~TmpGone(t) /\ at[t].written \in 0..2 /\ at'[t].written = at[t].written + 1
              /\ tmp' = [tmp EXCEPT ![TmpOf(t)] = @ \cup {WriteOrder[at[t].written + 1]}]
              /\ Moves(t, IF at[t].written = 2 THEN "publish" ELSE "write", at[t].key)
              /\ at' \in [Thread -> AtType]
<1>1. CASE TmpGone(t)
  BY <1>1 DEF WriteFile
<1>2. CASE ~TmpGone(t)
  <2>. DEFINE n == at[t].written + 1
              pc == IF n = 3 THEN "publish" ELSE "write"
  <2>1. at[t].written \in 0..2
    BY Places, Order DEF WriteFile, KeyInv
  <2>2. at' = [at EXCEPT ![t] = [[at[t] EXCEPT !.written = n] EXCEPT !.pc = pc]]
    BY <1>2, Order DEF WriteFile
  <2>3. n \in 0..3 /\ pc \in Pc /\ (n = 3 <=> at[t].written = 2)
    BY <2>1 DEF Pc, Put_pc
  <2>. HIDE DEF n, pc
  <2>4. [[at[t] EXCEPT !.written = n] EXCEPT !.pc = pc] \in AtType
    BY <2>3, Places, Order DEF AtType
  <2>5. /\ at'[t] = [[at[t] EXCEPT !.written = n] EXCEPT !.pc = pc]
        /\ \A u \in Thread \ {t} : at'[u] = at[u] /\ at' \in [Thread -> AtType]
    BY <2>2, <2>4 DEF TypeOK, AtType, Pc
  <2>6. at'[t].pc = pc /\ at'[t].key = at[t].key /\ at'[t].written = n
    BY <2>5, Places DEF AtType
  <2>7. at' \in [Thread -> AtType]
    BY <2>2, <2>4 DEF TypeOK, AtType, Pc
  <2>8. tmp' = [tmp EXCEPT ![TmpOf(t)] = @ \cup {WriteOrder[n]}]
    BY <1>2 DEF WriteFile, n
  <2>. QED  BY <1>2, <2>1, <2>3, <2>5, <2>6, <2>7, <2>8 DEF Moves, n, pc
<1>. QED  BY <1>1, <1>2

\* A removal comes to an end, one way or the other.
RemoveEnds(t) == RemoveDone(t) \/ RemoveFails(t)

\* A step of t moves t as the text of Put and of the imports says; what else it
\* touches is in its definition.
Walks(t) ==
    \/ ImportMiss(t) /\ Moves(t, "lowered", [hash |-> source, prog |-> source])
    \/ \E k \in Key : /\ ImportHash(t) \/ ImportFile(t)
                      /\ Moves(t, "clear", k) /\ at'[t].written = 0
    \/ ClearTmp(t) /\ Moves(t, "write", at[t].key) /\ at'[t].written = at[t].written
    \/ WriteFile(t) /\ Moves(t, "idle", NoKey)
    \/ /\ WriteFile(t) /\ at'[t].written = at[t].written + 1
       /\ \/ at'[t].written = 3 /\ Moves(t, "publish", at[t].key)
          \/ at'[t].written < 3 /\ Moves(t, "write", at[t].key)
    \/ Publish(t) /\ dir[at[t].key] = Missing /\ Moves(t, "rename", at[t].key)
    \/ Publish(t) /\ dir[at[t].key] # Missing /\ Moves(t, "replace", at[t].key)
    \/ RemoveEnds(t) /\ at[t].pc = "replace" /\ Moves(t, "rename", at[t].key)
    \/ RemoveEnds(t) /\ at[t].pc = "remove" /\ Moves(t, "idle", NoKey)
    \/ Rename(t) /\ Moves(t, "idle", NoKey)
    \/ PutFails(t) /\ Moves(t, "idle", NoKey)
    \/ \E k \in Key : RemoveModule(t) /\ dir[k] # Missing /\ Moves(t, "remove", k)

\* Every step of a goroutine is a walk.
LEMMA ThreadWalks ==
    ASSUME TypeOK, KeyInv, NEW t \in Thread,
           \/ ImportMiss(t) \/ ImportHash(t) \/ ImportFile(t) \/ ClearTmp(t) \/ WriteFile(t)
           \/ Publish(t) \/ RemoveEnds(t) \/ Rename(t) \/ PutFails(t) \/ RemoveModule(t)
    PROVE  Walks(t) /\ at' \in [Thread -> AtType]
<1>. USE DEF Walks
<1>0. {"lowered", "remove", "clear", "write", "publish", "replace", "rename"} \subseteq Pc
  BY DEF Pc, Put_pc
<1>1. CASE ImportMiss(t)
  BY <1>1, MissMoves
<1>2. CASE ImportHash(t)
  <2>1. PICK k \in Key : EnterPut(t, k)
    BY <1>2, HashMoves
  <2>2. Moves(t, "clear", k) /\ at'[t].written = 0 /\ at' \in [Thread -> AtType]
    BY <2>1, EnterMoves
  <2>. QED  BY <1>2, <2>2
<1>3. CASE ImportFile(t)
  <2>1. PICK k \in Key : EnterPut(t, k)
    BY <1>3 DEF ImportFile, Key, TypeOK
  <2>2. Moves(t, "clear", k) /\ at'[t].written = 0 /\ at' \in [Thread -> AtType]
    BY <2>1, EnterMoves
  <2>. QED  BY <1>3, <2>2
<1>4. CASE ClearTmp(t)
  <2>1. Step(t, "write")
    BY <1>4 DEF ClearTmp
  <2>. QED  BY <1>0, <1>4, <2>1, StepMoves
<1>5. CASE WriteFile(t)
  <2>1. CASE TmpGone(t) /\ Return(t)
    BY <1>5, <2>1, ReturnMoves
  <2>2. CASE /\ at[t].written \in 0..2 /\ at'[t].written = at[t].written + 1
             /\ Moves(t, IF at[t].written = 2 THEN "publish" ELSE "write", at[t].key)
             /\ at' \in [Thread -> AtType]
    <3>1. CASE at[t].written = 2
      BY <1>5, <2>2, <3>1
    <3>2. CASE at[t].written # 2
      <4>1. at'[t].written < 3 /\ Moves(t, "write", at[t].key)
        BY <2>2, <3>2
      <4>. QED  BY <1>5, <2>2, <4>1
    <3>. QED  BY <3>1, <3>2
  <2>. QED  BY <1>5, <2>1, <2>2, WriteMoves
<1>6. CASE Publish(t)
  <2>1. CASE dir[at[t].key] = Missing
    BY <1>0, <1>6, <2>1, StepMoves DEF Publish
  <2>2. CASE dir[at[t].key] # Missing
    BY <1>0, <1>6, <2>2, StepMoves DEF Publish
  <2>. QED  BY <2>1, <2>2
<1>7. CASE RemoveEnds(t)
  <2>1. CASE at[t].pc = "replace"
    <3>1. Step(t, "rename")
      BY <1>7, <2>1 DEF RemoveEnds, RemoveDone, RemoveFails
    <3>. QED  BY <1>0, <1>7, <2>1, <3>1, StepMoves
  <2>2. CASE at[t].pc # "replace"
    <3>1. at[t].pc = "remove" /\ Return(t)
      BY <1>7, <2>2 DEF RemoveEnds, RemoveDone, RemoveFails
    <3>. QED  BY <1>7, <3>1, ReturnMoves
  <2>. QED  BY <2>1, <2>2
<1>8. CASE Rename(t) \/ PutFails(t)
  BY <1>8, ReturnMoves DEF Rename, PutFails
<1>9. CASE RemoveModule(t)
  <2>1. PICK k \in Key : /\ dir[k] # Missing
                         /\ at' = [at EXCEPT ![t] = [pc |-> "remove", key |-> k, written |-> 0]]
    BY <1>9 DEF RemoveModule
  <2>2. [pc |-> "remove", key |-> k, written |-> 0] \in AtType
    BY <1>0, Places
  <2>3. Moves(t, "remove", k) /\ at' \in [Thread -> AtType]
    BY <2>1, <2>2 DEF Moves, TypeOK, AtType, Pc
  <2>. QED  BY <1>9, <2>1, <2>3
<1>. QED  BY <1>1, <1>2, <1>3, <1>4, <1>5, <1>6, <1>7, <1>8, <1>9

\* The steps of a goroutine that move it.
ThreadMoves(t) ==
    \/ ImportMiss(t) \/ ImportHash(t) \/ ImportFile(t) \/ ClearTmp(t) \/ WriteFile(t)
    \/ Publish(t) \/ RemoveEnds(t) \/ Rename(t) \/ PutFails(t) \/ RemoveModule(t)

\* A step is one of these; the process of a goroutine is fixed.
LEMMA StepIs ==
    ASSUME TypeOK, KeyInv, [Next]_vars
    PROVE  /\ process' = process
           /\ \/ \E t \in Thread : ThreadMoves(t) /\ Walks(t) /\ at' \in [Thread -> AtType]
              \/ /\ at' = at
                 /\ \/ \E t \in Thread : ImportHit(t) \/ RemoveSome(t)
                    \/ Edit \/ UNCHANGED vars
              \/ \E p \in Process : Crash(p)
<1>1. process' = process
  BY DEF Next, vars, ImportHit, ImportMiss, ImportHash, ImportFile, ClearTmp, WriteFile, Publish,
     RemoveSome, RemoveEnds, RemoveDone, RemoveFails, PutFails, Rename, RemoveModule, Edit, Crash
<1>2. ASSUME NEW t \in Thread, ThreadMoves(t)
      PROVE  Walks(t) /\ at' \in [Thread -> AtType]
  BY <1>2, ThreadWalks DEF ThreadMoves
<1>3. ASSUME NEW t \in Thread, ImportHit(t) \/ RemoveSome(t) PROVE at' = at
  BY <1>3 DEF ImportHit, RemoveSome
<1>4. Edit \/ UNCHANGED vars => at' = at
  BY DEF Edit, vars
<1>. QED  BY <1>1, <1>2, <1>3, <1>4 DEF Next, ThreadMoves, RemoveEnds

\* Whoever is at work keeps its key until it returns.
LEMMA KeyStep ==
    ASSUME TypeOK, KeyInv, [Next]_vars
    PROVE  KeyInv'
<1>1. ASSUME NEW t \in Thread, ThreadMoves(t), Walks(t) PROVE KeyInv'
  <2>1. [hash |-> source, prog |-> source] \in Key
    BY DEF TypeOK, Key
  <2>2. at[t].pc # "idle" => at[t].key \in Key
    BY DEF KeyInv
  <2>3. at[t].pc = "clear" => at[t].written = 0
    BY DEF KeyInv
  <2>4. /\ at'[t].pc # "idle" => at'[t].key \in Key
        /\ at'[t].pc = "clear" => at'[t].written = 0
        /\ at'[t].pc = "write" => at'[t].written < 3
    BY <1>1, <2>1, <2>2, <2>3 DEF Walks, Moves, ClearTmp, WriteFile, Publish, RemoveEnds, RemoveDone,
       RemoveFails, PutFails
  <2>5. \A u \in Thread \ {t} : at'[u] = at[u]
    BY <1>1 DEF Walks, Moves
  <2>. QED  BY <2>4, <2>5, Order DEF KeyInv
<1>2. CASE at' = at
  BY <1>2 DEF KeyInv
<1>3. ASSUME NEW p \in Process, Crash(p) PROVE KeyInv'
  BY <1>3 DEF Crash, Idle, KeyInv
<1>. QED  BY <1>1, <1>2, <1>3, StepIs

\* One directory of the store, or one temporary one, is written.
Contents == (SUBSET File) \cup {Missing}

\* Writing a temporary directory keeps the type of all.
LEMMA TmpType ==
    ASSUME TypeOK, NEW x, NEW v \in Contents, tmp' = [tmp EXCEPT ![x] = v]
    PROVE  tmp' \in [Process \X Key -> (SUBSET File) \cup {Missing}]
  BY DEF TypeOK, Contents

\* Writing a directory of the store keeps the type of all.
LEMMA DirType ==
    ASSUME TypeOK, NEW k, NEW v \in Contents, dir' = [dir EXCEPT ![k] = v]
    PROVE  dir' \in [Key -> (SUBSET File) \cup {Missing}]
  BY DEF TypeOK, Contents

\* Every step keeps the types.
LEMMA TypeStep ==
    ASSUME TypeOK, KeyInv, [Next]_vars
    PROVE  TypeOK'
<1>1. at' \in [Thread -> AtType]
  <2>1. ASSUME NEW p \in Process, Crash(p) PROVE at' \in [Thread -> AtType]
    <3>1. \A t \in Thread : at[t] \in AtType /\ Idle \in AtType
      BY Places
    <3>. QED  BY <2>1, <3>1 DEF Crash
  <2>. QED  BY <2>1, StepIs DEF TypeOK, AtType, Pc
<1>2. source' \in Version /\ process' \in [Thread -> Process]
  BY StepIs DEF Next, vars, ImportHit, ImportMiss, ImportHash, ImportFile, ClearTmp, WriteFile, Publish,
     RemoveSome, RemoveEnds, RemoveDone, RemoveFails, PutFails, Rename, RemoveModule, Edit, Crash,
     TypeOK
<1>3. ASSUME NEW t \in Thread, at[t].pc # "idle"
      PROVE  at[t].key \in Key /\ TmpOf(t) \in Process \X Key
  BY <1>3 DEF KeyInv, TmpOf, TypeOK
<1>4. tmp' \in [Process \X Key -> (SUBSET File) \cup {Missing}]
  <2>1. ASSUME NEW t \in Thread, ClearTmp(t) PROVE tmp' \in [Process \X Key -> (SUBSET File) \cup {Missing}]
    BY <2>1 DEF ClearTmp, TypeOK
  <2>2. ASSUME NEW t \in Thread, WriteFile(t) PROVE tmp' \in [Process \X Key -> (SUBSET File) \cup {Missing}]
    <3>1. CASE tmp' = tmp
      BY <3>1 DEF TypeOK
    <3>2. CASE /\ ~TmpGone(t) /\ at[t].written \in 0..2
               /\ tmp' = [tmp EXCEPT ![TmpOf(t)] = @ \cup {WriteOrder[at[t].written + 1]}]
      <4>1. WriteOrder[at[t].written + 1] \in File
        BY <3>2, Order
      <4>2. tmp[TmpOf(t)] \in SUBSET File
        BY <1>3, <2>2, <3>2 DEF WriteFile, TmpGone, TypeOK
      <4>3. tmp[TmpOf(t)] \cup {WriteOrder[at[t].written + 1]} \in SUBSET File
        BY <4>1, <4>2
      <4>. QED  BY <3>2, <4>3, TmpType DEF Contents
    <3>3. \/ tmp' = tmp
          \/ /\ ~TmpGone(t) /\ at[t].written \in 0..2
             /\ tmp' = [tmp EXCEPT ![TmpOf(t)] = @ \cup {WriteOrder[at[t].written + 1]}]
      BY <2>2, WriteMoves
    <3>. QED  BY <3>1, <3>2, <3>3
  <2>3. ASSUME NEW t \in Thread, Rename(t) PROVE tmp' \in [Process \X Key -> (SUBSET File) \cup {Missing}]
    <3>1. tmp' = tmp \/ tmp' = [tmp EXCEPT ![TmpOf(t)] = Missing]
      BY <2>3 DEF Rename
    <3>. QED  BY <3>1, TmpType DEF TypeOK, Contents
  <2>4. CASE tmp' = tmp
    BY <2>4 DEF TypeOK
  <2>5. \/ tmp' = tmp
        \/ \E t \in Thread : ClearTmp(t) \/ WriteFile(t) \/ Rename(t)
    BY DEF Next, vars, ImportHit, ImportMiss, ImportHash, ImportFile, Publish, RemoveSome,
       RemoveEnds, RemoveDone, RemoveFails, PutFails,
       RemoveModule, Edit, Crash
  <2>. QED  BY <2>1, <2>2, <2>3, <2>4, <2>5
<1>5. dir' \in [Key -> (SUBSET File) \cup {Missing}]
  <2>1. ASSUME NEW t \in Thread, RemoveSome(t) \/ RemoveDone(t)
        PROVE  dir' \in [Key -> (SUBSET File) \cup {Missing}]
    <3>1. at[t].key \in Key
      BY <1>3, <2>1 DEF RemoveSome, RemoveDone
    <3>2. CASE RemoveSome(t)
      <4>1. dir[at[t].key] \in SUBSET File
        BY <3>1, <3>2 DEF RemoveSome, TypeOK
      <4>2. PICK f \in dir[at[t].key] : dir' = [dir EXCEPT ![at[t].key] = dir[at[t].key] \ {f}]
        BY <3>2 DEF RemoveSome
      <4>3. dir[at[t].key] \ {f} \in SUBSET File
        BY <4>1
      <4>. QED  BY <4>2, <4>3, DirType DEF Contents
    <3>3. CASE RemoveDone(t)
      <4>1. dir' = [dir EXCEPT ![at[t].key] = Missing]
        BY <3>3 DEF RemoveDone
      <4>. QED  BY <4>1, DirType DEF Contents
    <3>. QED  BY <2>1, <3>2, <3>3
  <2>2. ASSUME NEW t \in Thread, Rename(t) PROVE dir' \in [Key -> (SUBSET File) \cup {Missing}]
    <3>1. tmp[TmpOf(t)] \in (SUBSET File) \cup {Missing}
      BY <1>3, <2>2 DEF Rename, TypeOK
    <3>2. dir' = dir \/ dir' = [dir EXCEPT ![at[t].key] = tmp[TmpOf(t)]]
      BY <2>2 DEF Rename
    <3>. QED  BY <3>1, <3>2, DirType DEF TypeOK, Contents
  <2>. QED
    BY <2>1, <2>2 DEF Next, vars, ImportHit, ImportMiss, ImportHash, ImportFile, ClearTmp, WriteFile,
       Publish, RemoveFails, PutFails, RemoveModule, Edit, Crash, TypeOK
<1>6. writes' \in 0..MaxWrites /\ edits' \in 0..MaxEdits /\ crashes' \in 0..MaxCrashes
  <2>1. /\ writes' = writes \/ (writes < MaxWrites /\ writes' = writes + 1)
        /\ edits' = edits \/ (edits < MaxEdits /\ edits' = edits + 1)
        /\ crashes' = crashes \/ (crashes < MaxCrashes /\ crashes' = crashes + 1)
    BY DEF Next, vars, ImportHit, ImportMiss, ImportHash, ImportFile, ClearTmp, WriteFile, Publish,
       RemoveSome, RemoveEnds, RemoveDone, RemoveFails, PutFails, Rename, RemoveModule, Edit, Crash,
       Begin
  <2>. QED  BY <2>1, ModuleStoreAssumption DEF TypeOK
<1>7. stored' \subseteq Key /\ torn' \subseteq Key /\ raced' \in BOOLEAN /\ stale' \in BOOLEAN
  <2>1. ASSUME NEW t \in Thread, RemoveEnds(t) \/ Rename(t) \/ PutFails(t)
        PROVE  stored' \subseteq Key /\ torn' \subseteq Key
    BY <1>3, <2>1 DEF RemoveEnds, RemoveDone, RemoveFails, PutFails, Rename, TypeOK
  <2>2. raced' \in BOOLEAN /\ stale' \in BOOLEAN
    BY DEF Next, vars, history, ImportHit, ImportMiss, ImportHash, ImportFile, ClearTmp, WriteFile,
       Publish, RemoveSome, RemoveEnds, RemoveDone, RemoveFails, PutFails, Rename, RemoveModule,
       Edit, Crash, TypeOK
  <2>. QED
    BY <2>1, <2>2 DEF Next, vars, history, ImportHit, ImportMiss, ImportHash, ImportFile, ClearTmp,
       WriteFile, Publish, RemoveSome, RemoveEnds, RemoveModule, Edit, Crash, TypeOK
<1>8. collided' \subseteq Key
  <2>1. ASSUME NEW t \in Thread, ImportHash(t) \/ ImportFile(t) PROVE collided' \subseteq Key
    <3>1. PICK k \in Key : EnterPut(t, k)
      BY <2>1, HashMoves DEF ImportFile, Key, TypeOK
    <3>. QED  BY <3>1, EnterMoves DEF TypeOK
  <2>. QED
    BY <2>1 DEF Next, vars, history, ImportHit, ImportMiss, ClearTmp, WriteFile, Publish, RemoveSome,
       RemoveEnds, RemoveDone, RemoveFails, PutFails, Rename, RemoveModule, Edit, Crash, TypeOK
<1>. QED  BY <1>1, <1>2, <1>4, <1>5, <1>6, <1>7, <1>8 DEF TypeOK, AtType, Pc

-----------------------------------------------------------------------------
(* Every step keeps the invariant *)

\* What an import is answered from the store is what its key says it is.
LEMMA StaleStep ==
    ASSUME TypeOK, MixedInv, stale => raced, [Next]_vars
    PROVE  stale' => raced'
<1>1. raced => raced'
  BY DEF Next, vars, history, ImportHit, ImportMiss, ImportHash, ImportFile, ClearTmp, WriteFile,
     Publish, RemoveSome, RemoveEnds, RemoveDone, RemoveFails, PutFails, Rename, RemoveModule, Edit,
     Crash
<1>2. ASSUME NEW t \in Thread, ImportHit(t) PROVE stale' => raced'
  <2>1. SUFFICES ASSUME NEW k \in Key, Matches(k), k.prog # source PROVE raced
    BY <1>1, <1>2 DEF ImportHit
  <2>2. dir[k] # Missing
    BY <2>1 DEF Matches, Missing
  <2>. QED  BY <2>1, <2>2 DEF Matches, MixedInv, Mixed
<1>3. stale' = stale \/ \E t \in Thread : ImportHit(t)
  BY DEF Next, vars, history, ImportMiss, ImportHash, ImportFile, ClearTmp, WriteFile, Publish,
     RemoveSome, RemoveEnds, RemoveDone, RemoveFails, PutFails, Rename, RemoveModule, Edit, Crash
<1>. QED  BY <1>1, <1>2, <1>3

\* A key that mixes two contents is made by ImportHash after an edit, or not at all.
LEMMA MixedStep ==
    ASSUME TypeOK, KeyInv, MixedInv, [Next]_vars
    PROVE  MixedInv'
<1>0. raced => raced'
  BY DEF Next, vars, history, ImportHit, ImportMiss, ImportHash, ImportFile, ClearTmp, WriteFile,
     Publish, RemoveSome, RemoveEnds, RemoveDone, RemoveFails, PutFails, Rename, RemoveModule, Edit,
     Crash
\* A key enters the store by way of a goroutine that puts it.
<1>1. ASSUME NEW k \in Key, Mixed(k), dir'[k] # Missing PROVE raced'
  <2>1. CASE dir[k] # Missing
    BY <1>0, <1>1, <2>1 DEF MixedInv
  <2>2. CASE dir[k] = Missing
    <3>1. PICK t \in Thread : Rename(t) /\ at[t].key = k
      <4>1. ASSUME NEW t \in Thread, RemoveSome(t) \/ RemoveDone(t) PROVE dir'[k] = Missing
        BY <2>2, <4>1 DEF RemoveSome, RemoveDone, TypeOK
      <4>2. ASSUME NEW t \in Thread, Rename(t), at[t].key # k PROVE dir'[k] = dir[k]
        BY <4>2 DEF Rename, TypeOK
      <4>3. ASSUME ~\E t \in Thread : RemoveSome(t) \/ RemoveDone(t) \/ Rename(t) PROVE dir' = dir
        BY <4>3 DEF Next, vars, ImportHit, ImportMiss, ImportHash, ImportFile, ClearTmp, WriteFile,
           Publish, RemoveFails, PutFails, RemoveModule, Edit, Crash
      <4>. QED  BY <1>1, <2>2, <4>1, <4>2, <4>3
    <3>. QED  BY <1>0, <1>1, <3>1 DEF Rename, MixedInv, Put_pc
  <2>. QED  BY <2>1, <2>2
<1>2. ASSUME NEW t \in Thread, at'[t].pc \in Put_pc, Mixed(at[t].key)' PROVE raced'
  <2>1. CASE at'[t] = at[t]
    BY <1>0, <1>2, <2>1 DEF MixedInv, Mixed
  <2>2. CASE ImportHash(t)
    <3>1. /\ at[t].pc = "lowered" /\ EnterPut(t, [at[t].key EXCEPT !.hash = source])
          /\ [at[t].key EXCEPT !.hash = source] \in Key
          /\ [at[t].key EXCEPT !.hash = source].hash = source
          /\ [at[t].key EXCEPT !.hash = source].prog = at[t].key.prog
      BY <2>2, HashMoves
    <3>2. at'[t].key = [at[t].key EXCEPT !.hash = source]
      BY <3>1, EnterMoves DEF Moves
    <3>3. at[t].key.prog # source
      BY <1>2, <3>1, <3>2 DEF Mixed
    <3>. QED  BY <1>0, <3>1, <3>3 DEF MixedInv
  <2>3. CASE ImportFile(t)
    <3>1. [hash |-> source, prog |-> source] \in Key /\ EnterPut(t, [hash |-> source, prog |-> source])
      BY <2>3 DEF ImportFile, Key, TypeOK
    <3>2. at'[t].key = [hash |-> source, prog |-> source]
      BY <3>1, EnterMoves DEF Moves
    <3>. QED  BY <1>2, <3>2 DEF Mixed
  <2>4. CASE /\ at'[t].key = at[t].key /\ at[t].pc \in Put_pc
    BY <1>0, <1>2, <2>4 DEF MixedInv, Mixed
  <2>5. ASSUME NEW u \in Thread, ThreadMoves(u), Walks(u) PROVE raced'
    <3>1. CASE u # t
      BY <2>1, <2>5, <3>1 DEF Walks, Moves
    <3>2. CASE u = t /\ (ClearTmp(t) \/ WriteFile(t) \/ Publish(t) \/ RemoveEnds(t) \/ Rename(t)
                         \/ PutFails(t))
      <4>1. at'[t].key = at[t].key /\ at[t].pc \in Put_pc
        BY <1>2, <2>5, <3>2 DEF Walks, Moves, ClearTmp, WriteFile, Publish, RemoveEnds, RemoveDone,
           RemoveFails, PutFails, Rename, Put_pc,
           ImportMiss, ImportHash, ImportFile, RemoveModule, Begin
      <4>. QED  BY <2>4, <4>1
    <3>3. CASE u = t /\ ImportMiss(t)
      BY <1>2, <3>3, MissMoves DEF Moves, Put_pc
    <3>4. CASE u = t /\ RemoveModule(t)
      BY <1>2, <2>5, <3>4 DEF RemoveModule, Put_pc, TypeOK
    <3>. QED  BY <2>2, <2>3, <2>5, <3>1, <3>2, <3>3, <3>4 DEF ThreadMoves
  <2>6. ASSUME NEW p \in Process, Crash(p) PROVE raced'
    BY <1>2, <2>1, <2>6 DEF Crash, Idle, Put_pc
  <2>. QED  BY <2>1, <2>5, <2>6, StepIs
<1>3. ASSUME NEW t \in Thread, at'[t].pc = "lowered"
      PROVE  (~Mixed(at[t].key))' /\ (at'[t].key.prog # source' => raced')
  <2>1. CASE at'[t] = at[t]
    <3>1. ~Mixed(at[t].key) /\ (at[t].key.prog # source => raced)
      BY <1>3, <2>1 DEF MixedInv
    <3>2. source' = source \/ raced'
      BY <1>3, <2>1 DEF Next, vars, ImportHit, ImportMiss, ImportHash, ImportFile, ClearTmp, WriteFile,
         Publish, RemoveSome, RemoveEnds, RemoveDone, RemoveFails, PutFails, Rename, RemoveModule,
         Edit, Crash
    <3>. QED  BY <1>0, <2>1, <3>1, <3>2 DEF Mixed
  <2>2. CASE ImportMiss(t)
    <3>1. at'[t].key = [hash |-> source, prog |-> source] /\ source' = source
      BY <2>2, MissMoves DEF Moves, ImportMiss
    <3>. QED  BY <3>1 DEF Mixed
  <2>3. ASSUME NEW u \in Thread, ThreadMoves(u), Walks(u)
        PROVE  (~Mixed(at[t].key))' /\ (at'[t].key.prog # source' => raced')
    <3>1. CASE u # t
      BY <2>1, <2>3, <3>1 DEF Walks, Moves
    <3>2. CASE u = t
      BY <1>3, <2>2, <2>3, <3>2 DEF Walks, Moves
    <3>. QED  BY <3>1, <3>2
  <2>4. ASSUME NEW p \in Process, Crash(p) PROVE at'[t] = at[t]
    BY <1>3, <2>4 DEF Crash, Idle
  <2>. QED  BY <2>1, <2>3, <2>4, StepIs
<1>. QED  BY <1>1, <1>2, <1>3 DEF MixedInv

\* A goroutine is putting a key because it was, or because it has just begun.
LEMMA PutStep ==
    ASSUME TypeOK, KeyInv, NEW t \in Thread, ThreadMoves(t), Walks(t), NEW k \in Key, Putting(t, k)'
    PROVE  Putting(t, k) \/ EnterPut(t, k)
<1>1. CASE ImportHash(t)
  <2>1. /\ [at[t].key EXCEPT !.hash = source] \in Key
        /\ EnterPut(t, [at[t].key EXCEPT !.hash = source])
    BY <1>1, HashMoves
  <2>2. at'[t].key = [at[t].key EXCEPT !.hash = source]
    BY <2>1, EnterMoves DEF Moves
  <2>. QED  BY <2>1, <2>2 DEF Putting
<1>2. CASE ImportFile(t)
  <2>1. [hash |-> source, prog |-> source] \in Key /\ EnterPut(t, [hash |-> source, prog |-> source])
    BY <1>2 DEF ImportFile, Key, TypeOK
  <2>2. at'[t].key = [hash |-> source, prog |-> source]
    BY <2>1, EnterMoves DEF Moves
  <2>. QED  BY <2>1, <2>2 DEF Putting
<1>3. CASE ClearTmp(t) \/ WriteFile(t) \/ Publish(t) \/ RemoveEnds(t) \/ Rename(t) \/ PutFails(t)
  BY <1>3 DEF Walks, Moves, ClearTmp, WriteFile, Publish, RemoveEnds, RemoveDone, RemoveFails,
     PutFails, Rename, Putting, Put_pc, ImportMiss,
     ImportHash, ImportFile, RemoveModule, Begin
<1>4. CASE ImportMiss(t)
  BY <1>4, MissMoves DEF Moves, Putting, Put_pc
<1>5. CASE RemoveModule(t)
  BY <1>5 DEF RemoveModule, Putting, Put_pc, TypeOK
<1>. QED  BY <1>1, <1>2, <1>3, <1>4, <1>5 DEF ThreadMoves

\* A collision that was noticed is not forgotten.
LEMMA CollidedGrows ==
    ASSUME TypeOK, KeyInv, [Next]_vars
    PROVE  collided \subseteq collided'
<1>1. ASSUME NEW t \in Thread, ImportHash(t) PROVE collided \subseteq collided'
  <2>1. PICK k \in Key : EnterPut(t, k)
    BY <1>1, HashMoves
  <2>. QED  BY <2>1, EnterMoves
<1>2. ASSUME NEW t \in Thread, ImportFile(t) PROVE collided \subseteq collided'
  <2>1. PICK k \in Key : EnterPut(t, k)
    BY <1>2 DEF ImportFile, Key, TypeOK
  <2>. QED  BY <2>1, EnterMoves
<1>. QED
  BY <1>1, <1>2 DEF Next, vars, history, ImportHit, ImportMiss, ClearTmp, WriteFile, Publish,
     RemoveSome,
     RemoveEnds, RemoveDone, RemoveFails, PutFails, Rename, RemoveModule, Edit, Crash

\* Two goroutines of one process that come to put one key are noticed.
LEMMA CollideStep ==
    ASSUME TypeOK, KeyInv, CollideInv, [Next]_vars
    PROVE  CollideInv'
<1>. SUFFICES ASSUME NEW t \in Thread, NEW u \in Thread, NEW k \in Key, t # u,
                     process[t] = process[u], Putting(t, k)', Putting(u, k)'
              PROVE  k \in collided'
  BY StepIs DEF CollideInv
<1>1. Putting(t, k) /\ Putting(u, k) => k \in collided'
  BY CollidedGrows DEF CollideInv
<1>2. ASSUME NEW w \in Thread, ThreadMoves(w), Walks(w) PROVE k \in collided'
  <2>1. \A v \in Thread \ {w} : Putting(v, k)' => Putting(v, k)
    BY <1>2 DEF Walks, Moves, Putting
  <2>2. Putting(w, k)' => Putting(w, k) \/ EnterPut(w, k)
    BY <1>2, PutStep
  <2>3. CASE w = t
    BY <1>1, <2>1, <2>2, <2>3, EnterMoves
  <2>4. CASE w = u
    BY <1>1, <2>1, <2>2, <2>4, EnterMoves
  <2>. QED  BY <1>1, <2>1, <2>3, <2>4
<1>3. ASSUME at' = at PROVE k \in collided'
  BY <1>1, <1>3 DEF Putting
<1>4. ASSUME NEW p \in Process, Crash(p) PROVE k \in collided'
  <2>1. at'[t] = at[t] /\ at'[u] = at[u]
    BY <1>4 DEF Crash, Idle, Putting, Put_pc
  <2>. QED  BY <1>1, <2>1 DEF Putting
<1>. QED  BY <1>2, <1>3, <1>4, StepIs

\* A temporary directory changes under its writers only.
LEMMA TmpTouched ==
    ASSUME TypeOK, KeyInv, [Next]_vars, NEW x \in Process \X Key, tmp'[x] # tmp[x]
    PROVE  \E w \in Thread : /\ ClearTmp(w) \/ WriteFile(w) \/ Rename(w)
                             /\ at[w].pc \in Put_pc /\ x = TmpOf(w)
<1>1. PICK w \in Thread : ClearTmp(w) \/ WriteFile(w) \/ Rename(w)
  BY DEF Next, vars, ImportHit, ImportMiss, ImportHash, ImportFile, Publish, RemoveSome, RemoveEnds,
     RemoveDone, RemoveFails, PutFails,
     RemoveModule, Edit, Crash
<1>2. at[w].pc \in Put_pc
  BY <1>1 DEF ClearTmp, WriteFile, Rename, Put_pc
<1>3. x = TmpOf(w)
  <2>1. CASE ClearTmp(w) \/ Rename(w)
    BY <2>1 DEF ClearTmp, Rename, TypeOK
  <2>2. CASE WriteFile(w)
    <3>1. \E v : tmp' = [tmp EXCEPT ![TmpOf(w)] = v] \/ tmp' = tmp
      BY <2>2, WriteMoves
    <3>. QED  BY <3>1 DEF TypeOK
  <2>. QED  BY <1>1, <2>1, <2>2
<1>. QED  BY <1>1, <1>2, <1>3

\* Without a collision a temporary directory changes only under its writer.
LEMMA TmpStep ==
    ASSUME TypeOK, KeyInv, CollideInv, TmpInv, [Next]_vars
    PROVE  TmpInv'
<1>. SUFFICES ASSUME NEW t \in Thread, at'[t].key \notin collided',
                     at'[t].pc \in {"write", "publish", "replace", "rename"}
              PROVE  /\ at'[t].pc = "write" => tmp'[TmpOf(t)'] = Written(at'[t].written)
                     /\ at'[t].pc \in {"publish", "replace", "rename"} => tmp'[TmpOf(t)'] = File
  BY DEF TmpInv, Written, WriteOrder, TmpOf
<1>0. collided \subseteq collided' /\ process' = process
  BY CollidedGrows, StepIs
<1>1. CASE at'[t] = at[t]
  <2>1. TmpOf(t)' = TmpOf(t) /\ at[t].key \notin collided /\ at[t].key \in Key /\ at[t].pc \in Put_pc
    BY <1>0, <1>1 DEF TmpOf, KeyInv, Put_pc
  <2>2. TmpOf(t) \in Process \X Key
    BY <2>1 DEF TmpOf, TypeOK
  <2>3. tmp'[TmpOf(t)] = tmp[TmpOf(t)]
    <3>. SUFFICES ASSUME tmp'[TmpOf(t)] # tmp[TmpOf(t)] PROVE FALSE
      OBVIOUS
    <3>1. PICK w \in Thread : /\ ClearTmp(w) \/ WriteFile(w) \/ Rename(w)
                              /\ at[w].pc \in Put_pc /\ TmpOf(t) = TmpOf(w)
      BY <2>2, TmpTouched
    <3>2. process[w] = process[t] /\ at[w].key = at[t].key
      BY <3>1 DEF TmpOf
    <3>3. w = t
      BY <2>1, <3>1, <3>2 DEF CollideInv, Putting
    <3>4. Walks(t)
      BY <3>1, <3>3, ThreadWalks
    <3>. QED  BY <1>1, <3>1, <3>3, <3>4, Order DEF Walks, Moves, ClearTmp, WriteFile, Rename,
         ImportMiss,
                 ImportHash, ImportFile, Publish, RemoveEnds, RemoveDone, RemoveFails, PutFails,
                 RemoveModule, Begin, TypeOK
  <2>. QED  BY <1>1, <2>1, <2>3 DEF TmpInv
<1>2. ASSUME ThreadMoves(t), Walks(t), at'[t] # at[t]
      PROVE  /\ at'[t].pc = "write" => tmp'[TmpOf(t)'] = Written(at'[t].written)
             /\ at'[t].pc \in {"publish", "replace", "rename"} => tmp'[TmpOf(t)'] = File
  <2>0. ASSUME NEW pc, NEW k, Moves(t, pc, k) PROVE at'[t].pc = pc /\ at'[t].key = k
    BY <2>0 DEF Moves
  <2>1. /\ at'[t].key = at[t].key
        /\ \/ ClearTmp(t) \/ WriteFile(t) \/ Publish(t)
           \/ (RemoveEnds(t) /\ at[t].pc = "replace")
    <3>1. ~Moves(t, "idle", NoKey) /\ ~Moves(t, "lowered", [hash |-> source, prog |-> source])
      BY <2>0
    <3>2. \A k \in Key : ~Moves(t, "clear", k) /\ ~Moves(t, "remove", k)
      BY <2>0
    <3>3. \A pc \in Pc : Moves(t, pc, at[t].key) => at'[t].key = at[t].key
      BY <2>0
    <3>4. {"write", "publish", "replace", "rename"} \subseteq Pc
      BY DEF Pc, Put_pc
    <3>. QED  BY <1>2, <3>1, <3>2, <3>3, <3>4 DEF Walks
  <2>2. TmpOf(t)' = TmpOf(t) /\ at[t].key \notin collided /\ at[t].key \in Key
    BY <1>0, <2>1 DEF TmpOf, KeyInv, ClearTmp, WriteFile, Publish, RemoveEnds, RemoveDone,
       RemoveFails, PutFails
  <2>3. TmpOf(t) \in Process \X Key
    BY <2>2 DEF TmpOf, TypeOK
  <2>4. CASE ClearTmp(t)
    <3>1. at'[t].pc = "write" /\ at'[t].written = 0
      BY <2>4, StepMoves DEF ClearTmp, KeyInv, Moves, Pc, Put_pc
    <3>. QED  BY <2>2, <2>3, <2>4, <3>1, Order DEF ClearTmp, TypeOK
  <2>5. CASE WriteFile(t)
    <3>1. ~Return(t)
      BY <2>5, ReturnMoves DEF Moves
    <3>2. /\ at[t].written \in 0..2 /\ at'[t].written = at[t].written + 1
          /\ tmp' = [tmp EXCEPT ![TmpOf(t)] = @ \cup {WriteOrder[at[t].written + 1]}]
          /\ at'[t].pc = IF at[t].written = 2 THEN "publish" ELSE "write"
      BY <2>5, <3>1, WriteMoves DEF Moves
    <3>3. tmp[TmpOf(t)] = Written(at[t].written)
      BY <2>2, <2>5 DEF WriteFile, TmpInv
    <3>4. tmp'[TmpOf(t)] = Written(at[t].written + 1)
      BY <2>3, <3>2, <3>3, Order DEF TypeOK
    <3>. QED  BY <2>2, <3>2, <3>4, Order
  <2>6. CASE Publish(t) \/ (RemoveEnds(t) /\ at[t].pc = "replace")
    <3>1. tmp' = tmp /\ tmp[TmpOf(t)] = File
      BY <2>2, <2>6 DEF Publish, RemoveEnds, RemoveDone, RemoveFails, PutFails, TmpInv
    <3>2. at'[t].pc # "write"
      BY <1>2, <2>6 DEF Walks, Moves, Publish, RemoveEnds, RemoveDone, RemoveFails, PutFails,
         ImportMiss, ImportHash, ImportFile, ClearTmp,
         WriteFile, RemoveModule, Begin
    <3>. QED  BY <2>2, <3>1, <3>2
  <2>. QED  BY <2>1, <2>4, <2>5, <2>6
<1>3. ASSUME NEW w \in Thread, w # t, Walks(w) PROVE at'[t] = at[t]
  BY <1>3 DEF Walks, Moves
<1>4. ASSUME NEW p \in Process, Crash(p) PROVE at'[t] = at[t]
  BY <1>4 DEF Crash, Idle
<1>. QED  BY <1>1, <1>2, <1>3, <1>4, StepIs

\* A step keeps the four ways a name can be in order when it leaves what is in
\* the name alone, and the goroutines that are emptying it or about to rename.
LEMMA WholeKept ==
    ASSUME NEW k \in Key, WholeAt(k), dir'[k] = dir[k], k \in stored' <=> k \in stored,
           k \in torn \cup collided => k \in torn' \cup collided',
           \A u \in Thread : Emptying(u, k) => at'[u] = at[u]
    PROVE  WholeAt(k)'
<1>1. ASSUME NEW u \in Thread, Removing(u, k) PROVE Removing(u, k)'
  BY <1>1 DEF Removing, Emptying
<1>2. ASSUME NEW u \in Thread, Renaming(u, k) PROVE Renaming(u, k)'
  BY <1>2 DEF Renaming, Emptying
<1>. QED  BY <1>1, <1>2 DEF WholeAt

\* A rename puts a whole directory under its name unless two goroutines shared
\* the temporary one, and fails only onto a name that is not empty.
LEMMA RenameWhole ==
    ASSUME TypeOK, KeyInv, CollideInv, TmpInv, WholeInv,
           NEW t \in Thread, Rename(t), NEW k \in Key
    PROVE  WholeAt(k)'
<1>0. /\ at[t].pc = "rename" /\ at[t].key \in Key /\ collided' = collided
      /\ \A u \in Thread \ {t} : at'[u] = at[u]
  BY ReturnMoves DEF Rename, KeyInv, Moves
<1>1. CASE at[t].key # k
  <2>1. /\ dir'[k] = dir[k] /\ (k \in stored' <=> k \in stored) /\ (k \in torn' <=> k \in torn)
    BY <1>1 DEF Rename, TypeOK
  <2>2. \A u \in Thread : Emptying(u, k) => at'[u] = at[u]
    BY <1>0, <1>1 DEF Emptying
  <2>. QED  BY <1>0, <2>1, <2>2, WholeKept DEF WholeInv
<1>2. CASE at[t].key = k /\ k \in collided
  BY <1>0, <1>2 DEF WholeAt
<1>3. CASE at[t].key = k /\ k \notin collided
  <2>1. tmp[TmpOf(t)] = File /\ ~TmpGone(t)
    BY <1>0, <1>3, Files DEF TmpInv, TmpGone
  <2>2. CASE CanRenameTo(k)
    <3>1. dir'[k] = File /\ k \in stored'
      BY <1>3, <2>1, <2>2 DEF Rename, TypeOK
    <3>. QED  BY <3>1 DEF WholeAt
  <2>3. CASE ~CanRenameTo(k)
    <3>1. dir' = dir /\ stored' = stored /\ torn' = torn /\ dir[k] # Missing
      BY <1>3, <2>3 DEF Rename, CanRenameTo
    <3>2. ASSUME NEW u \in Thread, Removing(u, k) PROVE Removing(u, k)'
      BY <1>0, <3>2 DEF Removing
    <3>. QED  BY <1>0, <3>1, <3>2 DEF WholeInv, WholeAt
  <2>. QED  BY <2>2, <2>3
<1>. QED  BY <1>1, <1>2, <1>3

\* Taking a name apart, file by file, breaks no name that anybody relies on.
LEMMA RemoveWhole ==
    ASSUME TypeOK, KeyInv, WholeInv, NEW t \in Thread, RemoveSome(t) \/ RemoveDone(t), NEW k \in Key
    PROVE  WholeAt(k)'
<1>0. at[t].key \in Key /\ at[t].pc \in {"replace", "remove"}
  BY DEF RemoveSome, RemoveDone, KeyInv
<1>1. CASE at[t].key # k
  <2>1. /\ dir'[k] = dir[k] /\ (k \in stored' <=> k \in stored)
        /\ (k \in torn' <=> k \in torn) /\ collided' = collided
    BY <1>1 DEF RemoveSome, RemoveDone, history, TypeOK
  <2>2. \A u \in Thread : Emptying(u, k) => at'[u] = at[u]
    <3>1. CASE RemoveSome(t)
      BY <3>1 DEF RemoveSome
    <3>2. CASE RemoveDone(t)
      BY <1>1, <3>2 DEF RemoveDone, Step, Return, Emptying, TypeOK
    <3>. QED  BY <3>1, <3>2
  <2>. QED  BY <2>1, <2>2, WholeKept DEF WholeInv
<1>2. CASE at[t].key = k /\ RemoveSome(t)
  <2>1. Removing(t, k)'
    BY <1>0, <1>2 DEF Removing, RemoveSome
  <2>. QED  BY <2>1 DEF WholeAt
<1>3. CASE at[t].key = k /\ RemoveDone(t)
  <2>1. dir'[k] = Missing
    BY <1>3 DEF RemoveDone, TypeOK
  <2>2. CASE at[t].pc = "replace"
    <3>1. Step(t, "rename")
      BY <1>3, <2>2 DEF RemoveDone
    <3>2. at'[t].pc = "rename" /\ at'[t].key = at[t].key
      BY <3>1, StepMoves DEF Pc, Put_pc, Moves
    <3>3. Renaming(t, k)'
      BY <1>3, <3>2 DEF Renaming
    <3>. QED  BY <2>1, <3>3 DEF WholeAt
  <2>3. CASE at[t].pc = "remove"
    <3>1. k \notin stored'
      BY <1>3, <2>3 DEF RemoveDone
    <3>. QED  BY <2>1, <3>1 DEF WholeAt
  <2>. QED  BY <1>0, <2>2, <2>3
<1>. QED  BY <1>1, <1>2, <1>3

\* A removal or a rename that fails is what torn remembers, too.
LEMMA FailWhole ==
    ASSUME TypeOK, KeyInv, WholeInv, NEW t \in Thread, RemoveFails(t) \/ PutFails(t), NEW k \in Key
    PROVE  WholeAt(k)'
<1>1. /\ dir' = dir /\ stored' = stored /\ collided' = collided /\ torn \subseteq torn'
      /\ \A u \in Thread \ {t} : at'[u] = at[u]
  BY DEF RemoveFails, PutFails, Step, Return, TypeOK
<1>2. CASE Emptying(t, k)
  <2>1. k \in torn'
    BY <1>2 DEF Emptying, RemoveFails, PutFails
  <2>. QED  BY <2>1 DEF WholeAt
<1>3. CASE ~Emptying(t, k)
  <2>1. \A u \in Thread : Emptying(u, k) => at'[u] = at[u]
    BY <1>1, <1>3
  <2>. QED  BY <1>1, <2>1, WholeKept DEF WholeInv
<1>. QED  BY <1>2, <1>3

\* A death in the middle of emptying a name, or before the rename, is what torn
\* remembers.
LEMMA CrashWhole ==
    ASSUME WholeInv, NEW p \in Process, Crash(p), NEW k \in Key
    PROVE  WholeAt(k)'
<1>1. dir' = dir /\ stored' = stored /\ collided' = collided /\ torn \subseteq torn'
  BY DEF Crash
<1>2. CASE \E u \in Thread : process[u] = p /\ Emptying(u, k)
  <2>1. k \in torn'
    BY <1>2 DEF Crash
  <2>. QED  BY <2>1 DEF WholeAt
<1>3. CASE ~\E u \in Thread : process[u] = p /\ Emptying(u, k)
  <2>1. \A u \in Thread : Emptying(u, k) => at'[u] = at[u]
    BY <1>3 DEF Crash
  <2>. QED  BY <1>1, <2>1, WholeKept DEF WholeInv
<1>. QED  BY <1>2, <1>3

\* Every step keeps every name of the store in order.
LEMMA WholeStep ==
    ASSUME TypeOK, KeyInv, CollideInv, TmpInv, WholeInv, [Next]_vars
    PROVE  WholeInv'
<1>. SUFFICES ASSUME NEW k \in Key PROVE WholeAt(k)'
  BY DEF WholeInv
<1>1. ASSUME dir' = dir, stored' = stored, torn' = torn,
             \A u \in Thread : Emptying(u, k) => at'[u] = at[u]
      PROVE  WholeAt(k)'
  BY <1>1, CollidedGrows, WholeKept DEF WholeInv
<1>2. ASSUME NEW t \in Thread, ThreadMoves(t), Walks(t), ~RemoveEnds(t), ~Rename(t), ~PutFails(t)
      PROVE  WholeAt(k)'
  <2>1. dir' = dir /\ stored' = stored /\ torn' = torn
    BY <1>2 DEF ThreadMoves, history, ImportMiss, ImportHash, ImportFile, ClearTmp, WriteFile,
       Publish, RemoveModule
  <2>2. at[t].pc \in {"idle", "lowered", "clear", "write", "publish"}
    BY <1>2 DEF ThreadMoves, Begin, ImportMiss, ImportHash, ImportFile, ClearTmp, WriteFile, Publish,
       RemoveModule
  <2>3. \A u \in Thread \ {t} : at'[u] = at[u]
    BY <1>2 DEF Walks, Moves
  <2>. QED  BY <1>1, <2>1, <2>2, <2>3 DEF Emptying
<1>3. ASSUME NEW t \in Thread, ImportHit(t) PROVE WholeAt(k)'
  BY <1>1, <1>3 DEF ImportHit
<1>4. CASE Edit \/ UNCHANGED vars
  BY <1>1, <1>4 DEF Edit, vars
<1>. QED  BY <1>2, <1>3, <1>4, StepIs, RenameWhole, RemoveWhole, FailWhole, CrashWhole
     DEF RemoveEnds

-----------------------------------------------------------------------------
(* The theorems *)

\* The store begins empty, with everybody idle.
LEMMA StoreInit == Init => StoreInv
<1>. SUFFICES ASSUME Init PROVE StoreInv
  OBVIOUS
<1>1. TypeOK
  <2>1. Idle \in AtType
    BY Order DEF Idle, AtType, Pc
  <2>2. at \in [Thread -> AtType]
    BY <2>1 DEF Init
  <2>3. /\ dir \in [Key -> (SUBSET File) \cup {Missing}]
        /\ tmp \in [Process \X Key -> (SUBSET File) \cup {Missing}]
    BY DEF Init
  <2>4. writes \in 0..MaxWrites /\ edits \in 0..MaxEdits /\ crashes \in 0..MaxCrashes
    BY ModuleStoreAssumption DEF Init
  <2>. QED  BY <2>2, <2>3, <2>4 DEF Init, TypeOK, AtType, Pc
<1>2. KeyInv /\ MixedInv /\ CollideInv
  BY DEF Init, Idle, KeyInv, MixedInv, CollideInv, Putting, Put_pc
<1>3. TmpInv /\ WholeInv
  BY DEF Init, Idle, TmpInv, WholeInv, WholeAt
<1>. QED  BY <1>1, <1>2, <1>3 DEF Init, StoreInv

\* The parts of the invariant are kept together.
LEMMA StoreStep == StoreInv /\ [Next]_vars => StoreInv'
  BY TypeStep, KeyStep, StaleStep, MixedStep, CollideStep, TmpStep, WholeStep DEF StoreInv

\* Whatever the goroutines, processes, edits and deaths: the keys, the temporary
\* directories and the names of the store stand in the relations of StoreInv
\* after every step of Put, RemoveModule and the imports.
THEOREM StoreIsInvariant == Spec => []StoreInv
  BY StoreInit, StoreStep, PTL DEF Spec

\* Every variable of the store keeps its type: in particular a directory never
\* holds anything but the three files of a module.
THEOREM StoreTypes == Spec => []TypeOK
<1>1. StoreInv => TypeOK
  BY DEF StoreInv
<1>. QED  BY <1>1, StoreIsInvariant, PTL

\* For any number of processes and goroutines, modules/<key> is whole after a
\* Put that returned nil and gone after a RemoveModule, with the exceptions the
\* property names and no other.
THEOREM StoreNamesAreWhole == Spec => []StoreIsWhole
<1>1. StoreInv => StoreIsWhole
  BY DEF StoreInv, WholeInv, WholeAt, StoreIsWhole, Removing, Renaming, Emptying
<1>. QED  BY <1>1, StoreIsInvariant, PTL

\* openDirectoryCache answers with old contents only when the source was edited
\* between the lowering of its files and the second reading for SourceHash.
THEOREM StaleAnswersNeedARace == Spec => []StaleNeedsRacingEdit
<1>1. StoreInv => StaleNeedsRacingEdit
  BY DEF StoreInv, StaleNeedsRacingEdit
<1>. QED  BY <1>1, StoreIsInvariant, PTL
=============================================================================
