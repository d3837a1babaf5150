-------------------------- MODULE ProjectCacheProofs --------------------------
(****************************************************************************)
(* Theorems about ProjectCache, for every number of units, compilations,    *)
(* contents, edits and deaths.                                              *)
(****************************************************************************)
EXTENDS ProjectCache, TLAPS

-----------------------------------------------------------------------------
(* The inductive invariant *)

Stages == {"idle", "load", "summarise", "save", "fragments"}
Table  == [Unit -> Maybe]
Record == [pc : Stages, next : 1..(UnitCount + 1), root : Table, body : Table, fragment : Table]

CacheTypes ==
    /\ source \in [Unit -> Content]
    /\ stamp \in [Unit -> Stamp] /\ \A u \in Unit : stamp[u] <= edits
    /\ summaries \in [Unit \X Stamp -> Maybe]
    /\ fragments \in [Keys -> Maybe]
    /\ build \in [Build -> Record]
    /\ builds \in 0..MaxBuilds /\ crashes \in 0..MaxCrashes /\ edits \in 0..MaxEdits
    /\ racedStamps \subseteq Unit \X Stamp /\ racedContent \subseteq Unit \X Content

\* Which parts of its tables a compilation has filled at each stage.
StageOf(b) ==
    /\ build[b].pc # "fragments" => build[b].next \in Unit
    /\ build[b].pc = "idle" => \A u \in Unit : build[b].root[u] = Absent
    /\ build[b].pc = "summarise" => \A u \in Unit : u < build[b].next => build[b].root[u] # Absent
    /\ build[b].pc \in {"save", "fragments"} => \A u \in Unit : build[b].root[u] # Absent
    /\ build[b].pc # "fragments" => \A u \in Unit : build[b].body[u] = Absent /\ build[b].fragment[u] = Absent
StageInv == \A b \in Build : StageOf(b)

\* A root that may be stated for a unit: that of its contents, or one that an edit
\* during some compilation has replaced.
Stated(u, root) ==
    \/ root = Absent
    \/ root = source[u]
    \/ <<u, stamp[u]>> \in racedStamps /\ <<u, root>> \in racedContent

\* What may be compiled under a root: contents that have it, or any if the contents
\* that had it were replaced during some compilation.
Derived(u, root, content) == content = Absent \/ content = root \/ <<u, root>> \in racedContent

RootInv == \A b \in Build : \A u \in Unit : Stated(u, build[b].root[u])
SummaryInv ==
    /\ \A u \in Unit : Stated(u, summaries[<<u, stamp[u]>>])
    /\ \A u \in Unit : \A s \in Stamp : s > stamp[u] => summaries[<<u, s>>] = Absent
BodyInv ==
    /\ \A b \in Build : \A u \in Unit :
          /\ Derived(u, build[b].root[u], build[b].body[u])
          /\ Derived(u, build[b].root[u], build[b].fragment[u])
    /\ \A u \in Unit : \A root \in [Unit -> Content] : Derived(u, root[u], fragments[<<u, root>>])

CacheInv == CacheTypes /\ StageInv /\ RootInv /\ SummaryInv /\ BodyInv

-----------------------------------------------------------------------------
(* What a step makes of a compilation *)

Becomes(b, pc, next, root, body, fragment) ==
    /\ build' \in [Build -> Record]
    /\ \A c \in Build \ {b} : build'[c] = build[c]
    /\ build'[b].pc = pc /\ build'[b].next = next
    /\ build'[b].root = root /\ build'[b].body = body /\ build'[b].fragment = fragment

\* Replacing the record of one compilation by another.
LEMMA RecordBecomes ==
    ASSUME CacheTypes, NEW b \in Build, NEW r \in Record, build' = [build EXCEPT ![b] = r]
    PROVE  Becomes(b, r.pc, r.next, r.root, r.body, r.fragment)
BY DEF CacheTypes, Becomes

\* The empty tables of a compilation that has not begun.
LEMMA IdleIs ==
    /\ Idle \in Record /\ Idle.pc = "idle" /\ Idle.next = 1 /\ 1 \in Unit
    /\ [Idle EXCEPT !.pc = "load"] \in Record
    /\ \A u \in Unit : Idle.root[u] = Absent /\ Idle.body[u] = Absent /\ Idle.fragment[u] = Absent
<1>1. 1 \in Unit /\ 1 \in 1..(UnitCount + 1)
  BY ProjectCacheAssumption DEF Unit
<1>2. [u \in Unit |-> Absent] \in Table
  BY DEF Table, Maybe
<1>. QED  BY <1>1, <1>2 DEF Idle, Record, Stages

\* One turn of a loop over the units.
LEMMA TurnIs ==
    ASSUME CacheTypes, NEW b \in Build, NEW r \in Record, r.next \in Unit, NEW stage \in Stages, Turn(b, r, stage)
    PROVE  \/ /\ r.next < UnitCount
              /\ Becomes(b, r.pc, r.next + 1, r.root, r.body, r.fragment)
           \/ /\ r.next = UnitCount
              /\ Becomes(b, stage, 1, r.root, r.body, r.fragment)
<1>0. UnitCount \in Nat \ {0} /\ r.next \in 1..UnitCount
  BY ProjectCacheAssumption DEF Unit
<1>1. CASE r.next < UnitCount
  <2>1. r.next + 1 \in 1..(UnitCount + 1)
    BY <1>0, <1>1
  <2>. DEFINE n == [r EXCEPT !.next = @ + 1]
  <2>2. /\ n \in Record /\ n.pc = r.pc /\ n.next = r.next + 1
        /\ n.root = r.root /\ n.body = r.body /\ n.fragment = r.fragment
    BY <2>1 DEF Record
  <2>3. build' = [build EXCEPT ![b] = n]
    BY <1>1 DEF Turn
  <2>. HIDE DEF n
  <2>. QED  BY <1>1, <2>2, <2>3, RecordBecomes
<1>2. CASE ~(r.next < UnitCount)
  <2>1. r.next = UnitCount /\ 1 \in 1..(UnitCount + 1)
    BY <1>0, <1>2
  <2>. DEFINE n == [r EXCEPT !.next = 1, !.pc = stage]
  <2>2. /\ n \in Record /\ n.pc = stage /\ n.next = 1
        /\ n.root = r.root /\ n.body = r.body /\ n.fragment = r.fragment
    BY <2>1 DEF Record
  <2>3. build' = [build EXCEPT ![b] = n]
    BY <1>2 DEF Turn
  <2>. HIDE DEF n
  <2>. QED  BY <2>1, <2>2, <2>3, RecordBecomes
<1>. QED  BY <1>1, <1>2

\* The same with one root replaced.
LEMMA RootTurnIs ==
    ASSUME CacheTypes, NEW b \in Build, build[b].next \in Unit, NEW x \in Maybe, NEW stage \in Stages,
           Turn(b, [build[b] EXCEPT !.root[build[b].next] = x], stage)
    PROVE  LET root == [build[b].root EXCEPT ![build[b].next] = x] IN
           /\ root \in Table
           /\ \/ /\ build[b].next < UnitCount
                 /\ Becomes(b, build[b].pc, build[b].next + 1, root, build[b].body, build[b].fragment)
              \/ /\ build[b].next = UnitCount
                 /\ Becomes(b, stage, 1, root, build[b].body, build[b].fragment)
<1>. DEFINE root == [build[b].root EXCEPT ![build[b].next] = x]
            r    == [build[b] EXCEPT !.root[build[b].next] = x]
<1>1. build[b] \in Record
  BY DEF CacheTypes
<1>2. root \in Table
  BY <1>1 DEF Record, Table
<1>3. r = [build[b] EXCEPT !.root = root]
  BY <1>1 DEF Record
<1>. HIDE DEF root
<1>4. /\ r \in Record /\ r.pc = build[b].pc /\ r.next = build[b].next /\ r.root = root
      /\ r.body = build[b].body /\ r.fragment = build[b].fragment
  BY <1>1, <1>2, <1>3 DEF Record
<1>5. Turn(b, r, stage)
  OBVIOUS
<1>. HIDE DEF r
<1>6. \/ /\ r.next < UnitCount
         /\ Becomes(b, r.pc, r.next + 1, r.root, r.body, r.fragment)
      \/ /\ r.next = UnitCount
         /\ Becomes(b, stage, 1, r.root, r.body, r.fragment)
  BY <1>4, <1>5, TurnIs
<1>7. \/ /\ build[b].next < UnitCount
         /\ Becomes(b, build[b].pc, build[b].next + 1, root, build[b].body, build[b].fragment)
      \/ /\ build[b].next = UnitCount
         /\ Becomes(b, stage, 1, root, build[b].body, build[b].fragment)
  BY <1>4, <1>6
<1>. QED  BY <1>2, <1>7 DEF root

\* The step of a compilation: what it writes, and where it gets to.
LEMMA LoadSummaryIs ==
    ASSUME CacheTypes, StageInv, NEW b \in Build, LoadSummary(b)
    PROVE  LET u    == build[b].next
               x    == summaries[<<u, stamp[u]>>]
               root == [build[b].root EXCEPT ![u] = x]
           IN  /\ u \in Unit /\ x \in Maybe /\ root \in Table /\ build[b].pc = "load"
               /\ \/ Becomes(b, "load", u + 1, root, build[b].body, build[b].fragment) /\ u < UnitCount
                  \/ /\ u = UnitCount /\ \A v \in Unit : root[v] # Absent
                     /\ Becomes(b, "fragments", 1, root, build[b].body, build[b].fragment)
                  \/ Becomes(b, "summarise", 1, root, build[b].body, build[b].fragment) /\ u = UnitCount
<1>. DEFINE u == build[b].next
            x == summaries[<<u, stamp[u]>>]
            r == [build[b] EXCEPT !.root[u] = x]
            stage == IF AllCached(r.root) THEN "fragments" ELSE "summarise"
            root == [build[b].root EXCEPT ![u] = x]
<1>1. build[b].pc = "load" /\ u \in Unit /\ build[b] \in Record
  BY DEF LoadSummary, At, StageInv, StageOf, CacheTypes
<1>2. x \in Maybe
  BY <1>1 DEF CacheTypes
<1>3. stage \in Stages
  BY DEF Stages
<1>4. Turn(b, r, stage)
  BY DEF LoadSummary, SummaryKey
<1>5. r.root = root
  BY <1>1 DEF Record
<1>6. stage = "fragments" => \A v \in Unit : root[v] # Absent
  BY <1>5 DEF AllCached
<1>7. stage \in {"fragments", "summarise"}
  OBVIOUS
<1>8. /\ root \in Table
      /\ \/ u < UnitCount /\ Becomes(b, build[b].pc, u + 1, root, build[b].body, build[b].fragment)
         \/ u = UnitCount /\ Becomes(b, stage, 1, root, build[b].body, build[b].fragment)
  <2>. HIDE DEF stage, x
  <2>. QED  BY <1>1, <1>2, <1>3, <1>4, RootTurnIs
<1>. HIDE DEF stage, r
<1>. QED  BY <1>1, <1>2, <1>6, <1>7, <1>8

\* Summarise states the root of a unit that has none, and goes to the next.
LEMMA SummariseIs ==
    ASSUME CacheTypes, StageInv, NEW b \in Build, Summarise(b)
    PROVE  LET u    == build[b].next
               x    == IF build[b].root[u] # Absent THEN build[b].root[u] ELSE source[u]
               root == [build[b].root EXCEPT ![u] = x]
           IN  /\ u \in Unit /\ x \in Content /\ root \in Table /\ build[b].pc = "summarise"
               /\ \/ Becomes(b, "summarise", u + 1, root, build[b].body, build[b].fragment) /\ u < UnitCount
                  \/ Becomes(b, "save", 1, root, build[b].body, build[b].fragment) /\ u = UnitCount
<1>. DEFINE u == build[b].next
            x == IF build[b].root[u] # Absent THEN build[b].root[u] ELSE source[u]
            root == [build[b].root EXCEPT ![u] = x]
<1>1. build[b].pc = "summarise" /\ u \in Unit /\ build[b] \in Record
  BY DEF Summarise, At, StageInv, StageOf, CacheTypes
<1>2. x \in Content
  BY <1>1 DEF CacheTypes, Record, Table, Maybe
<1>3. "save" \in Stages /\ x \in Maybe
  BY <1>2 DEF Stages, Maybe
<1>4. CASE build[b].root[u] # Absent
  <2>1. root = build[b].root
    BY <1>1, <1>4 DEF Record, Table
  <2>2. Turn(b, build[b], "save")
    BY <1>4 DEF Summarise
  <2>3. \/ Becomes(b, "summarise", u + 1, build[b].root, build[b].body, build[b].fragment) /\ u < UnitCount
        \/ Becomes(b, "save", 1, build[b].root, build[b].body, build[b].fragment) /\ u = UnitCount
    BY <1>1, <1>3, <2>2, TurnIs
  <2>4. build[b].root \in Table
    BY <1>1 DEF Record
  <2>. HIDE DEF root, x
  <2>5. /\ root \in Table
        /\ \/ Becomes(b, "summarise", u + 1, root, build[b].body, build[b].fragment) /\ u < UnitCount
           \/ Becomes(b, "save", 1, root, build[b].body, build[b].fragment) /\ u = UnitCount
    BY <2>1, <2>3, <2>4
  <2>. QED  BY <1>1, <1>2, <2>5 DEF root, x
<1>5. CASE build[b].root[u] = Absent
  <2>1. x = source[u]
    BY <1>5
  <2>2. Turn(b, [build[b] EXCEPT !.root[u] = x], "save")
    BY <1>5, <2>1 DEF Summarise
  <2>. HIDE DEF x
  <2>3. /\ root \in Table
        /\ \/ u < UnitCount /\ Becomes(b, build[b].pc, u + 1, root, build[b].body, build[b].fragment)
           \/ u = UnitCount /\ Becomes(b, "save", 1, root, build[b].body, build[b].fragment)
    BY <1>1, <1>3, <2>2, RootTurnIs
  <2>. QED  BY <1>1, <1>2, <2>3 DEF x
<1>. QED  BY <1>4, <1>5

\* SaveSummary writes the stated root under the present stamp.
LEMMA SaveSummaryIs ==
    ASSUME CacheTypes, StageInv, NEW b \in Build, SaveSummary(b)
    PROVE  LET u == build[b].next IN
           /\ u \in Unit /\ build[b].pc = "save" /\ build[b].root \in Table
           /\ summaries' = [summaries EXCEPT ![<<u, stamp[u]>>] = build[b].root[u]]
           /\ \/ Becomes(b, "save", u + 1, build[b].root, build[b].body, build[b].fragment) /\ u < UnitCount
              \/ Becomes(b, "fragments", 1, build[b].root, build[b].body, build[b].fragment) /\ u = UnitCount
<1>1. build[b].pc = "save" /\ build[b].next \in Unit /\ build[b] \in Record
  BY DEF SaveSummary, At, StageInv, StageOf, CacheTypes
<1>2. "fragments" \in Stages /\ Turn(b, build[b], "fragments") /\ build[b].root \in Table
  BY <1>1 DEF Stages, SaveSummary, Record
<1>3. summaries' = [summaries EXCEPT ![<<build[b].next, stamp[build[b].next]>>] = build[b].root[build[b].next]]
  BY DEF SaveSummary, SummaryKey
<1>. QED  BY <1>1, <1>2, <1>3, TurnIs

\* LoadFragment takes a record, or the contents to compile.
LEMMA LoadFragmentIs ==
    ASSUME CacheTypes, StageInv, NEW b \in Build, LoadFragment(b)
    PROVE  LET u == build[b].next
               x == fragments[<<u, build[b].root>>]
           IN  /\ u \in Unit /\ build[b].pc = "fragments"
               /\ build[b].root \in [Unit -> Content] /\ x \in Maybe
               /\ \/ /\ x # Absent
                     /\ Becomes(b, "fragments", u + 1, build[b].root, build[b].body,
                                [build[b].fragment EXCEPT ![u] = x])
                  \/ Becomes(b, "fragments", u + 1, build[b].root,
                             [build[b].body EXCEPT ![u] = source[u]], build[b].fragment)
<1>. DEFINE u == build[b].next
            x == fragments[<<u, build[b].root>>]
            bs == [build[b].body EXCEPT ![u] = source[u]]
            fs == [build[b].fragment EXCEPT ![u] = x]
<1>1. build[b].pc = "fragments" /\ build[b] \in Record
  BY DEF LoadFragment, At, CacheTypes
<1>2. u \in Unit /\ u + 1 \in 1..(UnitCount + 1)
  BY <1>1, ProjectCacheAssumption DEF LoadFragment, More, Unit, Record
<1>3. build[b].root \in [Unit -> Content]
  BY <1>1 DEF StageInv, StageOf, Record, Table, Maybe
<1>4. x \in Maybe
  BY <1>2, <1>3 DEF CacheTypes, Keys
<1>5. bs \in Table /\ fs \in Table
  <2>1. source[u] \in Maybe
    BY <1>2 DEF CacheTypes, Maybe
  <2>. HIDE DEF x
  <2>. QED  BY <1>1, <1>4, <2>1 DEF Record, Table
<1>6. CASE x # Absent
  <2>. DEFINE r == [build[b] EXCEPT !.next = u + 1, !.fragment[u] = x]
  <2>1. build' = [build EXCEPT ![b] = r]
    BY <1>6 DEF LoadFragment, FragmentKey, CacheTypes
  <2>2. r = [build[b] EXCEPT !.next = u + 1, !.fragment = fs]
    BY <1>1 DEF Record
  <2>. HIDE DEF fs, x
  <2>3. /\ r \in Record /\ r.pc = "fragments" /\ r.next = u + 1 /\ r.root = build[b].root
        /\ r.body = build[b].body /\ r.fragment = fs
    BY <1>1, <1>2, <1>5, <2>2 DEF Record
  <2>. HIDE DEF r
  <2>4. Becomes(b, "fragments", u + 1, build[b].root, build[b].body, fs)
    BY <2>1, <2>3, RecordBecomes
  <2>. QED  BY <1>1, <1>2, <1>3, <1>4, <1>6, <2>4 DEF fs, x
<1>7. CASE x = Absent
  <2>. DEFINE r == [build[b] EXCEPT !.next = u + 1, !.body[u] = source[u]]
  <2>1. build' = [build EXCEPT ![b] = r]
    BY <1>7 DEF LoadFragment, FragmentKey, CacheTypes
  <2>2. r = [build[b] EXCEPT !.next = u + 1, !.body = bs]
    BY <1>1 DEF Record
  <2>. HIDE DEF bs, x
  <2>3. /\ r \in Record /\ r.pc = "fragments" /\ r.next = u + 1 /\ r.root = build[b].root
        /\ r.body = bs /\ r.fragment = build[b].fragment
    BY <1>1, <1>2, <1>5, <2>2 DEF Record
  <2>. HIDE DEF r
  <2>4. Becomes(b, "fragments", u + 1, build[b].root, bs, build[b].fragment)
    BY <2>1, <2>3, RecordBecomes
  <2>. QED  BY <1>1, <1>2, <1>3, <1>4, <1>7, <2>4 DEF bs, x
<1>. QED  BY <1>6, <1>7

\* Compile turns waiting contents into a fragment, and leaves that record or none.
LEMMA CompileIs ==
    ASSUME CacheTypes, StageInv, NEW b \in Build, Compile(b)
    PROVE  \E u \in Unit :
              /\ build[b].pc = "fragments" /\ build[b].body[u] \in Content /\ build[b].root \in [Unit -> Content]
              /\ Becomes(b, "fragments", build[b].next, build[b].root, [build[b].body EXCEPT ![u] = Absent],
                         [build[b].fragment EXCEPT ![u] = build[b].body[u]])
              /\ \E x \in {Absent, build[b].body[u]} :
                    fragments' = [fragments EXCEPT ![<<u, build[b].root>>] = x]
<1>1. PICK u \in Unit :
          /\ build[b].body[u] # Absent
          /\ build' = [build EXCEPT ![b].body[u] = Absent, ![b].fragment[u] = build[b].body[u]]
          /\ \/ fragments' = [fragments EXCEPT ![FragmentKey(b, u)] = build[b].body[u]]
             \/ fragments' = [fragments EXCEPT ![FragmentKey(b, u)] = Absent]
  BY DEF Compile
<1>2. build[b].pc = "fragments" /\ build[b] \in Record
  BY DEF Compile, At, CacheTypes
<1>3. build[b].root \in [Unit -> Content] /\ build[b].body[u] \in Content
  BY <1>1, <1>2 DEF StageInv, StageOf, Record, Table, Maybe
<1>. DEFINE x  == build[b].body[u]
            bs == [build[b].body EXCEPT ![u] = Absent]
            fs == [build[b].fragment EXCEPT ![u] = x]
            r  == [build[b] EXCEPT !.body[u] = Absent, !.fragment[u] = x]
<1>4. bs \in Table /\ fs \in Table
  BY <1>2, <1>3 DEF Record, Table, Maybe
<1>5. build' = [build EXCEPT ![b] = r]
  BY <1>1, <1>2 DEF CacheTypes, Record
<1>6. r = [build[b] EXCEPT !.body = bs, !.fragment = fs]
  BY <1>2 DEF Record
<1>. HIDE DEF bs, fs
<1>7. /\ r \in Record /\ r.pc = "fragments" /\ r.next = build[b].next /\ r.root = build[b].root
      /\ r.body = bs /\ r.fragment = fs
  BY <1>2, <1>4, <1>6 DEF Record
<1>. HIDE DEF r
<1>8. Becomes(b, "fragments", build[b].next, build[b].root, bs, fs)
  BY <1>5, <1>7, RecordBecomes
<1>. QED  BY <1>1, <1>2, <1>3, <1>8 DEF bs, fs, FragmentKey

\* A compilation begins or ends with empty tables.
LEMMA StartIs ==
    ASSUME CacheTypes, NEW b \in Build, Start(b) \/ Link(b) \/ Crash(b)
    PROVE  \E pc \in {"idle", "load"} : Becomes(b, pc, 1, Idle.root, Idle.body, Idle.fragment)
<1>1. CASE Start(b)
  <2>. DEFINE r == [Idle EXCEPT !.pc = "load"]
  <2>1. /\ r \in Record /\ r.pc = "load" /\ r.next = 1 /\ r.root = Idle.root /\ r.body = Idle.body
        /\ r.fragment = Idle.fragment
    BY IdleIs DEF Record, Idle
  <2>2. build' = [build EXCEPT ![b] = r]
    BY <1>1 DEF Start
  <2>. HIDE DEF r
  <2>. QED  BY <2>1, <2>2, RecordBecomes
<1>2. CASE Link(b) \/ Crash(b)
  <2>1. build' = [build EXCEPT ![b] = Idle]
    BY <1>2 DEF Link, Crash, Ends
  <2>2. Becomes(b, Idle.pc, Idle.next, Idle.root, Idle.body, Idle.fragment)
    BY <2>1, IdleIs, RecordBecomes
  <2>. QED  BY <2>2, IdleIs
<1>. QED  BY <1>1, <1>2

-----------------------------------------------------------------------------
(* Every step keeps the invariant *)

Moves(b) == \/ Start(b) \/ LoadSummary(b) \/ Summarise(b) \/ SaveSummary(b)
            \/ LoadFragment(b) \/ Compile(b) \/ Link(b) \/ Crash(b)
Quiet == UNCHANGED <<source, stamp, edits, racedStamps, racedContent>>

\* A compilation edits nothing, and only two of its steps write records.
LEMMA Steps ==
    ASSUME [Next]_vars
    PROVE  \/ \E b \in Build : /\ Moves(b) /\ Quiet
                               /\ summaries' = summaries \/ SaveSummary(b)
                               /\ fragments' = fragments \/ Compile(b)
           \/ \E u \in Unit : Edit(u)
           \/ UNCHANGED vars
<1>1. ASSUME NEW b \in Build, Moves(b)
      PROVE  Quiet /\ (summaries' = summaries \/ SaveSummary(b)) /\ (fragments' = fragments \/ Compile(b))
  BY <1>1 DEF Moves, Start, LoadSummary, Summarise, SaveSummary, LoadFragment, Compile, Link, Crash, Quiet,
              disk, history
<1>. QED  BY <1>1 DEF Next, Moves

\* A step of one compilation leaves the others where they are.
LEMMA MovesOne ==
    ASSUME CacheTypes, StageInv, NEW b \in Build, Moves(b)
    PROVE  /\ build' \in [Build -> Record]
           /\ \A c \in Build \ {b} : build'[c] = build[c]
<1>1. CASE Start(b) \/ Link(b) \/ Crash(b)
  BY <1>1, StartIs DEF Becomes
<1>2. CASE LoadSummary(b)
  BY <1>2, LoadSummaryIs DEF Becomes
<1>3. CASE Summarise(b)
  BY <1>3, SummariseIs DEF Becomes
<1>4. CASE SaveSummary(b)
  BY <1>4, SaveSummaryIs DEF Becomes
<1>5. CASE LoadFragment(b)
  BY <1>5, LoadFragmentIs DEF Becomes
<1>6. CASE Compile(b)
  BY <1>6, CompileIs DEF Becomes
<1>. QED  BY <1>1, <1>2, <1>3, <1>4, <1>5, <1>6 DEF Moves

\* An edit gives the unit a new stamp and new contents; if a compilation is running,
\* the new stamp and the old contents are noted.
LEMMA EditIs ==
    ASSUME CacheTypes, NEW u \in Unit, Edit(u)
    PROVE  /\ build' = build /\ summaries' = summaries /\ fragments' = fragments
           /\ builds' = builds /\ crashes' = crashes
           /\ edits < MaxEdits /\ edits' = edits + 1
           /\ stamp' \in [Unit -> Stamp] /\ stamp'[u] = stamp[u] + 1
           /\ source' \in [Unit -> Content]
           /\ \A v \in Unit \ {u} : stamp'[v] = stamp[v] /\ source'[v] = source[v]
           /\ racedStamps \subseteq racedStamps' /\ racedContent \subseteq racedContent'
           /\ racedStamps' \subseteq Unit \X Stamp /\ racedContent' \subseteq Unit \X Content
           /\ (\E b \in Build : Active(b)) =>
                 <<u, stamp'[u]>> \in racedStamps' /\ <<u, source[u]>> \in racedContent'
<1>0. /\ build' = build /\ summaries' = summaries /\ fragments' = fragments
      /\ builds' = builds /\ crashes' = crashes /\ edits < MaxEdits /\ edits' = edits + 1
      /\ stamp' = [stamp EXCEPT ![u] = @ + 1]
  BY DEF Edit, disk
<1>1. stamp[u] + 1 \in Stamp
  <2>1. MaxEdits \in Nat /\ stamp[u] \in Nat /\ stamp[u] <= edits /\ edits \in Nat /\ edits < MaxEdits
    BY <1>0, ProjectCacheAssumption DEF CacheTypes, Stamp
  <2>. QED  BY <2>1 DEF Stamp
<1>2. /\ stamp' \in [Unit -> Stamp] /\ stamp'[u] = stamp[u] + 1
      /\ \A v \in Unit \ {u} : stamp'[v] = stamp[v]
  BY <1>0, <1>1 DEF CacheTypes
<1>3. source' \in [Unit -> Content] /\ \A v \in Unit \ {u} : source'[v] = source[v]
  BY DEF Edit, CacheTypes
<1>4. CASE \E b \in Build : Active(b)
  <2>1. /\ racedStamps' = racedStamps \cup {<<u, stamp'[u]>>}
        /\ racedContent' = racedContent \cup {<<u, source[u]>>}
    BY <1>4 DEF Edit
  <2>2. <<u, stamp'[u]>> \in Unit \X Stamp /\ <<u, source[u]>> \in Unit \X Content
    BY <1>1, <1>2 DEF CacheTypes
  <2>. QED  BY <1>0, <1>2, <1>3, <2>1, <2>2 DEF CacheTypes
<1>5. CASE ~(\E b \in Build : Active(b))
  BY <1>0, <1>2, <1>3, <1>5 DEF Edit, CacheTypes
<1>. QED  BY <1>4, <1>5

\* Every step keeps the types.
LEMMA TypesStep ==
    ASSUME CacheTypes, StageInv, [Next]_vars
    PROVE  CacheTypes'
<1>1. ASSUME NEW b \in Build, Moves(b), Quiet,
             summaries' = summaries \/ SaveSummary(b), fragments' = fragments \/ Compile(b)
      PROVE  CacheTypes'
  <2>1. build' \in [Build -> Record]
    BY <1>1, MovesOne
  <2>2. summaries' \in [Unit \X Stamp -> Maybe]
    <3>1. CASE SaveSummary(b)
      BY <3>1, SaveSummaryIs DEF CacheTypes, Table
    <3>. QED  BY <1>1, <3>1 DEF CacheTypes
  <2>3. fragments' \in [Keys -> Maybe]
    <3>1. CASE Compile(b)
      <4>1. PICK u \in Unit :
                /\ build[b].body[u] \in Content
                /\ \E x \in {Absent, build[b].body[u]} :
                      fragments' = [fragments EXCEPT ![<<u, build[b].root>>] = x]
        BY <3>1, CompileIs
      <4>2. PICK x \in Maybe : fragments' = [fragments EXCEPT ![<<u, build[b].root>>] = x]
        BY <4>1 DEF Maybe
      <4>. QED  BY <4>2 DEF CacheTypes
    <3>. QED  BY <1>1, <3>1 DEF CacheTypes
  <2>4. builds' \in 0..MaxBuilds /\ crashes' \in 0..MaxCrashes
    <3>1. /\ builds' = builds \/ (builds < MaxBuilds /\ builds' = builds + 1)
          /\ crashes' = crashes \/ (crashes < MaxCrashes /\ crashes' = crashes + 1)
      BY <1>1 DEF Moves, Start, LoadSummary, Summarise, SaveSummary, LoadFragment, Compile, Link, Crash
    <3>2. builds \in 0..MaxBuilds /\ crashes \in 0..MaxCrashes /\ MaxBuilds \in Nat /\ MaxCrashes \in Nat
      BY ProjectCacheAssumption DEF CacheTypes
    <3>. QED  BY <3>1, <3>2
  <2>. QED  BY <1>1, <2>1, <2>2, <2>3, <2>4 DEF Quiet, CacheTypes
<1>2. ASSUME NEW u \in Unit, Edit(u) PROVE CacheTypes'
  <2>1. \A v \in Unit : stamp'[v] <= edits'
    <3>. SUFFICES ASSUME NEW v \in Unit PROVE stamp'[v] <= edits'
      OBVIOUS
    <3>1. stamp[v] \in Nat /\ stamp[v] <= edits /\ edits \in Nat
      BY ProjectCacheAssumption DEF CacheTypes, Stamp
    <3>2. edits' = edits + 1 /\ (stamp'[v] = stamp[v] \/ stamp'[v] = stamp[v] + 1)
      BY <1>2, EditIs
    <3>. QED  BY <3>1, <3>2
  <2>2. edits' \in 0..MaxEdits
    <3>1. edits \in 0..MaxEdits /\ MaxEdits \in Nat /\ edits < MaxEdits /\ edits' = edits + 1
      BY <1>2, EditIs, ProjectCacheAssumption DEF CacheTypes
    <3>. QED  BY <3>1
  <2>. QED  BY <1>2, <2>1, <2>2, EditIs DEF CacheTypes
<1>3. CASE UNCHANGED vars
  BY <1>3 DEF vars, CacheTypes
<1>. QED  BY <1>1, <1>2, <1>3, Steps

\* Every step leaves its tables as filled as the next stage expects.
LEMMA StageStep ==
    ASSUME CacheTypes, StageInv, [Next]_vars
    PROVE  StageInv'
<1>. SUFFICES ASSUME NEW c \in Build PROVE StageOf(c)'
  BY DEF StageInv
<1>0. StageOf(c) /\ build[c] \in Record
  BY DEF StageInv, CacheTypes
<1>1. CASE build'[c] = build[c]
  BY <1>0, <1>1 DEF StageOf
<1>2. ASSUME Moves(c) PROVE StageOf(c)'
  <2>0. UnitCount \in Nat \ {0} /\ 1 \in Unit
    BY ProjectCacheAssumption DEF Unit
  <2>1. CASE Start(c) \/ Link(c) \/ Crash(c)
    <3>1. PICK pc \in {"idle", "load"} : Becomes(c, pc, 1, Idle.root, Idle.body, Idle.fragment)
      BY <2>1, StartIs
    <3>. QED  BY <2>0, <3>1, IdleIs DEF Becomes, StageOf
  <2>2. CASE LoadSummary(c)
    <3>. DEFINE u == build[c].next
                root == [build[c].root EXCEPT ![u] = summaries[<<u, stamp[u]>>]]
    <3>1. /\ u \in Unit /\ build[c].pc = "load"
          /\ \/ Becomes(c, "load", u + 1, root, build[c].body, build[c].fragment) /\ u < UnitCount
             \/ /\ u = UnitCount /\ \A v \in Unit : root[v] # Absent
                /\ Becomes(c, "fragments", 1, root, build[c].body, build[c].fragment)
             \/ Becomes(c, "summarise", 1, root, build[c].body, build[c].fragment) /\ u = UnitCount
      BY <2>2, LoadSummaryIs
    <3>2. u < UnitCount => u + 1 \in Unit
      BY <2>0, <3>1 DEF Unit
    <3>3. \A v \in Unit : ~(v < 1)
      BY DEF Unit
    <3>4. \A v \in Unit : build[c].body[v] = Absent /\ build[c].fragment[v] = Absent
      BY <1>0, <3>1 DEF StageOf
    <3>. HIDE DEF u, root
    <3>. QED  BY <2>0, <3>1, <3>2, <3>3, <3>4 DEF Becomes, StageOf
  <2>3. CASE Summarise(c)
    <3>. DEFINE u == build[c].next
                x == IF build[c].root[u] # Absent THEN build[c].root[u] ELSE source[u]
                root == [build[c].root EXCEPT ![u] = x]
    <3>1. /\ u \in Unit /\ build[c].pc = "summarise" /\ x \in Content
          /\ \/ Becomes(c, "summarise", u + 1, root, build[c].body, build[c].fragment) /\ u < UnitCount
             \/ Becomes(c, "save", 1, root, build[c].body, build[c].fragment) /\ u = UnitCount
      BY <2>3, SummariseIs
    <3>2. u < UnitCount => u + 1 \in Unit
      BY <2>0, <3>1 DEF Unit
    <3>3. \A v \in Unit : v < u + 1 => root[v] # Absent
      <4>. SUFFICES ASSUME NEW v \in Unit, v < u + 1 PROVE root[v] # Absent
        OBVIOUS
      <4>1. v = u \/ v < u
        BY <3>1 DEF Unit
      <4>2. build[c].root \in Table
        BY <1>0 DEF Record
      <4>3. CASE v = u
        BY <3>1, <4>2, <4>3, AbsentAssumption DEF Table
      <4>4. CASE v # u
        BY <1>0, <3>1, <4>1, <4>2, <4>4 DEF StageOf, Table
      <4>. QED  BY <4>3, <4>4
    <3>4. u = UnitCount => \A v \in Unit : v < u + 1
      BY <2>0 DEF Unit
    <3>5. \A v \in Unit : build[c].body[v] = Absent /\ build[c].fragment[v] = Absent
      BY <1>0, <3>1 DEF StageOf
    <3>. HIDE DEF u, x, root
    <3>. QED  BY <2>0, <3>1, <3>2, <3>3, <3>4, <3>5 DEF Becomes, StageOf
  <2>4. CASE SaveSummary(c)
    <3>. DEFINE u == build[c].next
    <3>1. /\ u \in Unit /\ build[c].pc = "save"
          /\ \/ Becomes(c, "save", u + 1, build[c].root, build[c].body, build[c].fragment) /\ u < UnitCount
             \/ Becomes(c, "fragments", 1, build[c].root, build[c].body, build[c].fragment) /\ u = UnitCount
      BY <2>4, SaveSummaryIs
    <3>2. u < UnitCount => u + 1 \in Unit
      BY <2>0, <3>1 DEF Unit
    <3>. HIDE DEF u
    <3>. QED  BY <1>0, <3>1, <3>2 DEF Becomes, StageOf
  <2>5. CASE LoadFragment(c)
    <3>1. build'[c].pc = "fragments" /\ build'[c].root = build[c].root /\ build[c].pc = "fragments"
      BY <2>5, LoadFragmentIs DEF Becomes
    <3>. QED  BY <1>0, <3>1 DEF StageOf
  <2>6. CASE Compile(c)
    <3>1. build'[c].pc = "fragments" /\ build'[c].root = build[c].root /\ build[c].pc = "fragments"
      BY <2>6, CompileIs DEF Becomes
    <3>. QED  BY <1>0, <3>1 DEF StageOf
  <2>. QED  BY <1>2, <2>1, <2>2, <2>3, <2>4, <2>5, <2>6 DEF Moves
<1>3. ASSUME NEW b \in Build, b # c, Moves(b) PROVE build'[c] = build[c]
  BY <1>3, MovesOne
<1>4. ASSUME NEW u \in Unit, Edit(u) PROVE build'[c] = build[c]
  BY <1>4, EditIs
<1>5. ASSUME UNCHANGED vars PROVE build'[c] = build[c]
  BY <1>5 DEF vars
<1>. QED  BY <1>1, <1>2, <1>3, <1>4, <1>5, Steps

\* What is stated or derived stays so while nothing is edited, and over an edit that
\* a compilation sees.
LEMMA StatedStays ==
    ASSUME CacheTypes, NEW v \in Unit, NEW x,
           Quiet \/ \E u \in Unit : Edit(u) /\ (u = v => \E b \in Build : Active(b)), Stated(v, x)
    PROVE  Stated(v, x)'
<1>1. CASE Quiet
  BY <1>1 DEF Quiet, Stated
<1>2. ASSUME NEW u \in Unit, Edit(u), u = v => \E b \in Build : Active(b) PROVE Stated(v, x)'
  <2>1. CASE u # v
    <3>1. stamp'[v] = stamp[v] /\ source'[v] = source[v]
      BY <1>2, <2>1, EditIs
    <3>2. racedStamps \subseteq racedStamps' /\ racedContent \subseteq racedContent'
      BY <1>2, EditIs
    <3>. QED  BY <3>1, <3>2 DEF Stated
  <2>2. CASE u = v
    <3>1. <<v, stamp'[v]>> \in racedStamps' /\ <<v, source[v]>> \in racedContent'
      BY <1>2, <2>2, EditIs
    <3>2. racedContent \subseteq racedContent'
      BY <1>2, EditIs
    <3>. QED  BY <3>1, <3>2 DEF Stated
  <2>. QED  BY <2>1, <2>2
<1>. QED  BY <1>1, <1>2

\* A fragment allowed under a root stays allowed.
LEMMA DerivedStays ==
    ASSUME CacheTypes, [Next]_vars, NEW v \in Unit, NEW x, NEW c, Derived(v, x, c)
    PROVE  Derived(v, x, c)'
<1>1. racedContent \subseteq racedContent'
  BY Steps, EditIs DEF Quiet, vars
<1>. QED  BY <1>1 DEF Derived

\* No step states a root that is neither present nor the trace of a racing edit.
LEMMA RootStep ==
    ASSUME CacheTypes, StageInv, RootInv, SummaryInv, [Next]_vars
    PROVE  RootInv'
<1>. SUFFICES ASSUME NEW c \in Build, NEW v \in Unit PROVE Stated(v, build[c].root[v])'
  BY DEF RootInv
<1>. DEFINE old == build[c].root[v]
            new == build'[c].root[v]
<1>0. Stated(v, old) /\ build[c].root \in Table
  BY DEF RootInv, CacheTypes, Record
<1>1. ASSUME NEW x, Quiet, Stated(v, x), new = x PROVE Stated(v, build[c].root[v])'
  <2>1. Stated(v, x)'
    BY <1>1, StatedStays
  <2>. QED  BY <1>1, <2>1 DEF Stated
<1>2. ASSUME Quiet, new = old PROVE Stated(v, build[c].root[v])'
  BY <1>0, <1>1, <1>2
<1>3. ASSUME Moves(c), Quiet PROVE Stated(v, build[c].root[v])'
  <2>1. CASE Start(c) \/ Link(c) \/ Crash(c)
    <3>1. new = Absent
      BY <2>1, StartIs, IdleIs DEF Becomes
    <3>2. Stated(v, Absent)
      BY DEF Stated
    <3>. QED  BY <1>1, <1>3, <3>1, <3>2
  <2>2. CASE LoadSummary(c)
    <3>a. \E u \in Unit : build'[c].root = [build[c].root EXCEPT ![u] = summaries[<<u, stamp[u]>>]]
      BY <2>2, LoadSummaryIs DEF Becomes
    <3>1. new = summaries[<<v, stamp[v]>>] \/ new = old
      BY <1>0, <3>a DEF Table
    <3>2. Stated(v, summaries[<<v, stamp[v]>>])
      BY DEF SummaryInv
    <3>. HIDE DEF old, new
    <3>. QED  BY <1>0, <1>1, <1>3, <3>1, <3>2
  <2>3. CASE Summarise(c)
    <3>a. \E u \in Unit : build'[c].root = [build[c].root EXCEPT ![u] =
             IF build[c].root[u] # Absent THEN build[c].root[u] ELSE source[u]]
      BY <2>3, SummariseIs DEF Becomes
    <3>1. new = old \/ new = source[v]
      BY <1>0, <3>a DEF Table
    <3>2. Stated(v, source[v])
      BY DEF Stated
    <3>. HIDE DEF old, new
    <3>. QED  BY <1>1, <1>2, <1>3, <3>1, <3>2
  <2>4. CASE SaveSummary(c) \/ LoadFragment(c) \/ Compile(c)
    <3>1. build'[c].root = build[c].root
      BY <2>4, SaveSummaryIs, LoadFragmentIs, CompileIs DEF Becomes
    <3>. QED  BY <1>2, <1>3, <3>1
  <2>. QED  BY <1>3, <2>1, <2>2, <2>3, <2>4 DEF Moves
<1>4. ASSUME NEW b \in Build, b # c, Moves(b), Quiet PROVE Stated(v, build[c].root[v])'
  <2>1. build'[c] = build[c]
    BY <1>4, MovesOne
  <2>. QED  BY <1>2, <1>4, <2>1
<1>5. ASSUME NEW u \in Unit, Edit(u) PROVE Stated(v, build[c].root[v])'
  <2>1. new = old
    BY <1>5, EditIs
  <2>2. CASE Active(c)
    <3>1. Stated(v, old)'
      <4>. HIDE DEF old
      <4>1. PICK x : x = old
        OBVIOUS
      <4>2. Stated(v, x)'
        BY <1>0, <1>5, <2>2, <4>1, StatedStays
      <4>3. old' = old
        BY <1>5, EditIs DEF old
      <4>. QED  BY <4>1, <4>2, <4>3 DEF Stated
    <3>. QED  BY <3>1
  <2>3. CASE ~Active(c)
    <3>1. old = Absent
      BY <2>3 DEF Active, StageInv, StageOf
    <3>. QED  BY <2>1, <3>1 DEF Stated
  <2>. QED  BY <2>2, <2>3
<1>6. CASE UNCHANGED vars
  BY <1>2, <1>6 DEF vars, Quiet, history
<1>. QED  BY <1>3, <1>4, <1>5, <1>6, Steps

\* No step saves such a summary either.
LEMMA SummaryStep ==
    ASSUME CacheTypes, StageInv, RootInv, SummaryInv, [Next]_vars
    PROVE  SummaryInv'
<1>1. ASSUME NEW b \in Build, Moves(b), Quiet, summaries' = summaries \/ SaveSummary(b) PROVE SummaryInv'
  <2>1. ASSUME NEW v \in Unit PROVE Stated(v, summaries[<<v, stamp[v]>>])'
    <3>1. PICK x : x = summaries'[<<v, stamp[v]>>] /\ Stated(v, x)
      <4>1. CASE summaries' = summaries
        BY <4>1 DEF SummaryInv
      <4>2. CASE SaveSummary(b)
        <5>1. PICK u \in Unit : summaries' = [summaries EXCEPT ![<<u, stamp[u]>>] = build[b].root[u]]
          BY <4>2, SaveSummaryIs
        <5>2. <<v, stamp[v]>> \in Unit \X Stamp /\ <<u, stamp[u]>> \in Unit \X Stamp
          BY DEF CacheTypes
        <5>3. summaries'[<<v, stamp[v]>>] = IF v = u THEN build[b].root[v] ELSE summaries[<<v, stamp[v]>>]
          BY <5>1, <5>2 DEF CacheTypes
        <5>. QED  BY <5>3 DEF RootInv, SummaryInv
      <4>. QED  BY <1>1, <4>1, <4>2
    <3>2. Stated(v, x)'
      BY <1>1, <3>1, StatedStays
    <3>. QED  BY <1>1, <3>1, <3>2 DEF Quiet, Stated
  <2>2. ASSUME NEW v \in Unit, NEW s \in Stamp, s > stamp'[v] PROVE summaries'[<<v, s>>] = Absent
    <3>0. stamp' = stamp /\ s # stamp[v] /\ summaries[<<v, s>>] = Absent
      <4>1. stamp' = stamp /\ stamp[v] \in Nat
        BY <1>1 DEF Quiet, CacheTypes, Stamp
      <4>2. s # stamp[v]
        BY <2>2, <4>1 DEF Stamp
      <4>. QED  BY <2>2, <4>1, <4>2 DEF SummaryInv
    <3>1. CASE SaveSummary(b)
      <4>1. PICK u \in Unit : summaries' = [summaries EXCEPT ![<<u, stamp[u]>>] = build[b].root[u]]
        BY <3>1, SaveSummaryIs
      <4>2. <<v, s>> # <<u, stamp[u]>>
        BY <3>0
      <4>. QED  BY <3>0, <4>1, <4>2 DEF CacheTypes
    <3>. QED  BY <1>1, <3>0, <3>1
  <2>. QED  BY <2>1, <2>2 DEF SummaryInv
<1>2. ASSUME NEW u \in Unit, Edit(u) PROVE SummaryInv'
  <2>0. /\ summaries' = summaries /\ stamp'[u] = stamp[u] + 1 /\ stamp'[u] \in Stamp
        /\ \A v \in Unit \ {u} : stamp'[v] = stamp[v]
    BY <1>2, EditIs
  <2>a. \A v \in Unit : stamp[v] \in Nat
    BY DEF CacheTypes, Stamp
  <2>1. ASSUME NEW v \in Unit PROVE Stated(v, summaries[<<v, stamp[v]>>])'
    <3>1. CASE v = u
      <4>1. stamp'[u] > stamp[u]
        BY <2>0, <2>a
      <4>2. summaries[<<u, stamp'[u]>>] = Absent
        BY <2>0, <4>1 DEF SummaryInv
      <4>. QED  BY <2>0, <3>1, <4>2 DEF Stated
    <3>2. CASE v # u
      <4>1. PICK x : x = summaries[<<v, stamp[v]>>] /\ Stated(v, x)
        BY DEF SummaryInv
      <4>2. Stated(v, x)'
        BY <1>2, <3>2, <4>1, StatedStays
      <4>. QED  BY <2>0, <3>2, <4>1, <4>2 DEF Stated
    <3>. QED  BY <3>1, <3>2
  <2>2. ASSUME NEW v \in Unit, NEW s \in Stamp, s > stamp'[v] PROVE summaries'[<<v, s>>] = Absent
    <3>1. s > stamp[v]
      <4>1. s \in Nat /\ stamp[v] \in Nat /\ (stamp'[v] = stamp[v] \/ stamp'[v] = stamp[v] + 1)
        BY <2>0, <2>a DEF Stamp
      <4>. QED  BY <2>2, <4>1
    <3>. QED  BY <2>0, <3>1 DEF SummaryInv
  <2>. QED  BY <2>1, <2>2 DEF SummaryInv
<1>3. CASE UNCHANGED vars
  BY <1>3 DEF vars, history, SummaryInv, Stated
<1>. QED  BY <1>1, <1>2, <1>3, Steps

\* Contents are read, compiled and cached under a root that allows them.
LEMMA BodyStep ==
    ASSUME CacheTypes, StageInv, RootInv, BodyInv, [Next]_vars
    PROVE  BodyInv'
<1>1. ASSUME NEW c \in Build, NEW v \in Unit
      PROVE  /\ Derived(v, build[c].root[v], build[c].body[v])'
             /\ Derived(v, build[c].root[v], build[c].fragment[v])'
  <2>0. /\ Derived(v, build[c].root[v], build[c].body[v])
        /\ Derived(v, build[c].root[v], build[c].fragment[v])
        /\ build[c].root \in Table /\ build[c].body \in Table /\ build[c].fragment \in Table
    BY DEF BodyInv, CacheTypes, Record
  <2>1. ASSUME NEW x, NEW body, NEW fragment, Derived(v, x, body), Derived(v, x, fragment),
               build'[c].root[v] = x, build'[c].body[v] = body, build'[c].fragment[v] = fragment
        PROVE  /\ Derived(v, build[c].root[v], build[c].body[v])'
               /\ Derived(v, build[c].root[v], build[c].fragment[v])'
    <3>1. Derived(v, x, body)' /\ Derived(v, x, fragment)'
      BY <2>1, DerivedStays
    <3>. QED  BY <2>1, <3>1 DEF Derived
  <2>2. ASSUME build'[c] = build[c]
        PROVE  /\ Derived(v, build[c].root[v], build[c].body[v])'
               /\ Derived(v, build[c].root[v], build[c].fragment[v])'
    BY <2>0, <2>1, <2>2
  <2>3. ASSUME build'[c].body[v] = Absent, build'[c].fragment[v] = Absent
        PROVE  /\ Derived(v, build[c].root[v], build[c].body[v])'
               /\ Derived(v, build[c].root[v], build[c].fragment[v])'
    BY <2>3 DEF Derived
  <2>4. ASSUME Moves(c), Quiet
        PROVE  /\ Derived(v, build[c].root[v], build[c].body[v])'
               /\ Derived(v, build[c].root[v], build[c].fragment[v])'
    <3>1. CASE Start(c) \/ Link(c) \/ Crash(c)
      <4>1. build'[c].body[v] = Absent /\ build'[c].fragment[v] = Absent
        BY <3>1, StartIs, IdleIs DEF Becomes
      <4>. QED  BY <2>3, <4>1
    <3>2. CASE LoadSummary(c) \/ Summarise(c) \/ SaveSummary(c)
      <4>1. build'[c].body = build[c].body /\ build'[c].fragment = build[c].fragment /\ build[c].pc # "fragments"
        <5>1. CASE LoadSummary(c)
          BY <5>1, LoadSummaryIs DEF Becomes
        <5>2. CASE Summarise(c)
          BY <5>2, SummariseIs DEF Becomes
        <5>3. CASE SaveSummary(c)
          BY <5>3, SaveSummaryIs DEF Becomes
        <5>. QED  BY <3>2, <5>1, <5>2, <5>3
      <4>2. build[c].body[v] = Absent /\ build[c].fragment[v] = Absent
        BY <4>1 DEF StageInv, StageOf
      <4>. QED  BY <2>3, <4>1, <4>2
    <3>3. CASE LoadFragment(c)
      <4>. DEFINE u == build[c].next
                  x == fragments[<<u, build[c].root>>]
      <4>1. /\ u \in Unit /\ build[c].root \in [Unit -> Content] /\ build'[c].root = build[c].root
            /\ \/ build'[c].body = build[c].body /\ build'[c].fragment = [build[c].fragment EXCEPT ![u] = x]
               \/ build'[c].body = [build[c].body EXCEPT ![u] = source[u]] /\ build'[c].fragment = build[c].fragment
        BY <3>3, LoadFragmentIs DEF Becomes
      <4>2. Derived(u, build[c].root[u], x)
        BY <4>1 DEF BodyInv
      <4>3. Derived(u, build[c].root[u], source[u])
        <5>1. Stated(u, build[c].root[u]) /\ build[c].root[u] # Absent
          BY <4>1, AbsentAssumption DEF RootInv
        <5>. QED  BY <5>1 DEF Stated, Derived
      <4>. HIDE DEF u, x
      <4>4. /\ build'[c].body[v] = build[c].body[v] \/ (v = u /\ build'[c].body[v] = source[u])
            /\ build'[c].fragment[v] = build[c].fragment[v] \/ (v = u /\ build'[c].fragment[v] = x)
        BY <2>0, <4>1 DEF Table
      <4>5. Derived(v, build[c].root[v], build'[c].body[v]) /\ Derived(v, build[c].root[v], build'[c].fragment[v])
        <5>1. Derived(v, build[c].root[v], build'[c].body[v])
          BY <2>0, <4>3, <4>4
        <5>2. Derived(v, build[c].root[v], build'[c].fragment[v])
          BY <2>0, <4>2, <4>4
        <5>. QED  BY <5>1, <5>2
      <4>. QED  BY <2>1, <4>1, <4>5
    <3>4. CASE Compile(c)
      <4>1. PICK u \in Unit :
                /\ build'[c].root = build[c].root
                /\ build'[c].body = [build[c].body EXCEPT ![u] = Absent]
                /\ build'[c].fragment = [build[c].fragment EXCEPT ![u] = build[c].body[u]]
        BY <3>4, CompileIs DEF Becomes
      <4>2. /\ build'[c].body[v] = build[c].body[v] \/ build'[c].body[v] = Absent
            /\ build'[c].fragment[v] = build[c].fragment[v] \/ build'[c].fragment[v] = build[c].body[v]
        BY <2>0, <4>1 DEF Table
      <4>3. Derived(v, build[c].root[v], build'[c].body[v]) /\ Derived(v, build[c].root[v], build'[c].fragment[v])
        <5>1. Derived(v, build[c].root[v], Absent)
          BY DEF Derived
        <5>. QED  BY <2>0, <4>2, <5>1
      <4>. QED  BY <2>1, <4>1, <4>3
    <3>. QED  BY <2>4, <3>1, <3>2, <3>3, <3>4 DEF Moves
  <2>5. ASSUME NEW b \in Build, b # c, Moves(b) PROVE build'[c] = build[c]
    BY <2>5, MovesOne
  <2>6. ASSUME NEW u \in Unit, Edit(u) PROVE build'[c] = build[c]
    BY <2>6, EditIs
  <2>7. ASSUME UNCHANGED vars PROVE build'[c] = build[c]
    BY <2>7 DEF vars
  <2>. QED  BY <2>2, <2>4, <2>5, <2>6, <2>7, Steps
<1>2. ASSUME NEW v \in Unit, NEW root \in [Unit -> Content]
      PROVE  Derived(v, root[v], fragments[<<v, root>>])'
  <2>1. PICK x : x = fragments'[<<v, root>>] /\ Derived(v, root[v], x)
    <3>1. CASE fragments' = fragments
      BY <3>1 DEF BodyInv
    <3>2. ASSUME NEW b \in Build, Compile(b) PROVE Derived(v, root[v], fragments'[<<v, root>>])
      <4>1. PICK u \in Unit :
                /\ build[b].root \in [Unit -> Content]
                /\ \E x \in {Absent, build[b].body[u]} :
                      fragments' = [fragments EXCEPT ![<<u, build[b].root>>] = x]
        BY <3>2, CompileIs
      <4>2. \/ fragments'[<<v, root>>] = fragments[<<v, root>>]
            \/ /\ v = u /\ root = build[b].root
               /\ fragments'[<<v, root>>] = Absent \/ fragments'[<<v, root>>] = build[b].body[u]
        <5>1. <<v, root>> \in Keys
          BY DEF Keys
        <5>. QED  BY <4>1, <5>1 DEF CacheTypes
      <4>3. /\ Derived(v, root[v], fragments[<<v, root>>]) /\ Derived(v, root[v], Absent)
            /\ Derived(u, build[b].root[u], build[b].body[u])
        BY DEF BodyInv, Derived
      <4>. QED  BY <4>2, <4>3
    <3>3. fragments' = fragments \/ \E b \in Build : Compile(b)
      BY Steps, EditIs DEF vars
    <3>. QED  BY <3>1, <3>2, <3>3
  <2>2. Derived(v, root[v], x)'
    <3>1. PICK y : y = root[v]
      OBVIOUS
    <3>2. Derived(v, y, x)'
      BY <2>1, <3>1, DerivedStays
    <3>. QED  BY <3>1, <3>2 DEF Derived
  <2>. QED  BY <2>1, <2>2 DEF Derived
<1>. QED  BY <1>1, <1>2 DEF BodyInv

-----------------------------------------------------------------------------
(* The theorems *)

\* The caches begin empty and nothing is being compiled.
LEMMA CacheInit == Init => CacheInv
<1>. SUFFICES ASSUME Init PROVE CacheInv
  OBVIOUS
<1>0. build = [b \in Build |-> Idle] /\ \A b \in Build : build[b] = Idle
  BY DEF Init
<1>1. /\ stamp = [u \in Unit |-> 0] /\ 0 \in Stamp /\ Absent \in Maybe
      /\ builds \in 0..MaxBuilds /\ crashes \in 0..MaxCrashes /\ edits \in 0..MaxEdits /\ edits = 0
  BY ProjectCacheAssumption DEF Init, Stamp, Maybe
<1>2. summaries \in [Unit \X Stamp -> Maybe] /\ fragments \in [Keys -> Maybe]
  BY <1>1 DEF Init
<1>3. CacheTypes
  BY <1>0, <1>1, <1>2, IdleIs DEF Init, CacheTypes
<1>4. StageInv
  BY <1>0, IdleIs DEF StageInv, StageOf
<1>5. RootInv
  BY <1>0, IdleIs DEF RootInv, Stated
<1>6. SummaryInv
  <2>1. \A u \in Unit : \A s \in Stamp : summaries[<<u, s>>] = Absent
    BY DEF Init
  <2>. QED  BY <1>1, <2>1 DEF SummaryInv, Stated
<1>7. BodyInv
  <2>1. \A u \in Unit : \A root \in [Unit -> Content] : fragments[<<u, root>>] = Absent
    BY DEF Init, Keys
  <2>. QED  BY <1>0, <2>1, IdleIs DEF BodyInv, Derived
<1>. QED  BY <1>3, <1>4, <1>5, <1>6, <1>7 DEF CacheInv

\* The parts of the invariant are kept together.
LEMMA CacheStep == CacheInv /\ [Next]_vars => CacheInv'
  BY TypesStep, StageStep, RootStep, SummaryStep, BodyStep DEF CacheInv

\* What the claims below rest on: a root or a record that is not of the present
\* contents of its unit is the trace of an edit during some compilation.
THEOREM CacheIsInvariant == Spec => []CacheInv
<1>. QED  BY CacheInit, CacheStep, PTL DEF Spec

\* Every variable has its type, and the index states a root for every unit once the
\* summaries are done.
THEOREM CacheHasTypes == Spec => []TypeOK
<1>1. CacheInv => TypeOK
  <2>. SUFFICES ASSUME CacheInv PROVE TypeOK
    OBVIOUS
  <2>1. ASSUME NEW b \in Build
        PROVE  /\ build[b].pc \in {"idle", "load", "summarise", "save", "fragments"}
               /\ build[b].next \in 1..(UnitCount + 1)
               /\ build[b].root \in [Unit -> IF build[b].pc \in {"save", "fragments"} THEN Content ELSE Maybe]
               /\ build[b].body \in [Unit -> Maybe] /\ build[b].fragment \in [Unit -> Maybe]
    <3>1. build[b] \in Record
      BY DEF CacheInv, CacheTypes
    <3>2. build[b].pc \in {"save", "fragments"} => build[b].root \in [Unit -> Content]
      <4>1. build[b].pc \in {"save", "fragments"} => \A u \in Unit : build[b].root[u] # Absent
        BY DEF CacheInv, StageInv, StageOf
      <4>. QED  BY <3>1, <4>1 DEF Record, Table, Maybe
    <3>. QED  BY <3>1, <3>2 DEF Record, Stages, Table
  <2>. QED  BY <2>1 DEF TypeOK, CacheInv, CacheTypes
<1>. QED  BY <1>1, CacheIsInvariant, PTL

\* A compilation links every unit as it is on disk when it ends, except after an edit
\* during some compilation, whatever others left or are leaving in the caches.
THEOREM CompilationsLinkTheDisk == Spec => LinksWhatIsOnDisk
<1>1. ASSUME CacheInv, NEW b \in Build, Link(b), NEW u \in Unit, <<u, stamp[u]>> \notin racedStamps
      PROVE  /\ build[b].root[u] = source[u]
             /\ build[b].fragment[u] = source[u] \/ <<u, source[u]>> \in racedContent
  <2>1. build[b].pc = "fragments" /\ build[b].fragment[u] # Absent
    BY <1>1 DEF Link, At
  <2>2. build[b].root[u] # Absent
    BY <1>1, <2>1 DEF CacheInv, StageInv, StageOf
  <2>3. build[b].root[u] = source[u]
    BY <1>1, <2>2 DEF CacheInv, RootInv, Stated
  <2>4. Derived(u, build[b].root[u], build[b].fragment[u])
    BY <1>1 DEF CacheInv, BodyInv
  <2>. QED  BY <2>1, <2>3, <2>4 DEF Derived
<1>2. CacheInv /\ [Next]_vars =>
          [\A b \in Build : Link(b) =>
              \A u \in Unit :
                  <<u, stamp[u]>> \notin racedStamps =>
                      /\ build[b].root[u] = source[u]
                      /\ build[b].fragment[u] = source[u] \/ <<u, source[u]>> \in racedContent]_vars
  BY <1>1
<1>. QED  BY <1>2, CacheIsInvariant, PTL DEF Spec, LinksWhatIsOnDisk
=============================================================================
