-------------------------- MODULE ProjectExportProofs --------------------------
(****************************************************************************)
(* Theorems about ProjectExport, the PackageStore it fills and the linkers  *)
(* of ModuleLink that read its files, for every number of workers, units,   *)
(* packages, files, failures and exports.                                   *)
(****************************************************************************)
EXTENDS ModuleLink, SequenceTheorems, FiniteSetTheorems, WellFoundedInduction, TLAPS

-----------------------------------------------------------------------------
(* The inductive invariant of the store *)

StoreTypes ==
    /\ payload \in [File -> {"absent", "torn", "whole"}]
    /\ manifest \in [Package -> {"absent", "torn", "whole"}]
    /\ stack \in [Thread -> Seq(Frame)]
    /\ seen \in [Thread -> SUBSET Package]
    /\ answer \in [Thread -> {"none", "ok", "error"}]
    /\ clashed \subseteq Package /\ unavailable \subseteq Package

\* What a call can be at: below the top, a call waits for a dependency.
FrameOK(f) ==
    /\ f.left \subseteq FilesOf[f.pkg] /\ f.open \in FilesOf[f.pkg] \cup {NoFile}
    /\ f.pc \notin Phase => f.left = {} /\ f.open = NoFile
    /\ f.deps \subseteq DepsOf[f.pkg]
    /\ f.pc # "deps" => f.deps = {}
FrameInv == \A t \in Thread : \A i \in 1..Len(stack[t]) :
    FrameOK(stack[t][i]) /\ (i > 1 => stack[t][i].pc = "deps")

\* What a call has made of the folder of its package, when nobody else writes it.
OnDisk(f) == f.pkg \notin clashed =>
    /\ f.pc \in Phase \cup {"manifest"} => manifest[f.pkg] = "absent"
    /\ f.open # NoFile => payload[f.open] = "torn"
    /\ f.pc = "rewrite" => \A x \in FilesOf[f.pkg] \ f.left : x # f.open => payload[x] = "whole"
    /\ f.pc = "manifest" => \A x \in FilesOf[f.pkg] : payload[x] = "whole"
    /\ f.pc = "sync" => manifest[f.pkg] = "torn"
    /\ f.pc = "deps" => Complete(f.pkg)
DiskInv == \A t \in Thread : \A i \in 1..Len(stack[t]) : OnDisk(stack[t][i])

\* The manifest is begun after the last payload is whole.
ManifestInv == \A p \in Package \ clashed :
    manifest[p] # "absent" => \A x \in FilesOf[p] : payload[x] = "whole"

\* Two goroutines in one folder have been noticed.
AloneInv == \A p \in Package : \A t, u \in WritersOf(p) : t # u => p \in clashed

\* Of what an import has come across, a package is being imported or done with.
Done(t, p) == DepsOf[p] \subseteq seen[t] /\ (Complete(p) \/ p \in clashed)
Called(t, p) == \E i \in 1..Len(stack[t]) : stack[t][i].pkg = p
SeenInv == \A t \in Thread :
    /\ answer[t] # "error" => \A p \in seen[t] : Called(t, p) \/ Done(t, p)
    /\ \A i \in 1..Len(stack[t]) :
          /\ stack[t][i].pkg \in seen[t]
          /\ stack[t][i].pc = "deps" => DepsOf[stack[t][i].pkg] \ stack[t][i].deps \subseteq seen[t]
    /\ Active(t) => answer[t] = "none"

FolderInv == FrameInv /\ DiskInv /\ ManifestInv /\ AloneInv /\ SeenInv

-----------------------------------------------------------------------------
(* Stacks of calls *)

\* A sequence with its head replaced.
LEMMA ReplaceHead ==
    ASSUME NEW S, NEW s \in Seq(S), s # <<>>, NEW f \in S
    PROVE  /\ <<f>> \o Tail(s) \in Seq(S) /\ Len(<<f>> \o Tail(s)) = Len(s)
           /\ (<<f>> \o Tail(s))[1] = f /\ \A i \in 2..Len(s) : (<<f>> \o Tail(s))[i] = s[i]
           /\ Len(s) \in Nat \ {0}
<1>1. /\ Len(s) \in Nat \ {0} /\ Tail(s) \in Seq(S) /\ Len(Tail(s)) = Len(s) - 1
      /\ \A i \in 1..Len(Tail(s)) : Tail(s)[i] = s[i + 1]
  BY HeadTailProperties, EmptySeq
<1>2. <<f>> \in Seq(S) /\ Len(<<f>>) = 1 /\ <<f>>[1] = f
  OBVIOUS
<1>3. /\ <<f>> \o Tail(s) \in Seq(S) /\ Len(<<f>> \o Tail(s)) = 1 + Len(Tail(s))
      /\ \A i \in 1..1 + Len(Tail(s)) :
            (<<f>> \o Tail(s))[i] = IF i <= 1 THEN <<f>>[i] ELSE Tail(s)[i - 1]
  BY <1>1, <1>2, ConcatProperties
<1>. QED  BY <1>1, <1>2, <1>3

\* A sequence with its head replaced and another element before it.
LEMMA PushHead ==
    ASSUME NEW S, NEW s \in Seq(S), s # <<>>, NEW f \in S, NEW g \in S
    PROVE  LET r == <<g, f>> \o Tail(s) IN
           /\ r \in Seq(S) /\ Len(r) = Len(s) + 1 /\ r[1] = g /\ r[2] = f
           /\ \A i \in 2..Len(s) : r[i + 1] = s[i]
<1>1. /\ Len(s) \in Nat \ {0} /\ Tail(s) \in Seq(S) /\ Len(Tail(s)) = Len(s) - 1
      /\ \A i \in 1..Len(Tail(s)) : Tail(s)[i] = s[i + 1]
  BY HeadTailProperties, EmptySeq
<1>2. <<g, f>> \in Seq(S) /\ Len(<<g, f>>) = 2 /\ <<g, f>>[1] = g /\ <<g, f>>[2] = f
  OBVIOUS
<1>. DEFINE r == <<g, f>> \o Tail(s)
<1>3. /\ r \in Seq(S) /\ Len(r) = 2 + Len(Tail(s))
      /\ \A i \in 1..2 + Len(Tail(s)) : r[i] = IF i <= 2 THEN <<g, f>>[i] ELSE Tail(s)[i - 2]
  BY <1>1, <1>2, ConcatProperties
<1>. HIDE DEF r
<1>4. ASSUME NEW i \in 2..Len(s) PROVE r[i + 1] = s[i]
  <2>1. i + 1 \in 1..2 + Len(Tail(s)) /\ ~(i + 1 <= 2) /\ i - 1 \in 1..Len(Tail(s))
    BY <1>1
  <2>. QED  BY <1>1, <1>3, <2>1
<1>5. r[1] = g /\ r[2] = f /\ Len(r) = Len(s) + 1
  BY <1>1, <1>2, <1>3
<1>. QED  BY <1>3, <1>4, <1>5 DEF r

\* The stack of a goroutine is a sequence of calls, not empty while it imports.
LEMMA Stacks ==
    ASSUME StoreTypes, NEW t \in Thread
    PROVE  /\ stack[t] \in Seq(Frame) /\ Len(stack[t]) \in Nat
           /\ \A i \in 1..Len(stack[t]) : stack[t][i] \in Frame
           /\ Active(t) => 1 \in 1..Len(stack[t]) /\ Top(t) = stack[t][1]
           /\ ~Active(t) => Len(stack[t]) = 0
<1>1. stack[t] \in Seq(Frame)
  BY DEF StoreTypes
<1>2. Len(stack[t]) \in Nat /\ stack[t] \in [1..Len(stack[t]) -> Frame]
  BY <1>1, LenProperties
<1>3. Active(t) => Len(stack[t]) \in Nat \ {0}
  BY <1>1, EmptySeq DEF Active
<1>. QED  BY <1>1, <1>2, <1>3 DEF Active, Top

\* The call on top of t's stack goes on, in these fields; nothing else of the
\* stacks changes.
Becomes(t, pc, left, open, deps) ==
    /\ stack' \in [Thread -> Seq(Frame)]
    /\ Len(stack'[t]) = Len(stack[t])
    /\ \A i \in 2..Len(stack[t]) : stack'[t][i] = stack[t][i]
    /\ \A u \in Thread \ {t} : stack'[u] = stack[u]
    /\ stack'[t][1].pkg = stack[t][1].pkg /\ stack'[t][1].pc = pc
    /\ stack'[t][1].left = left /\ stack'[t][1].open = open /\ stack'[t][1].deps = deps

\* SetTop replaces the fields of the call on top.
LEMMA SetTopBecomes ==
    ASSUME StoreTypes, NEW t \in Thread, Active(t), NEW f \in Frame, SetTop(t, f), f.pkg = Top(t).pkg
    PROVE  Becomes(t, f.pc, f.left, f.open, f.deps)
<1>1. stack[t] \in Seq(Frame) /\ stack[t] # <<>> /\ Top(t) = stack[t][1]
  BY Stacks DEF Active
<1>2. stack'[t] = <<f>> \o Tail(stack[t]) /\ \A u \in Thread \ {t} : stack'[u] = stack[u]
  BY DEF SetTop, StoreTypes
<1>3. /\ stack'[t] \in Seq(Frame) /\ Len(stack'[t]) = Len(stack[t]) /\ stack'[t][1] = f
      /\ \A i \in 2..Len(stack[t]) : stack'[t][i] = stack[t][i]
  BY <1>1, <1>2, ReplaceHead
<1>4. stack' \in [Thread -> Seq(Frame)]
  BY <1>2, <1>3 DEF SetTop, StoreTypes
<1>. QED  BY <1>1, <1>2, <1>3, <1>4 DEF Becomes

\* Entering a phase lists the payloads the phase has to write.
LEMMA Entered ==
    ASSUME NEW f \in Frame, NEW pc \in {"rewrite", "manifest", "deps"}
    PROVE  /\ Enter(f, pc) \in Frame /\ Enter(f, pc).pkg = f.pkg /\ Enter(f, pc).pc = pc
           /\ Enter(f, pc).open = f.open
           /\ Enter(f, pc).left = IF pc = "rewrite" THEN FilesOf[f.pkg] ELSE {}
           /\ Enter(f, pc).deps = IF pc = "deps" THEN DepsOf[f.pkg] ELSE {}
<1>1. FilesOf[f.pkg] \in SUBSET File /\ DepsOf[f.pkg] \in SUBSET Package
  BY PackageStoreAssumption DEF Frame
<1>. QED  BY <1>1 DEF Enter, Frame, Phase, Writing

\* What each step of importPackageDepth does to the call it belongs to.
LEMMA LookupIs ==
    ASSUME StoreTypes, NEW t \in Thread, Lookup(t)
    PROVE  Becomes(t, "deps", {}, Top(t).open, DepsOf[Top(t).pkg])
<1>1. Top(t) \in Frame /\ Active(t) /\ SetTop(t, Enter(Top(t), "deps"))
  BY Stacks DEF Lookup
<1>2. /\ Enter(Top(t), "deps") \in Frame /\ Enter(Top(t), "deps").pkg = Top(t).pkg
      /\ Enter(Top(t), "deps").pc = "deps" /\ Enter(Top(t), "deps").open = Top(t).open
      /\ Enter(Top(t), "deps").left = {} /\ Enter(Top(t), "deps").deps = DepsOf[Top(t).pkg]
  BY <1>1, Entered
<1>3. LET f == Enter(Top(t), "deps") IN Becomes(t, f.pc, f.left, f.open, f.deps)
  BY <1>1, <1>2, SetTopBecomes
<1>. QED  BY <1>2, <1>3

\* A fetch goes on to analyse all payloads of its package.
LEMMA FetchIs ==
    ASSUME StoreTypes, NEW t \in Thread, Fetch(t)
    PROVE  Becomes(t, "analyse", FilesOf[Top(t).pkg], Top(t).open, Top(t).deps)
<1>. DEFINE f == [Top(t) EXCEPT !.pc = "analyse", !.left = FilesOf[Top(t).pkg]]
<1>1. Top(t) \in Frame /\ Active(t)
  BY Stacks DEF Fetch
<1>2. FilesOf[Top(t).pkg] \in SUBSET File
  BY <1>1, PackageStoreAssumption DEF Frame
<1>3. /\ f \in Frame /\ f.pkg = Top(t).pkg /\ f.pc = "analyse" /\ f.left = FilesOf[Top(t).pkg]
      /\ f.open = Top(t).open /\ f.deps = Top(t).deps
  BY <1>1, <1>2 DEF Frame, Writing, Phase
<1>4. SetTop(t, f)
  BY DEF Fetch
<1>. HIDE DEF f
<1>5. Becomes(t, f.pc, f.left, f.open, f.deps)
  BY <1>1, <1>3, <1>4, SetTopBecomes
<1>. QED  BY <1>3, <1>5

\* Opening a payload tears it and takes it off the list.
LEMMA OpenIs ==
    ASSUME StoreTypes, NEW t \in Thread, OpenPayload(t)
    PROVE  \E x \in Top(t).left : /\ payload' = [payload EXCEPT ![x] = "torn"] /\ x \in File
                                  /\ Becomes(t, Top(t).pc, Top(t).left \ {x}, x, Top(t).deps)
<1>1. Top(t) \in Frame /\ Active(t)
  BY Stacks DEF OpenPayload
<1>2. PICK x \in Top(t).left : /\ payload' = [payload EXCEPT ![x] = "torn"]
                               /\ SetTop(t, [Top(t) EXCEPT !.open = x, !.left = @ \ {x}])
  BY DEF OpenPayload
<1>. DEFINE f == [Top(t) EXCEPT !.open = x, !.left = @ \ {x}]
<1>3. /\ f \in Frame /\ f.pkg = Top(t).pkg /\ f.pc = Top(t).pc /\ f.left = Top(t).left \ {x}
      /\ f.open = x /\ f.deps = Top(t).deps /\ x \in File
  BY <1>1 DEF Frame
<1>4. SetTop(t, f)
  BY <1>2
<1>. HIDE DEF f
<1>5. Becomes(t, f.pc, f.left, f.open, f.deps)
  BY <1>1, <1>3, <1>4, SetTopBecomes
<1>. QED  BY <1>2, <1>3, <1>5

\* Closing a payload returns to the list, or enters the next phase after the last.
LEMMA CloseIs ==
    ASSUME StoreTypes, FrameInv, NEW t \in Thread, ClosePayload(t)
    PROVE  /\ Top(t).pc \in Phase
           /\ \/ Top(t).left # {} /\ Becomes(t, Top(t).pc, Top(t).left, NoFile, {})
              \/ Top(t).left = {} /\ Top(t).pc = "analyse"
                 /\ Becomes(t, "rewrite", FilesOf[Top(t).pkg], NoFile, {})
              \/ Top(t).left = {} /\ Top(t).pc = "rewrite" /\ Becomes(t, "manifest", {}, NoFile, {})
<1>. DEFINE f == [Top(t) EXCEPT !.open = NoFile]
<1>1. Top(t) \in Frame /\ Active(t) /\ FrameOK(Top(t))
  BY Stacks DEF ClosePayload, FrameInv
<1>2. Top(t).pc \in Phase /\ Top(t).deps = {}
  BY <1>1 DEF ClosePayload, FrameOK, Phase
<1>3. /\ f \in Frame /\ f.pkg = Top(t).pkg /\ f.pc = Top(t).pc /\ f.left = Top(t).left
      /\ f.open = NoFile /\ f.deps = {}
  BY <1>1, <1>2 DEF Frame
<1>4. SetTop(t, IF f.left = {} THEN Enter(f, PhaseAfter(f.pc)) ELSE f)
  BY DEF ClosePayload
<1>. HIDE DEF f
<1>5. CASE f.left # {}
  <2>1. SetTop(t, f)
    BY <1>4, <1>5
  <2>2. Becomes(t, f.pc, f.left, f.open, f.deps)
    BY <1>1, <1>3, <2>1, SetTopBecomes
  <2>. QED  BY <1>2, <1>3, <1>5, <2>2
<1>6. CASE f.left = {} /\ f.pc = "analyse"
  <2>1. SetTop(t, Enter(f, "rewrite"))
    BY <1>4, <1>6 DEF PhaseAfter
  <2>2. /\ Enter(f, "rewrite") \in Frame /\ Enter(f, "rewrite").pkg = f.pkg
        /\ Enter(f, "rewrite").pc = "rewrite" /\ Enter(f, "rewrite").open = f.open
        /\ Enter(f, "rewrite").left = FilesOf[f.pkg] /\ Enter(f, "rewrite").deps = {}
    BY <1>3, Entered
  <2>3. Becomes(t, "rewrite", FilesOf[f.pkg], f.open, {})
    BY <1>1, <1>3, <2>1, <2>2, SetTopBecomes
  <2>. QED  BY <1>2, <1>3, <1>6, <2>3
<1>7. CASE f.left = {} /\ f.pc = "rewrite"
  <2>1. SetTop(t, Enter(f, "manifest"))
    BY <1>4, <1>7 DEF PhaseAfter
  <2>2. /\ Enter(f, "manifest") \in Frame /\ Enter(f, "manifest").pkg = f.pkg
        /\ Enter(f, "manifest").pc = "manifest" /\ Enter(f, "manifest").open = f.open
        /\ Enter(f, "manifest").left = {} /\ Enter(f, "manifest").deps = {}
    BY <1>3, Entered
  <2>3. Becomes(t, "manifest", {}, f.open, {})
    BY <1>1, <1>3, <2>1, <2>2, SetTopBecomes
  <2>. QED  BY <1>2, <1>3, <1>7, <2>3
<1>. QED  BY <1>2, <1>3, <1>5, <1>6, <1>7 DEF Phase

\* Opening the manifest changes only where the call is.
LEMMA OpenManifestIs ==
    ASSUME StoreTypes, NEW t \in Thread, OpenManifest(t)
    PROVE  Becomes(t, "sync", Top(t).left, Top(t).open, Top(t).deps)
<1>. DEFINE f == [Top(t) EXCEPT !.pc = "sync"]
<1>1. Top(t) \in Frame /\ Active(t)
  BY Stacks DEF OpenManifest
<1>2. /\ f \in Frame /\ f.pkg = Top(t).pkg /\ f.pc = "sync" /\ f.left = Top(t).left
      /\ f.open = Top(t).open /\ f.deps = Top(t).deps
  BY <1>1 DEF Frame, Writing
<1>3. SetTop(t, f)
  BY DEF OpenManifest
<1>. HIDE DEF f
<1>4. Becomes(t, f.pc, f.left, f.open, f.deps)
  BY <1>1, <1>2, <1>3, SetTopBecomes
<1>. QED  BY <1>2, <1>4

\* The closed manifest leaves the dependencies to import.
LEMMA CloseManifestIs ==
    ASSUME StoreTypes, NEW t \in Thread, CloseManifest(t)
    PROVE  Becomes(t, "deps", {}, Top(t).open, DepsOf[Top(t).pkg])
<1>1. Top(t) \in Frame /\ Active(t) /\ SetTop(t, Enter(Top(t), "deps"))
  BY Stacks DEF CloseManifest, PhaseAfter
<1>2. /\ Enter(Top(t), "deps") \in Frame /\ Enter(Top(t), "deps").pkg = Top(t).pkg
      /\ Enter(Top(t), "deps").pc = "deps" /\ Enter(Top(t), "deps").open = Top(t).open
      /\ Enter(Top(t), "deps").left = {} /\ Enter(Top(t), "deps").deps = DepsOf[Top(t).pkg]
  BY <1>1, Entered
<1>3. LET f == Enter(Top(t), "deps") IN Becomes(t, f.pc, f.left, f.open, f.deps)
  BY <1>1, <1>2, SetTopBecomes
<1>. QED  BY <1>2, <1>3

\* A call for d comes on top of the one that is at its dependencies.
Pushes(t, d) ==
    /\ stack' \in [Thread -> Seq(Frame)]
    /\ Len(stack'[t]) = Len(stack[t]) + 1
    /\ stack'[t][1] = Call(d)
    /\ stack'[t][2].pkg = stack[t][1].pkg /\ stack'[t][2].pc = stack[t][1].pc
    /\ stack'[t][2].left = stack[t][1].left /\ stack'[t][2].open = stack[t][1].open
    /\ stack'[t][2].deps = stack[t][1].deps \ {d}
    /\ \A i \in 2..Len(stack[t]) : stack'[t][i + 1] = stack[t][i]
    /\ \A u \in Thread \ {t} : stack'[u] = stack[u]

\* A new call is at its lookup.
LEMMA Calls ==
    ASSUME NEW p \in Package
    PROVE  /\ Call(p) \in Frame /\ Call(p).pkg = p /\ Call(p).pc = "lookup" /\ Call(p).left = {}
           /\ Call(p).open = NoFile /\ Call(p).deps = {}
  BY DEF Call, Frame

\* A dependency that the import has come across is skipped, another is called.
LEMMA DescendIs ==
    ASSUME StoreTypes, NEW t \in Thread, Descend(t)
    PROVE  \E d \in Top(t).deps : /\ d \in Package /\ seen' = [seen EXCEPT ![t] = @ \cup {d}]
              /\ IF d \in seen[t]
                 THEN Becomes(t, Top(t).pc, Top(t).left, Top(t).open, Top(t).deps \ {d})
                 ELSE Pushes(t, d)
<1>1. Top(t) \in Frame /\ Active(t) /\ stack[t] \in Seq(Frame) /\ stack[t] # <<>> /\ Top(t) = stack[t][1]
  BY Stacks DEF Descend, Active
<1>2. PICK d \in Top(t).deps :
          /\ stack' = [stack EXCEPT ![t] =
                 IF d \in seen[t] THEN <<[Top(t) EXCEPT !.deps = @ \ {d}]>> \o Tail(@)
                                  ELSE <<Call(d), [Top(t) EXCEPT !.deps = @ \ {d}]>> \o Tail(@)]
          /\ seen' = [seen EXCEPT ![t] = @ \cup {d}]
  BY DEF Descend
<1>. DEFINE f == [Top(t) EXCEPT !.deps = @ \ {d}]
<1>3. /\ f \in Frame /\ f.pkg = Top(t).pkg /\ f.pc = Top(t).pc /\ f.left = Top(t).left
      /\ f.open = Top(t).open /\ f.deps = Top(t).deps \ {d} /\ d \in Package
  BY <1>1 DEF Frame
<1>4. CASE d \in seen[t]
  <2>1. SetTop(t, f)
    BY <1>2, <1>4 DEF SetTop
  <2>. HIDE DEF f
  <2>2. Becomes(t, f.pc, f.left, f.open, f.deps)
    BY <1>1, <1>3, <2>1, SetTopBecomes
  <2>. QED  BY <1>2, <1>3, <1>4, <2>2
<1>5. CASE d \notin seen[t]
  <2>1. /\ stack' = [stack EXCEPT ![t] = <<Call(d), f>> \o Tail(stack[t])]
    BY <1>2, <1>5
  <2>. HIDE DEF f
  <2>. DEFINE r == <<Call(d), f>> \o Tail(stack[t])
  <2>2. Call(d) \in Frame
    BY <1>3, Calls
  <2>3. /\ r \in Seq(Frame) /\ Len(r) = Len(stack[t]) + 1 /\ r[1] = Call(d) /\ r[2] = f
        /\ \A i \in 2..Len(stack[t]) : r[i + 1] = stack[t][i]
    BY <1>1, <1>3, <2>2, PushHead
  <2>. HIDE DEF r
  <2>4. /\ stack'[t] = r /\ \A u \in Thread \ {t} : stack'[u] = stack[u]
        /\ stack' \in [Thread -> Seq(Frame)]
    BY <2>1, <2>3 DEF StoreTypes, r
  <2>5. Pushes(t, d)
    BY <1>1, <1>3, <2>3, <2>4 DEF Pushes
  <2>. QED  BY <1>2, <1>3, <1>5, <2>5
<1>. QED  BY <1>4, <1>5

\* The call on top returns to the one below it.
Pops(t) ==
    /\ stack' \in [Thread -> Seq(Frame)]
    /\ Len(stack'[t]) = Len(stack[t]) - 1
    /\ \A i \in 1..Len(stack[t]) - 1 : stack'[t][i] = stack[t][i + 1]
    /\ \A u \in Thread \ {t} : stack'[u] = stack[u]

\* Pop returns to the call below.
LEMMA PopIs ==
    ASSUME StoreTypes, NEW t \in Thread, Active(t), Pop(t)
    PROVE  Pops(t)
<1>1. stack[t] \in Seq(Frame) /\ stack[t] # <<>>
  BY DEF StoreTypes, Active
<1>2. /\ Tail(stack[t]) \in Seq(Frame) /\ Len(Tail(stack[t])) = Len(stack[t]) - 1
      /\ \A i \in 1..Len(Tail(stack[t])) : Tail(stack[t])[i] = stack[t][i + 1]
  BY <1>1, HeadTailProperties
<1>3. /\ stack'[t] = Tail(stack[t]) /\ \A u \in Thread \ {t} : stack'[u] = stack[u]
      /\ stack' \in [Thread -> Seq(Frame)]
  BY <1>2 DEF Pop, StoreTypes
<1>. QED  BY <1>2, <1>3 DEF Pops

\* After a return each call is one place higher.
LEMMA PopShifts ==
    ASSUME StoreTypes, NEW t \in Thread, Pops(t), NEW i \in 1..Len(stack'[t])
    PROVE  i + 1 > 1 /\ i + 1 \in 1..Len(stack[t]) /\ stack'[t][i] = stack[t][i + 1]
<1>1. Len(stack[t]) \in Nat
  BY Stacks
<1>2. i \in 1..Len(stack[t]) - 1
  BY DEF Pops
<1>3. i + 1 > 1 /\ i + 1 \in 1..Len(stack[t])
  BY <1>1, <1>2
<1>. QED  BY <1>2, <1>3 DEF Pops

\* The stack of a goroutine that starts an import, and of one whose import failed.
LEMMA StartIs ==
    ASSUME StoreTypes, NEW t \in Thread, NEW p \in Package, StartImport(t, p)
    PROVE  /\ stack' \in [Thread -> Seq(Frame)] /\ Len(stack'[t]) = 1 /\ stack'[t][1] = Call(p)
           /\ \A u \in Thread \ {t} : stack'[u] = stack[u]
<1>1. Call(p) \in Frame
  BY Calls
<1>2. <<Call(p)>> \in Seq(Frame) /\ Len(<<Call(p)>>) = 1 /\ <<Call(p)>>[1] = Call(p)
  BY <1>1
<1>. QED  BY <1>2 DEF StartImport, StoreTypes

\* A failure empties the stack of its goroutine and no other.
LEMMA UnwindIs ==
    ASSUME StoreTypes, NEW t \in Thread, Unwind(t)
    PROVE  /\ stack' \in [Thread -> Seq(Frame)] /\ Len(stack'[t]) = 0
           /\ \A u \in Thread \ {t} : stack'[u] = stack[u]
<1>1. <<>> \in Seq(Frame) /\ Len(<<>>) = 0
  BY EmptySeq
<1>. QED  BY <1>1 DEF Unwind, StoreTypes

\* A step of an import touches no other goroutine's stack.
LEMMA OthersKeepStacks ==
    ASSUME StoreTypes, FrameInv, NEW t \in Thread, ImportStep(t), NEW u \in Thread, u # t
    PROVE  stack'[u] = stack[u]
<1>1. CASE Lookup(t)
  BY <1>1, LookupIs DEF Becomes
<1>2. CASE Fetch(t)
  BY <1>2, FetchIs DEF Becomes
<1>3. CASE OpenPayload(t)
  BY <1>3, OpenIs DEF Becomes
<1>4. CASE ClosePayload(t)
  BY <1>4, CloseIs DEF Becomes
<1>5. CASE OpenManifest(t)
  BY <1>5, OpenManifestIs DEF Becomes
<1>6. CASE CloseManifest(t)
  BY <1>6, CloseManifestIs DEF Becomes
<1>7. CASE Descend(t)
  BY <1>7, DescendIs DEF Becomes, Pushes
<1>8. CASE CallReturns(t)
  BY <1>8, PopIs DEF CallReturns, Pops
<1>9. CASE CallFails(t)
  BY <1>9, UnwindIs DEF CallFails
<1>. QED  BY <1>1, <1>2, <1>3, <1>4, <1>5, <1>6, <1>7, <1>8, <1>9 DEF ImportStep

-----------------------------------------------------------------------------
(* Steps on the store *)

\* What the export may do to the store: a step of an import, the start of one,
\* the death of all, a failure elsewhere.
Rests == UNCHANGED <<payload, manifest, stack, seen, answer, clashed, unavailable>>
StoreStep ==
    \/ \E t \in Thread : ImportStep(t)
    \/ \E t \in Thread, p \in Package : StartImport(t, p)
    \/ StoreCrash
    \/ Rests

\* Which steps touch what.
LEMMA Effects ==
    ASSUME NEW t \in Thread, ImportStep(t)
    PROVE  /\ payload' = payload \/ Fetch(t) \/ OpenPayload(t) \/ ClosePayload(t)
           /\ manifest' = manifest \/ Fetch(t) \/ OpenManifest(t) \/ CloseManifest(t)
           /\ seen' = seen \/ Descend(t)
           /\ answer' = answer \/ CallReturns(t) \/ CallFails(t)
           /\ clashed' = clashed \/ Fetch(t)
           /\ unavailable' = unavailable \/ CallFails(t)
  BY DEF ImportStep, Lookup, Fetch, OpenPayload, ClosePayload, OpenManifest, CloseManifest, Descend,
     CallReturns, CallFails

\* Every step keeps the types of the store.
LEMMA TypesStep ==
    ASSUME StoreTypes, FrameInv, StoreStep
    PROVE  StoreTypes'
<1>1. stack' \in [Thread -> Seq(Frame)]
  <2>1. ASSUME NEW t \in Thread, ImportStep(t) PROVE stack' \in [Thread -> Seq(Frame)]
    BY <2>1, LookupIs, FetchIs, OpenIs, CloseIs, OpenManifestIs, CloseManifestIs, DescendIs, PopIs, UnwindIs
       DEF ImportStep, CallReturns, CallFails, Becomes, Pushes, Pops
  <2>2. CASE StoreCrash
    BY <2>2, EmptySeq DEF StoreCrash
  <2>. QED  BY <2>1, <2>2, StartIs DEF StoreStep, Rests, StoreTypes
<1>2. ASSUME NEW t \in Thread, ImportStep(t)
      PROVE  /\ payload' \in [File -> {"absent", "torn", "whole"}]
             /\ manifest' \in [Package -> {"absent", "torn", "whole"}]
             /\ seen' \in [Thread -> SUBSET Package]
             /\ answer' \in [Thread -> {"none", "ok", "error"}]
             /\ clashed' \subseteq Package /\ unavailable' \subseteq Package
  <2>0. /\ \A i \in 1..Len(stack[t]) : stack[t][i].pkg \in Package
        /\ Active(t) => Top(t) \in Frame /\ Top(t).pkg \in Package
    BY Stacks DEF Frame
  <2>1. payload' \in [File -> {"absent", "torn", "whole"}]
    <3>1. CASE Fetch(t)
      BY <3>1 DEF Fetch, StoreTypes
    <3>2. CASE OpenPayload(t)
      BY <3>2 DEF OpenPayload, StoreTypes
    <3>3. CASE ClosePayload(t)
      BY <3>3 DEF ClosePayload, StoreTypes
    <3>. QED  BY <1>2, <3>1, <3>2, <3>3, Effects DEF StoreTypes
  <2>2. manifest' \in [Package -> {"absent", "torn", "whole"}]
    <3>1. CASE Fetch(t)
      BY <3>1 DEF Fetch, StoreTypes
    <3>2. CASE OpenManifest(t)
      BY <3>2 DEF OpenManifest, StoreTypes
    <3>3. CASE CloseManifest(t)
      BY <3>3 DEF CloseManifest, StoreTypes
    <3>. QED  BY <1>2, <3>1, <3>2, <3>3, Effects DEF StoreTypes
  <2>3. seen' \in [Thread -> SUBSET Package]
    <3>1. CASE Descend(t)
      <4>1. PICK d \in Package : seen' = [seen EXCEPT ![t] = @ \cup {d}]
        BY <3>1, DescendIs
      <4>. QED  BY <4>1 DEF StoreTypes
    <3>. QED  BY <1>2, <3>1, Effects DEF StoreTypes
  <2>4. answer' \in [Thread -> {"none", "ok", "error"}]
    <3>1. CASE CallReturns(t)
      BY <3>1 DEF CallReturns, StoreTypes
    <3>2. CASE CallFails(t)
      BY <3>2 DEF CallFails, Unwind, StoreTypes
    <3>. QED  BY <1>2, <3>1, <3>2, Effects DEF StoreTypes
  <2>5. clashed' \subseteq Package
    <3>1. CASE Fetch(t)
      BY <2>0, <3>1 DEF Fetch, StoreTypes
    <3>. QED  BY <1>2, <3>1, Effects DEF StoreTypes
  <2>6. DOMAIN stack[t] = 1..Len(stack[t])
    BY LenProperties DEF StoreTypes
  <2>7. unavailable' \subseteq Package
    <3>1. CASE CallFails(t)
      BY <2>0, <2>6, <3>1 DEF CallFails, StoreTypes
    <3>. QED  BY <1>2, <3>1, Effects DEF StoreTypes
  <2>. QED  BY <2>1, <2>2, <2>3, <2>4, <2>5, <2>7
<1>3. ASSUME NEW t \in Thread, NEW p \in Package, StartImport(t, p)
      PROVE  seen' \in [Thread -> SUBSET Package] /\ answer' \in [Thread -> {"none", "ok", "error"}]
  BY <1>3 DEF StartImport, StoreTypes
<1>4. CASE StoreCrash
  BY <1>1, <1>4 DEF StoreCrash, StoreTypes
<1>. QED  BY <1>1, <1>2, <1>3, <1>4 DEF StoreStep, StartImport, Rests, StoreTypes

\* The call on top is well formed.
LEMMA Tops ==
    ASSUME StoreTypes, FrameInv, NEW t \in Thread, Active(t)
    PROVE  /\ Top(t) = stack[t][1] /\ 1 \in 1..Len(stack[t]) /\ Len(stack[t]) \in Nat
           /\ Top(t) \in Frame /\ FrameOK(Top(t)) /\ Top(t).pkg \in Package
<1>1. Top(t) = stack[t][1] /\ 1 \in 1..Len(stack[t]) /\ Len(stack[t]) \in Nat /\ Top(t) \in Frame
  BY Stacks
<1>. QED  BY <1>1 DEF FrameInv, Frame

\* A call that goes on in fields that fit its place keeps all calls well formed.
LEMMA BecomesFrame ==
    ASSUME StoreTypes, FrameInv, NEW t \in Thread, Active(t), NEW pc, NEW left, NEW open, NEW deps,
           Becomes(t, pc, left, open, deps),
           left \subseteq FilesOf[Top(t).pkg], open \in FilesOf[Top(t).pkg] \cup {NoFile},
           pc \notin Phase => left = {} /\ open = NoFile,
           deps \subseteq DepsOf[Top(t).pkg], pc # "deps" => deps = {}
    PROVE  FrameInv'
<1>0. Top(t) = stack[t][1] /\ 1 \in 1..Len(stack[t]) /\ Len(stack[t]) \in Nat
  BY Stacks
<1>1. FrameOK(stack'[t][1])
  BY <1>0 DEF Becomes, FrameOK
<1>2. ASSUME NEW i \in 1..Len(stack'[t]) PROVE FrameOK(stack'[t][i]) /\ (i > 1 => stack'[t][i].pc = "deps")
  BY <1>0, <1>1, <1>2 DEF Becomes, FrameInv
<1>. QED  BY <1>2 DEF Becomes, FrameInv

\* Every step keeps the calls well formed.
LEMMA FrameStep ==
    ASSUME StoreTypes, FrameInv, StoreStep
    PROVE  FrameInv'
<1>1. ASSUME NEW t \in Thread, ImportStep(t) PROVE FrameInv'
  <2>0. Active(t) /\ FrameOK(Top(t)) /\ Top(t) = stack[t][1] /\ 1 \in 1..Len(stack[t])
        /\ Len(stack[t]) \in Nat
    <3>1. Active(t)
      <4>1. CASE ClosePayload(t)
        BY <4>1 DEF ClosePayload
      <4>. QED  BY <1>1, <4>1 DEF ImportStep, Lookup, Fetch, OpenPayload, OpenManifest, CloseManifest,
                  Descend, CallReturns, CallFails
    <3>. QED  BY <3>1, Tops
  <2>1. CASE Lookup(t)
    <3>1. Becomes(t, "deps", {}, Top(t).open, DepsOf[Top(t).pkg])
      BY <2>1, LookupIs
    <3>. QED  BY <2>0, <2>1, <3>1, BecomesFrame DEF Lookup, FrameOK, Phase
  <2>2. CASE Fetch(t)
    <3>1. Becomes(t, "analyse", FilesOf[Top(t).pkg], Top(t).open, Top(t).deps)
      BY <2>2, FetchIs
    <3>. QED  BY <2>0, <2>2, <3>1, BecomesFrame DEF Fetch, FrameOK, Phase
  <2>3. CASE OpenPayload(t)
    <3>1. PICK x \in Top(t).left : Becomes(t, Top(t).pc, Top(t).left \ {x}, x, Top(t).deps)
      BY <2>3, OpenIs
    <3>. QED  BY <2>0, <2>3, <3>1, BecomesFrame DEF OpenPayload, FrameOK, Phase
  <2>4. CASE ClosePayload(t)
    <3>1. CASE Becomes(t, Top(t).pc, Top(t).left, NoFile, {})
      BY <2>0, <2>4, <3>1, CloseIs, BecomesFrame DEF FrameOK, Phase
    <3>2. CASE Becomes(t, "rewrite", FilesOf[Top(t).pkg], NoFile, {})
      BY <2>0, <2>4, <3>2, BecomesFrame DEF FrameOK, Phase
    <3>3. CASE Becomes(t, "manifest", {}, NoFile, {})
      BY <2>0, <2>4, <3>3, BecomesFrame DEF FrameOK, Phase
    <3>. QED  BY <2>4, <3>1, <3>2, <3>3, CloseIs
  <2>5. CASE OpenManifest(t)
    <3>1. Becomes(t, "sync", Top(t).left, Top(t).open, Top(t).deps)
      BY <2>5, OpenManifestIs
    <3>. QED  BY <2>0, <2>5, <3>1, BecomesFrame DEF OpenManifest, FrameOK, Phase
  <2>6. CASE CloseManifest(t)
    <3>1. Becomes(t, "deps", {}, Top(t).open, DepsOf[Top(t).pkg])
      BY <2>6, CloseManifestIs
    <3>. QED  BY <2>0, <2>6, <3>1, BecomesFrame DEF CloseManifest, FrameOK, Phase
  <2>7. CASE Descend(t)
    <3>1. PICK d \in Top(t).deps : /\ d \in Package
              /\ \/ Becomes(t, Top(t).pc, Top(t).left, Top(t).open, Top(t).deps \ {d})
                 \/ Pushes(t, d)
      BY <2>7, DescendIs
    <3>2. CASE Becomes(t, Top(t).pc, Top(t).left, Top(t).open, Top(t).deps \ {d})
      <4>1. Top(t).deps \ {d} \subseteq DepsOf[Top(t).pkg] /\ Top(t).pc = "deps"
        BY <2>0, <2>7 DEF Descend, FrameOK
      <4>. QED  BY <2>0, <3>2, <4>1, BecomesFrame DEF FrameOK
    <3>3. CASE Pushes(t, d)
      <4>1. FrameOK(stack'[t][1])
        BY <3>1, <3>3, Calls DEF Pushes, FrameOK
      <4>2. FrameOK(stack'[t][2]) /\ stack'[t][2].pc = "deps"
        BY <2>0, <2>7, <3>3 DEF Pushes, FrameOK, Descend
      <4>3. ASSUME NEW i \in 3..Len(stack'[t]) PROVE FrameOK(stack'[t][i]) /\ stack'[t][i].pc = "deps"
        <5>1. i - 1 \in 2..Len(stack[t]) /\ stack'[t][(i - 1) + 1] = stack[t][i - 1] /\ (i - 1) + 1 = i
          BY <2>0, <3>3 DEF Pushes
        <5>. QED  BY <5>1 DEF FrameInv
      <4>4. ASSUME NEW i \in 1..Len(stack'[t]) PROVE FrameOK(stack'[t][i]) /\ (i > 1 => stack'[t][i].pc = "deps")
        <5>1. i = 1 \/ i = 2 \/ i \in 3..Len(stack'[t])
          BY <2>0, <3>3 DEF Pushes
        <5>. QED  BY <4>1, <4>2, <4>3, <5>1
      <4>. QED  BY <3>3, <4>4 DEF Pushes, FrameInv
    <3>. QED  BY <3>1, <3>2, <3>3
  <2>8. CASE CallReturns(t)
    <3>1. Pops(t)
      BY <2>8, PopIs DEF CallReturns
    <3>2. ASSUME NEW i \in 1..Len(stack'[t]) PROVE FrameOK(stack'[t][i]) /\ stack'[t][i].pc = "deps"
      <4>1. PICK k \in 1..Len(stack[t]) : k > 1 /\ stack'[t][i] = stack[t][k]
        BY <3>1, <3>2, PopShifts
      <4>. QED  BY <4>1 DEF FrameInv
    <3>3. ASSUME NEW u \in Thread, u # t, NEW i \in 1..Len(stack'[u])
          PROVE  FrameOK(stack'[u][i]) /\ (i > 1 => stack'[u][i].pc = "deps")
      <4>1. stack'[u] = stack[u]
        BY <3>1, <3>3 DEF Pops
      <4>. QED  BY <3>3, <4>1 DEF FrameInv
    <3>. QED  BY <3>2, <3>3 DEF FrameInv
  <2>9. CASE CallFails(t)
    BY <2>9, UnwindIs DEF CallFails, FrameInv
  <2>. QED  BY <1>1, <2>1, <2>2, <2>3, <2>4, <2>5, <2>6, <2>7, <2>8, <2>9 DEF ImportStep
<1>2. ASSUME NEW t \in Thread, NEW p \in Package, StartImport(t, p) PROVE FrameInv'
  <2>1. FrameOK(Call(p))
    BY Calls DEF FrameOK
  <2>. QED  BY <1>2, <2>1, StartIs DEF FrameInv
<1>3. CASE StoreCrash
  BY <1>3, EmptySeq DEF StoreCrash, FrameInv
<1>4. CASE Rests
  BY <1>4 DEF Rests, FrameInv
<1>. QED  BY <1>1, <1>2, <1>3, <1>4 DEF StoreStep

-----------------------------------------------------------------------------
(* The folders *)

\* When a package is complete, before and after a step.
LEMMA CompleteIs ==
    ASSUME NEW p \in Package
    PROVE  /\ Complete(p) <=> manifest[p] = "whole" /\ \A x \in FilesOf[p] : payload[x] = "whole"
           /\ Complete(p)' <=> manifest'[p] = "whole" /\ \A x \in FilesOf[p] : payload'[x] = "whole"
           /\ Complete(p) => Exists(p)
           /\ FilesOf[p] \subseteq File
<1>1. FilesOf[p] # {} /\ FilesOf[p] \subseteq File
  BY PackageStoreAssumption
<1>. QED  BY <1>1 DEF Complete, Exists, Promised

\* The steps that write to the folder of the package on top.
Touches(t) == Fetch(t) \/ OpenPayload(t) \/ ClosePayload(t) \/ OpenManifest(t) \/ CloseManifest(t)

\* A step writes to the folder of the package on top and to no other.
LEMMA TouchesOne ==
    ASSUME StoreTypes, FrameInv, NEW t \in Thread, Touches(t)
    PROVE  /\ Active(t) /\ clashed \subseteq clashed' /\ (Fetch(t) \/ Top(t).pc \in Writing)
           /\ \A q \in Package \ {Top(t).pkg} :
                 manifest'[q] = manifest[q] /\ \A x \in FilesOf[q] : payload'[x] = payload[x]
<1>1. Active(t)
  BY DEF Touches, Fetch, OpenPayload, ClosePayload, OpenManifest, CloseManifest
<1>2. /\ Top(t) \in Frame /\ FrameOK(Top(t)) /\ Top(t).pkg \in Package
  BY <1>1, Tops
<1>3. clashed \subseteq clashed'
  BY DEF Touches, Fetch, OpenPayload, ClosePayload, OpenManifest, CloseManifest
<1>4. Fetch(t) \/ Top(t).pc \in Writing
  BY CloseIs DEF Touches, OpenPayload, OpenManifest, CloseManifest, Writing
<1>5. ASSUME NEW q \in Package, q # Top(t).pkg
      PROVE  manifest'[q] = manifest[q] /\ \A x \in FilesOf[q] : payload'[x] = payload[x]
  <2>1. manifest'[q] = manifest[q]
    BY <1>5 DEF Touches, Fetch, OpenPayload, ClosePayload, OpenManifest, CloseManifest, StoreTypes
  <2>2. \A x \in FilesOf[q] : x \in File /\ x \notin FilesOf[Top(t).pkg]
    BY <1>2, <1>5, PackageStoreAssumption
  <2>3. CASE Fetch(t)
    BY <2>1, <2>2, <2>3 DEF Fetch
  <2>4. CASE OpenPayload(t)
    <3>1. PICK x \in Top(t).left : payload' = [payload EXCEPT ![x] = "torn"]
      BY <2>4, OpenIs
    <3>. QED  BY <1>2, <2>1, <2>2, <3>1 DEF FrameOK, StoreTypes
  <2>5. CASE ClosePayload(t)
    <3>1. /\ Top(t).open \in FilesOf[Top(t).pkg]
          /\ payload' = payload \/ payload' = [payload EXCEPT ![Top(t).open] = "whole"]
      BY <1>2, <2>5 DEF ClosePayload, FrameOK
    <3>. QED  BY <2>1, <2>2, <3>1 DEF StoreTypes
  <2>6. CASE OpenManifest(t) \/ CloseManifest(t)
    BY <2>1, <2>6 DEF OpenManifest, CloseManifest
  <2>. QED  BY <2>1, <2>3, <2>4, <2>5, <2>6 DEF Touches
<1>. QED  BY <1>1, <1>3, <1>4, <1>5

\* A folder that is written to unnoticed is incomplete, and has no other writer.
LEMMA TouchesAlone ==
    ASSUME StoreTypes, FrameInv, DiskInv, AloneInv,
           NEW t \in Thread, Touches(t), Top(t).pkg \notin clashed'
    PROVE  /\ ~Complete(Top(t).pkg) /\ Top(t).pkg \notin clashed /\ OnDisk(Top(t))
           /\ \A u \in Thread \ {t} : u \notin WritersOf(Top(t).pkg)
<1>1. Active(t) /\ clashed \subseteq clashed' /\ (Fetch(t) \/ Top(t).pc \in Writing)
  BY TouchesOne
<1>2. /\ Top(t) = stack[t][1] /\ 1 \in 1..Len(stack[t]) /\ Top(t).pkg \in Package
  BY <1>1, Tops
<1>3. OnDisk(Top(t)) /\ Top(t).pkg \notin clashed
  BY <1>1, <1>2 DEF DiskInv
<1>4. CASE Fetch(t)
  <2>1. ~Exists(Top(t).pkg) /\ WritersOf(Top(t).pkg) = {}
    BY <1>2, <1>4 DEF Fetch
  <2>. QED  BY <1>2, <1>3, <2>1, CompleteIs
<1>5. CASE Top(t).pc \in Writing
  <2>1. manifest[Top(t).pkg] \in {"absent", "torn"}
    BY <1>3, <1>5 DEF OnDisk, Writing
  <2>2. t \in WritersOf(Top(t).pkg)
    BY <1>1, <1>5 DEF WritersOf
  <2>. QED  BY <1>2, <1>3, <2>1, <2>2, CompleteIs DEF AloneInv, WritersOf
<1>. QED  BY <1>1, <1>4, <1>5

\* What does not write to a folder leaves all of them.
LEMMA Untouched ==
    ASSUME NEW t \in Thread, ImportStep(t), ~Touches(t)
    PROVE  payload' = payload /\ manifest' = manifest /\ clashed' = clashed
  BY Effects DEF Touches

\* A clash, and a package that could not be had, are not forgotten.
LEMMA ClashedGrows ==
    ASSUME StoreTypes, FrameInv, StoreStep
    PROVE  clashed \subseteq clashed' /\ unavailable \subseteq unavailable'
<1>1. ASSUME NEW t \in Thread, ImportStep(t)
      PROVE  clashed \subseteq clashed' /\ unavailable \subseteq unavailable'
  BY <1>1, Effects DEF Fetch, CallFails
<1>. QED  BY <1>1 DEF StoreStep, StartImport, StoreCrash, Rests

\* What is complete, and not written by two, stays so.
LEMMA CompleteStays ==
    ASSUME StoreTypes, FrameInv, DiskInv, AloneInv, StoreStep,
           NEW q \in Package, Complete(q), q \notin clashed'
    PROVE  Complete(q)'
<1>1. ASSUME NEW t \in Thread, Touches(t) PROVE Complete(q)'
  <2>1. q # Top(t).pkg
    BY <1>1, TouchesAlone
  <2>. QED  BY <1>1, <2>1, TouchesOne, CompleteIs
<1>2. CASE payload' = payload /\ manifest' = manifest
  BY <1>2, CompleteIs
<1>. QED  BY <1>1, <1>2, Untouched DEF StoreStep, StartImport, StoreCrash, Rests

\* A call that makes no step finds on disk what it left there.
LEMMA DiskKept ==
    ASSUME StoreTypes, FrameInv, DiskInv, AloneInv, NEW t \in Thread, ImportStep(t),
           NEW u \in Thread, NEW i \in 1..Len(stack[u]), u # t \/ i > 1,
           NEW f, f = stack[u][i]
    PROVE  OnDisk(f)'
<1>0. /\ f \in Frame /\ f.pkg \in Package /\ FrameOK(f) /\ OnDisk(f) /\ (i > 1 => f.pc = "deps")
      /\ i \in Nat
  BY Stacks DEF FrameInv, DiskInv, Frame
<1>1. CASE ~Touches(t)
  BY <1>0, <1>1, Untouched DEF OnDisk, Complete, Exists, Promised
<1>2. CASE Touches(t) /\ f.pkg # Top(t).pkg
  <2>1. /\ manifest'[f.pkg] = manifest[f.pkg] /\ \A x \in FilesOf[f.pkg] : payload'[x] = payload[x]
        /\ clashed \subseteq clashed'
    BY <1>0, <1>2, TouchesOne
  <2>2. Complete(f.pkg)' <=> Complete(f.pkg)
    BY <1>0, <2>1, CompleteIs
  <2>. QED  BY <1>0, <2>1, <2>2 DEF OnDisk, FrameOK
<1>3. CASE Touches(t) /\ f.pkg = Top(t).pkg /\ f.pkg \notin clashed'
  <2>1. /\ ~Complete(f.pkg) /\ f.pkg \notin clashed
        /\ \A w \in Thread \ {t} : w \notin WritersOf(f.pkg)
    BY <1>3, TouchesAlone
  <2>2. f.pc # "deps"
    BY <1>0, <2>1 DEF OnDisk
  <2>3. i = 1 /\ u # t
    BY <1>0, <2>2
  <2>4. f.pc \notin Writing
    <3>. SUFFICES ASSUME f.pc \in Writing PROVE u \in WritersOf(f.pkg)
      BY <2>1, <2>3
    <3>1. Active(u) /\ Top(u) = f
      BY <2>3, Stacks
    <3>. QED  BY <3>1 DEF WritersOf
  <2>5. f.pc = "lookup" /\ f.open = NoFile
    BY <1>0, <2>2, <2>4 DEF Frame, FrameOK, Writing
  <2>. QED  BY <2>5 DEF OnDisk, Phase
<1>4. CASE f.pkg \in clashed'
  BY <1>4 DEF OnDisk
<1>. QED  BY <1>1, <1>2, <1>3, <1>4

\* The call that makes a step finds on disk what the step leaves there.
LEMMA DiskMade ==
    ASSUME StoreTypes, FrameInv, DiskInv, ManifestInv, AloneInv, NEW t \in Thread, ImportStep(t),
           Active(t), NEW pc, NEW left, NEW open, NEW deps, Becomes(t, pc, left, open, deps),
           NEW f, f = stack'[t][1], OnDisk(f)'
    PROVE  DiskInv'
<1>0. Len(stack[t]) \in Nat
  BY Stacks
<1>1. ASSUME NEW u \in Thread, NEW i \in 1..Len(stack'[u]) PROVE OnDisk(stack[u][i])'
  <2>1. CASE u = t /\ i = 1
    BY <2>1 DEF OnDisk
  <2>2. CASE u # t \/ i # 1
    <3>1. i \in 1..Len(stack[u]) /\ stack'[u][i] = stack[u][i] /\ (u # t \/ i > 1)
      BY <1>0, <1>1, <2>2 DEF Becomes
    <3>2. PICK g : g = stack[u][i]
      OBVIOUS
    <3>3. OnDisk(g)'
      BY <3>1, <3>2, DiskKept
    <3>. QED  BY <3>1, <3>2, <3>3 DEF OnDisk
  <2>. QED  BY <2>1, <2>2
<1>. QED  BY <1>1 DEF DiskInv

\* Only a goroutine that imports makes a step of an import.
LEMMA StepActive ==
    ASSUME NEW t \in Thread, ImportStep(t)
    PROVE  Active(t)
<1>1. CASE ClosePayload(t)
  BY <1>1 DEF ClosePayload
<1>. QED  BY <1>1 DEF ImportStep, Lookup, Fetch, OpenPayload, OpenManifest, CloseManifest, Descend,
            CallReturns, CallFails

\* A call that is where it was, or elsewhere on a stack, when no folder changes.
LEMMA DiskSame ==
    ASSUME UNCHANGED <<payload, manifest, clashed>>, DiskInv, NEW u \in Thread, NEW i,
           NEW v \in Thread, NEW j \in 1..Len(stack[v]), stack'[u][i] = stack[v][j]
    PROVE  OnDisk(stack[u][i])'
<1>1. PICK f : f = stack[v][j]
  OBVIOUS
<1>2. OnDisk(f)
  BY <1>1 DEF DiskInv
<1>3. OnDisk(f)'
  BY <1>2 DEF OnDisk, Complete, Exists, Promised
<1>. QED  BY <1>1, <1>3 DEF OnDisk

\* Every step leaves on disk what the calls rely on.
LEMMA DiskStep ==
    ASSUME StoreTypes, FrameInv, DiskInv, ManifestInv, AloneInv, StoreStep
    PROVE  DiskInv'
<1>1. ASSUME NEW t \in Thread, ImportStep(t) PROVE DiskInv'
  <2>. DEFINE p == Top(t).pkg
  <2>0. /\ Active(t) /\ FrameOK(Top(t)) /\ OnDisk(Top(t)) /\ p \in Package /\ p = stack[t][1].pkg
        /\ Len(stack[t]) \in Nat \ {0} /\ Top(t) \in Frame /\ Top(t) = stack[t][1]
    BY <1>1, StepActive, Tops DEF DiskInv
  <2>a. clashed \subseteq clashed'
    BY <1>1, ClashedGrows DEF StoreStep
  \* Every step that replaces the call on top: what is to be shown of it.
  <2>b. ASSUME NEW pc, NEW left, NEW open, NEW deps, Becomes(t, pc, left, open, deps),
               p \notin clashed' =>
                 /\ pc \in Phase \cup {"manifest"} => manifest'[p] = "absent"
                 /\ open # NoFile => payload'[open] = "torn"
                 /\ pc = "rewrite" => \A x \in FilesOf[p] \ left : x # open => payload'[x] = "whole"
                 /\ pc = "manifest" => \A x \in FilesOf[p] : payload'[x] = "whole"
                 /\ pc = "sync" => manifest'[p] = "torn"
                 /\ pc = "deps" => manifest'[p] = "whole" /\ \A x \in FilesOf[p] : payload'[x] = "whole"
        PROVE  DiskInv'
    <3>1. PICK f : f = stack'[t][1]
      OBVIOUS
    <3>2. f.pkg = p /\ f.pc = pc /\ f.left = left /\ f.open = open
      BY <2>0, <2>b, <3>1 DEF Becomes
    <3>3. Complete(f.pkg)' <=> manifest'[p] = "whole" /\ \A x \in FilesOf[p] : payload'[x] = "whole"
      BY <2>0, <3>2, CompleteIs
    <3>. HIDE DEF p
    <3>4. OnDisk(f)'
      BY <2>b, <3>2, <3>3 DEF OnDisk
    <3>. QED  BY <1>1, <2>0, <2>b, <3>1, <3>4, DiskMade
  <2>c. Complete(p) <=> manifest[p] = "whole" /\ \A x \in FilesOf[p] : payload[x] = "whole"
    BY <2>0, CompleteIs
  <2>d. p \notin clashed => (manifest[p] # "absent" => \A x \in FilesOf[p] : payload[x] = "whole")
    BY <2>0 DEF ManifestInv
  <2>e. FilesOf[p] \subseteq File
    BY <2>0, CompleteIs
  <2>1. CASE Lookup(t)
    <3>1. Becomes(t, "deps", {}, Top(t).open, DepsOf[Top(t).pkg])
      BY <2>1, LookupIs
    <3>2. payload' = payload /\ manifest' = manifest /\ manifest[p] = "whole" /\ Top(t).open = NoFile
      BY <2>0, <2>1 DEF Lookup, Exists, FrameOK, Phase
    <3>. QED  BY <2>a, <2>b, <2>d, <3>1, <3>2 DEF Phase
  <2>2. CASE Fetch(t)
    <3>1. Becomes(t, "analyse", FilesOf[Top(t).pkg], Top(t).open, Top(t).deps)
      BY <2>2, FetchIs
    <3>2. Top(t).open = NoFile /\ manifest'[p] = "absent"
      BY <2>0, <2>2 DEF Fetch, FrameOK, Phase, StoreTypes
    <3>. QED  BY <2>b, <3>1, <3>2
  <2>3. CASE OpenPayload(t)
    <3>1. PICK x \in Top(t).left : /\ payload' = [payload EXCEPT ![x] = "torn"] /\ x \in File
                                   /\ Becomes(t, Top(t).pc, Top(t).left \ {x}, x, Top(t).deps)
      BY <2>3, OpenIs
    <3>2. /\ manifest' = manifest /\ clashed' = clashed /\ Top(t).pc \in Phase /\ Top(t).open = NoFile
      BY <2>3 DEF OpenPayload
    <3>3. payload'[x] = "torn" /\ \A y \in File \ {x} : payload'[y] = payload[y]
      BY <3>1 DEF StoreTypes
    <3>4. p \notin clashed /\ Top(t).pc = "rewrite" =>
             \A y \in FilesOf[p] \ (Top(t).left \ {x}) : y # x => payload'[y] = "whole"
      BY <2>0, <2>e, <3>1, <3>2, <3>3, NoFileAssumption DEF OnDisk
    <3>5. p \notin clashed => manifest'[p] = "absent"
      BY <2>0, <3>2 DEF OnDisk
    <3>. QED  BY <2>b, <3>1, <3>2, <3>3, <3>4, <3>5 DEF Phase
  <2>4. CASE ClosePayload(t)
    <3>0. Top(t).open \in FilesOf[p] /\ Top(t).open \in File /\ clashed' = clashed /\ manifest' = manifest
      BY <2>0, <2>4, <2>e DEF ClosePayload, FrameOK
    <3>1. p \notin clashed => /\ payload'[Top(t).open] = "whole" /\ manifest'[p] = "absent"
                              /\ \A y \in File \ {Top(t).open} : payload'[y] = payload[y]
      BY <2>0, <2>4, <3>0, CloseIs DEF ClosePayload, StoreTypes, OnDisk
    <3>2. p \notin clashed /\ Top(t).pc = "rewrite" =>
             \A y \in FilesOf[p] \ Top(t).left : payload'[y] = "whole"
      BY <2>0, <2>e, <3>0, <3>1 DEF OnDisk
    <3>3. CASE Becomes(t, Top(t).pc, Top(t).left, NoFile, {})
      BY <2>4, <2>b, <3>0, <3>1, <3>2, <3>3, CloseIs DEF Phase
    <3>4. CASE Becomes(t, "rewrite", FilesOf[Top(t).pkg], NoFile, {})
      BY <2>b, <3>0, <3>1, <3>4
    <3>5. CASE /\ Top(t).left = {} /\ Top(t).pc = "rewrite" /\ Becomes(t, "manifest", {}, NoFile, {})
      BY <2>b, <3>0, <3>1, <3>2, <3>5
    <3>. QED  BY <2>4, <3>3, <3>4, <3>5, CloseIs
  <2>5. CASE OpenManifest(t)
    <3>1. Becomes(t, "sync", Top(t).left, Top(t).open, Top(t).deps)
      BY <2>5, OpenManifestIs
    <3>2. Top(t).open = NoFile /\ manifest'[p] = "torn"
      BY <2>0, <2>5 DEF OpenManifest, FrameOK, Phase, StoreTypes
    <3>. QED  BY <2>b, <3>1, <3>2 DEF Phase
  <2>6. CASE CloseManifest(t)
    <3>1. Becomes(t, "deps", {}, Top(t).open, DepsOf[Top(t).pkg])
      BY <2>6, CloseManifestIs
    <3>2. Top(t).open = NoFile /\ payload' = payload /\ clashed' = clashed
      BY <2>0, <2>6 DEF CloseManifest, FrameOK, Phase
    <3>3. p \notin clashed => manifest[p] = "torn" /\ manifest'[p] = "whole"
      BY <2>0, <2>6 DEF CloseManifest, OnDisk, StoreTypes
    <3>. QED  BY <2>b, <2>d, <3>1, <3>2, <3>3 DEF Phase
  <2>7. CASE Descend(t)
    <3>0. /\ payload' = payload /\ manifest' = manifest /\ clashed' = clashed
          /\ Top(t).pc = "deps" /\ Top(t).open = NoFile /\ Top(t).left = {}
      BY <2>0, <2>7 DEF Descend, FrameOK, Phase
    <3>1. PICK d \in Top(t).deps : /\ d \in Package
              /\ \/ Becomes(t, Top(t).pc, Top(t).left, Top(t).open, Top(t).deps \ {d})
                 \/ Pushes(t, d)
      BY <2>7, DescendIs
    <3>2. CASE Becomes(t, Top(t).pc, Top(t).left, Top(t).open, Top(t).deps \ {d})
      BY <2>0, <2>b, <2>c, <3>0, <3>2 DEF OnDisk, Phase
    <3>3. CASE Pushes(t, d)
      <4>1. ASSUME NEW u \in Thread, NEW i \in 1..Len(stack'[u]) PROVE OnDisk(stack[u][i])'
        <5>1. CASE u # t
          BY <3>0, <3>3, <4>1, <5>1, DiskSame DEF Pushes
        <5>2. CASE u = t /\ i = 1
          BY <3>1, <3>3, <5>2, Calls DEF Pushes, OnDisk, Phase
        <5>3. CASE u = t /\ i = 2
          <6>1. PICK f : f = stack'[t][2]
            OBVIOUS
          <6>2. f.pkg = p /\ f.pc = "deps" /\ f.open = NoFile
            BY <2>0, <3>0, <3>3, <6>1 DEF Pushes
          <6>3. f.pkg \in clashed \/ Complete(f.pkg)
            BY <2>0, <3>0, <6>2 DEF OnDisk
          <6>4. f.pkg \in clashed' \/ Complete(f.pkg)'
            BY <3>0, <6>3 DEF Complete, Exists, Promised
          <6>5. OnDisk(f)'
            BY <6>2, <6>4 DEF OnDisk, Phase
          <6>. QED  BY <5>3, <6>1, <6>5 DEF OnDisk
        <5>4. CASE u = t /\ i > 2
          <6>1. i - 1 \in 1..Len(stack[t]) /\ stack'[t][(i - 1) + 1] = stack[t][i - 1] /\ (i - 1) + 1 = i
            BY <2>0, <3>3, <4>1, <5>4 DEF Pushes
          <6>2. stack'[t][i] = stack[t][i - 1]
            BY <6>1
          <6>. QED  BY <3>0, <5>4, <6>1, <6>2, DiskSame
        <5>. QED  BY <3>3, <4>1, <5>1, <5>2, <5>3, <5>4, <2>0 DEF Pushes
      <4>. QED  BY <4>1 DEF DiskInv
    <3>. QED  BY <3>1, <3>2, <3>3
  <2>8. CASE CallReturns(t)
    <3>0. payload' = payload /\ manifest' = manifest /\ clashed' = clashed /\ Pops(t)
      BY <2>8, PopIs DEF CallReturns
    <3>1. ASSUME NEW u \in Thread, NEW i \in 1..Len(stack'[u]) PROVE OnDisk(stack[u][i])'
      <4>1. CASE u # t
        BY <3>0, <3>1, <4>1, DiskSame DEF Pops
      <4>2. CASE u = t
        <5>1. i + 1 \in 1..Len(stack[t]) /\ stack'[t][i] = stack[t][i + 1]
          BY <3>0, <3>1, <4>2, PopShifts
        <5>. QED  BY <3>0, <4>2, <5>1, DiskSame
      <4>. QED  BY <4>1, <4>2
    <3>. QED  BY <3>1 DEF DiskInv
  <2>9. CASE CallFails(t)
    <3>0. payload' = payload /\ manifest' = manifest /\ clashed' = clashed /\ Unwind(t)
      BY <2>9 DEF CallFails
    <3>1. Len(stack'[t]) = 0 /\ \A u \in Thread \ {t} : stack'[u] = stack[u]
      BY <3>0, UnwindIs
    <3>2. ASSUME NEW u \in Thread, NEW i \in 1..Len(stack'[u]) PROVE OnDisk(stack[u][i])'
      <4>1. CASE u = t
        BY <3>1, <3>2, <4>1
      <4>2. CASE u # t
        BY <3>0, <3>1, <3>2, <4>2, DiskSame
      <4>. QED  BY <4>1, <4>2
    <3>. QED  BY <3>2 DEF DiskInv
  <2>. QED  BY <1>1, <2>1, <2>2, <2>3, <2>4, <2>5, <2>6, <2>7, <2>8, <2>9 DEF ImportStep
<1>2. ASSUME NEW t \in Thread, NEW p \in Package, StartImport(t, p) PROVE DiskInv'
  <2>0. payload' = payload /\ manifest' = manifest /\ clashed' = clashed
    BY <1>2 DEF StartImport
  <2>1. OnDisk(Call(p))'
    BY Calls DEF OnDisk, Phase
  <2>2. ASSUME NEW u \in Thread, NEW i \in 1..Len(stack'[u]) PROVE OnDisk(stack[u][i])'
    <3>1. CASE u = t
      <4>1. i = 1 /\ stack'[u][i] = Call(p)
        <5>1. Len(stack'[t]) = 1 /\ stack'[t][1] = Call(p)
          BY <1>2, StartIs
        <5>. QED  BY <2>2, <3>1, <5>1
      <4>. QED  BY <4>1, Calls DEF OnDisk, Phase
    <3>2. CASE u # t
      <4>1. stack'[u] = stack[u]
        BY <1>2, <3>2, StartIs
      <4>. QED  BY <2>0, <2>2, <4>1, DiskSame
    <3>. QED  BY <3>1, <3>2
  <2>. QED  BY <2>2 DEF DiskInv
<1>3. CASE StoreCrash
  BY <1>3, EmptySeq DEF StoreCrash, DiskInv
<1>4. CASE Rests
  <2>1. ASSUME NEW u \in Thread, NEW i \in 1..Len(stack'[u]) PROVE OnDisk(stack[u][i])'
    BY <1>4, <2>1, DiskSame DEF Rests
  <2>. QED  BY <2>1 DEF DiskInv
<1>. QED  BY <1>1, <1>2, <1>3, <1>4 DEF StoreStep

\* No step makes a manifest whole before its payloads.
LEMMA ManifestStep ==
    ASSUME StoreTypes, FrameInv, DiskInv, ManifestInv, AloneInv, StoreStep
    PROVE  ManifestInv'
<1>. SUFFICES ASSUME NEW q \in Package, q \notin clashed', manifest'[q] # "absent", NEW x \in FilesOf[q]
              PROVE  payload'[x] = "whole"
  BY DEF ManifestInv
<1>0. q \notin clashed /\ x \in File /\ (manifest[q] # "absent" => payload[x] = "whole")
  BY ClashedGrows, CompleteIs DEF ManifestInv
<1>1. ASSUME NEW t \in Thread, Touches(t) PROVE payload'[x] = "whole"
  <2>1. CASE Top(t).pkg # q
    BY <1>0, <1>1, <2>1, TouchesOne
  <2>2. CASE Top(t).pkg = q
    <3>1. OnDisk(Top(t)) /\ q \notin clashed
      BY <1>1, <2>2, TouchesAlone
    <3>2. CASE Fetch(t)
      BY <2>2, <3>2 DEF Fetch, StoreTypes
    <3>3. CASE OpenPayload(t)
      BY <2>2, <3>1, <3>3 DEF OpenPayload, OnDisk
    <3>4. CASE ClosePayload(t)
      <4>1. Top(t).pc \in Phase /\ manifest' = manifest
        BY <3>4, CloseIs DEF ClosePayload
      <4>. QED  BY <2>2, <3>1, <4>1 DEF OnDisk
    <3>5. CASE OpenManifest(t)
      BY <2>2, <3>1, <3>5 DEF OpenManifest, OnDisk
    <3>6. CASE CloseManifest(t)
      BY <1>0, <2>2, <3>1, <3>6 DEF CloseManifest, OnDisk
    <3>. QED  BY <1>1, <3>2, <3>3, <3>4, <3>5, <3>6 DEF Touches
  <2>. QED  BY <2>1, <2>2
<1>2. CASE payload' = payload /\ manifest' = manifest
  BY <1>0, <1>2
<1>. QED  BY <1>1, <1>2, Untouched DEF StoreStep, StartImport, StoreCrash, Rests

\* A goroutine begins to write only by fetching.
LEMMA WritersStep ==
    ASSUME StoreTypes, FrameInv, FrameInv', NEW t \in Thread, ImportStep(t), NEW p \in Package,
           NEW u \in Thread, (u \in WritersOf(p))'
    PROVE  u \in WritersOf(p) \/ (u = t /\ Fetch(t) /\ p = Top(t).pkg)
<1>0. StoreTypes' /\ Active(t) /\ Top(t) = stack[t][1] /\ Len(stack[t]) \in Nat \ {0}
  <2>1. StoreTypes'
    BY TypesStep DEF StoreStep
  <2>2. Active(t)
    BY StepActive
  <2>. QED  BY <2>1, <2>2, Tops
<1>1. CASE stack'[u] = stack[u]
  BY <1>1 DEF WritersOf, Active, Top
<1>2. stack'[u] # <<>> /\ Head(stack'[u]).pkg = p /\ Head(stack'[u]).pc \in Writing
  BY DEF WritersOf, Active, Top
<1>3. /\ stack'[u] \in Seq(Frame) /\ Len(stack'[u]) \in Nat \ {0} /\ Head(stack'[u]) = stack'[u][1]
  BY <1>0, <1>2, EmptySeq DEF StoreTypes
<1>4. ASSUME NEW pc, NEW left, NEW open, NEW deps, Becomes(t, pc, left, open, deps), u = t
      PROVE  p = Top(t).pkg /\ pc \in Writing
  BY <1>0, <1>2, <1>3, <1>4 DEF Becomes
<1>5. ASSUME u = t PROVE u \in WritersOf(p) \/ (Fetch(t) /\ p = Top(t).pkg)
  <2>1. CASE Fetch(t)
    BY <1>4, <1>5, <2>1, FetchIs
  <2>2. CASE OpenPayload(t) \/ ClosePayload(t) \/ OpenManifest(t)
    <3>1. p = Top(t).pkg
      <4>1. CASE OpenPayload(t)
        BY <1>4, <1>5, <4>1, OpenIs
      <4>2. CASE ClosePayload(t)
        BY <1>4, <1>5, <4>2, CloseIs
      <4>3. CASE OpenManifest(t)
        BY <1>4, <1>5, <4>3, OpenManifestIs
      <4>. QED  BY <2>2, <4>1, <4>2, <4>3
    <3>2. Top(t).pc \in Writing
      <4>1. Touches(t) /\ ~Fetch(t)
        BY <2>2, CloseIs DEF Touches, Fetch, OpenPayload, OpenManifest, Phase
      <4>. QED  BY <4>1, TouchesOne
    <3>. QED  BY <1>0, <1>5, <3>1, <3>2 DEF WritersOf
  <2>3. CASE Lookup(t) \/ CloseManifest(t)
    BY <1>4, <1>5, <2>3, LookupIs, CloseManifestIs DEF Writing, Phase
  <2>4. CASE Descend(t)
    <3>1. Top(t).pc = "deps"
      BY <2>4 DEF Descend
    <3>2. PICK d \in Top(t).deps : /\ d \in Package
              /\ \/ Becomes(t, Top(t).pc, Top(t).left, Top(t).open, Top(t).deps \ {d})
                 \/ Pushes(t, d)
      BY <2>4, DescendIs
    <3>3. CASE Pushes(t, d)
      <4>1. Head(stack'[u]).pc = "lookup"
        BY <1>3, <1>5, <3>2, <3>3, Calls DEF Pushes
      <4>. QED  BY <1>2, <4>1 DEF Writing, Phase
    <3>. QED  BY <1>4, <1>5, <3>1, <3>2, <3>3 DEF Writing, Phase
  <2>5. CASE CallReturns(t)
    <3>1. Pops(t)
      BY <2>5, <1>0, PopIs DEF CallReturns
    <3>2. stack'[t][1] = stack[t][2] /\ 2 \in 1..Len(stack[t])
      <4>0. Len(stack'[t]) \in Nat \ {0} /\ Len(stack'[t]) = Len(stack[t]) - 1
        <5>1. Len(stack'[t]) \in Nat \ {0}
          BY <1>3, <1>5
        <5>. QED  BY <3>1, <5>1 DEF Pops
      <4>1. 1 \in 1..Len(stack[t]) - 1
        <5>. DEFINE n == Len(stack[t])
        <5>1. n \in Nat \ {0} /\ n - 1 \in Nat \ {0}
          BY <1>0, <4>0
        <5>. HIDE DEF n
        <5>2. 1 \in 1..n - 1
          BY <5>1
        <5>. QED  BY <5>2 DEF n
      <4>2. stack'[t][1] = stack[t][1 + 1]
        BY <3>1, <4>1 DEF Pops
      <4>. QED  BY <1>0, <4>1, <4>2
    <3>3. stack'[t][1].pc = "deps"
      BY <3>2 DEF FrameInv
    <3>. QED  BY <1>2, <1>3, <1>5, <3>3 DEF Writing, Phase
  <2>6. CASE CallFails(t)
    BY <1>3, <1>5, <2>6, UnwindIs DEF CallFails
  <2>. QED  BY <2>1, <2>2, <2>3, <2>4, <2>5, <2>6 DEF ImportStep
<1>6. ASSUME u # t PROVE stack'[u] = stack[u]
  BY <1>6, OthersKeepStacks
<1>. QED  BY <1>1, <1>5, <1>6

\* Two goroutines that come to write one folder are noticed.
LEMMA AloneStep ==
    ASSUME StoreTypes, FrameInv, AloneInv, FrameInv', StoreStep
    PROVE  AloneInv'
<1>0. clashed \subseteq clashed'
  BY ClashedGrows
<1>1. ASSUME NEW t \in Thread, ImportStep(t) PROVE AloneInv'
  <2>. SUFFICES ASSUME NEW p \in Package, NEW v \in Thread, NEW w \in Thread, v # w,
                       (v \in WritersOf(p))', (w \in WritersOf(p))'
                PROVE  p \in clashed'
    BY DEF AloneInv, WritersOf
  <2>1. /\ v \in WritersOf(p) \/ (v = t /\ Fetch(t) /\ p = Top(t).pkg)
        /\ w \in WritersOf(p) \/ (w = t /\ Fetch(t) /\ p = Top(t).pkg)
    BY <1>1, WritersStep
  <2>2. CASE v \in WritersOf(p) /\ w \in WritersOf(p)
    BY <1>0, <2>2 DEF AloneInv
  <2>3. CASE Fetch(t) /\ p = Top(t).pkg /\ WritersOf(p) # {}
    BY <2>3 DEF Fetch
  <2>. QED  BY <2>1, <2>2, <2>3
<1>2. ASSUME NEW t \in Thread, NEW q \in Package, StartImport(t, q) PROVE AloneInv'
  <2>1. ASSUME NEW p \in Package, NEW u \in Thread, (u \in WritersOf(p))' PROVE u \in WritersOf(p)
    <3>1. CASE u = t
      <4>1. Head(stack'[t]) = Call(q)
        BY <1>2 DEF StartImport, StoreTypes
      <4>. QED  BY <2>1, <3>1, <4>1, Calls DEF WritersOf, Top, Writing, Phase
    <3>2. CASE u # t
      BY <1>2, <2>1, <3>2, StartIs DEF WritersOf, Active, Top
    <3>. QED  BY <3>1, <3>2
  <2>. QED  BY <1>0, <2>1 DEF AloneInv, WritersOf
<1>3. CASE StoreCrash
  BY <1>3 DEF StoreCrash, AloneInv, WritersOf, Active
<1>4. CASE Rests
  BY <1>4 DEF Rests, AloneInv, WritersOf, Active, Top
<1>. QED  BY <1>1, <1>2, <1>3, <1>4 DEF StoreStep

\* A package an import is done with stays complete, or clashes.
LEMMA DoneStays ==
    ASSUME StoreTypes, FrameInv, DiskInv, AloneInv, StoreStep,
           NEW t \in Thread, NEW q \in Package, Done(t, q), seen[t] \subseteq seen'[t]
    PROVE  Done(t, q)'
  BY CompleteStays, ClashedGrows DEF Done

\* The part of SeenInv that is about one goroutine.
SeenOf(t) ==
    /\ answer[t] # "error" => \A p \in seen[t] : Called(t, p) \/ Done(t, p)
    /\ \A i \in 1..Len(stack[t]) :
          /\ stack[t][i].pkg \in seen[t]
          /\ stack[t][i].pc = "deps" => DepsOf[stack[t][i].pkg] \ stack[t][i].deps \subseteq seen[t]
    /\ Active(t) => answer[t] = "none"

\* A step that replaces the call on top, which loses no package from sight.
LEMMA SeenBecomes ==
    ASSUME StoreTypes, FrameInv, DiskInv, AloneInv, SeenInv, StoreStep,
           NEW t \in Thread, Active(t), NEW pc, NEW left, NEW open, NEW deps,
           Becomes(t, pc, left, open, deps), answer'[t] = answer[t],
           seen'[t] = seen[t],
           pc = "deps" => DepsOf[Top(t).pkg] \ deps \subseteq seen[t]
    PROVE  SeenOf(t)'
<1>0. /\ Top(t) = stack[t][1] /\ 1 \in 1..Len(stack[t]) /\ Len(stack[t]) \in Nat
      /\ answer[t] = "none" /\ seen[t] \subseteq Package
  BY Tops DEF SeenInv, StoreTypes
<1>1. ASSUME NEW i \in 1..Len(stack[t]) PROVE stack'[t][i].pkg = stack[t][i].pkg
  BY <1>0, <1>1 DEF Becomes
<1>2. ASSUME NEW q \in seen'[t] PROVE Called(t, q)' \/ Done(t, q)'
  <2>1. CASE Called(t, q)
    BY <1>1, <2>1 DEF Called, Becomes
  <2>2. CASE Done(t, q)
    BY <1>0, <1>2, <2>2, DoneStays
  <2>. QED  BY <1>0, <1>2, <2>1, <2>2 DEF SeenInv
<1>3. ASSUME NEW i \in 1..Len(stack'[t])
      PROVE  /\ stack'[t][i].pkg \in seen'[t]
             /\ stack'[t][i].pc = "deps" => DepsOf[stack'[t][i].pkg] \ stack'[t][i].deps \subseteq seen'[t]
  BY <1>0, <1>3 DEF Becomes, SeenInv
<1>. QED  BY <1>0, <1>2, <1>3 DEF SeenOf

\* Every step leaves a package come across either called or done.
LEMMA SeenStep ==
    ASSUME StoreTypes, FrameInv, DiskInv, ManifestInv, AloneInv, SeenInv, StoreTypes', StoreStep
    PROVE  SeenInv'
<1>. SUFFICES ASSUME NEW u \in Thread PROVE SeenOf(u)'
  BY DEF SeenInv, SeenOf
<1>0. SeenOf(u) /\ seen[u] \subseteq Package
  BY DEF SeenInv, SeenOf, StoreTypes
\* A goroutine that makes no step.
<1>1. CASE stack'[u] = stack[u] /\ seen'[u] = seen[u] /\ answer'[u] = answer[u]
  <2>1. ASSUME NEW q \in seen[u], Done(u, q) PROVE Done(u, q)'
    BY <1>0, <1>1, <2>1, DoneStays
  <2>2. ASSUME NEW q \in seen[u], Called(u, q) PROVE Called(u, q)'
    BY <1>1, <2>2 DEF Called
  <2>3. answer'[u] # "error" => \A q \in seen'[u] : Called(u, q)' \/ Done(u, q)'
    BY <1>0, <1>1, <2>1, <2>2 DEF SeenOf
  <2>4. /\ \A i \in 1..Len(stack'[u]) :
              /\ stack'[u][i].pkg \in seen'[u]
              /\ stack'[u][i].pc = "deps" => DepsOf[stack'[u][i].pkg] \ stack'[u][i].deps \subseteq seen'[u]
        /\ Active(u)' => answer'[u] = "none"
    BY <1>0, <1>1 DEF SeenOf, Active
  <2>. QED  BY <2>3, <2>4 DEF SeenOf
<1>2. ASSUME NEW t \in Thread, ImportStep(t) PROVE SeenOf(u)'
  <2>0. /\ Active(t) /\ Top(t) = stack[t][1] /\ 1 \in 1..Len(stack[t]) /\ Len(stack[t]) \in Nat
        /\ answer[t] = "none" /\ seen[t] \subseteq Package /\ FrameOK(Top(t)) /\ Top(t).pkg \in Package
        /\ SeenOf(t)
    BY <1>2, StepActive, Tops DEF SeenInv, SeenOf, StoreTypes
  <2>1. CASE u # t
    <3>1. stack'[u] = stack[u]
      BY <1>2, <2>1, OthersKeepStacks
    <3>2. seen'[u] = seen[u]
      <4>1. CASE Descend(t)
        <5>1. PICK d \in Package : seen' = [seen EXCEPT ![t] = @ \cup {d}]
          BY <4>1, DescendIs
        <5>. QED  BY <2>1, <5>1 DEF StoreTypes
      <4>. QED  BY <1>2, <4>1, Effects
    <3>3. answer'[u] = answer[u]
      <4>1. CASE CallReturns(t)
        BY <2>1, <4>1 DEF CallReturns, StoreTypes
      <4>2. CASE CallFails(t)
        BY <2>1, <4>2 DEF CallFails, Unwind, StoreTypes
      <4>. QED  BY <1>2, <4>1, <4>2, Effects
    <3>. QED  BY <1>1, <3>1, <3>2, <3>3
  <2>2. CASE u = t /\ (Lookup(t) \/ Fetch(t) \/ OpenPayload(t) \/ ClosePayload(t) \/ OpenManifest(t) \/ CloseManifest(t))
    <3>1. seen'[t] = seen[t] /\ answer'[t] = answer[t]
      BY <2>2 DEF Lookup, Fetch, OpenPayload, ClosePayload, OpenManifest, CloseManifest
    <3>2. ASSUME NEW pc, NEW left, NEW open, NEW deps, Becomes(t, pc, left, open, deps),
                 pc = "deps" => DepsOf[Top(t).pkg] \ deps \subseteq seen[t]
          PROVE  SeenOf(u)'
      BY <2>0, <2>2, <3>1, <3>2, SeenBecomes
    <3>3. CASE Lookup(t) \/ CloseManifest(t)
      <4>1. DepsOf[Top(t).pkg] \ DepsOf[Top(t).pkg] \subseteq seen[t]
        OBVIOUS
      <4>. QED  BY <3>2, <3>3, <4>1, LookupIs, CloseManifestIs
    <3>4. CASE Fetch(t)
      BY <3>2, <3>4, FetchIs
    <3>5. CASE OpenPayload(t)
      BY <3>2, <3>5, OpenIs DEF OpenPayload, Phase
    <3>6. CASE ClosePayload(t)
      BY <3>2, <3>6, CloseIs DEF Phase
    <3>7. CASE OpenManifest(t)
      BY <3>2, <3>7, OpenManifestIs
    <3>. QED  BY <2>2, <3>3, <3>4, <3>5, <3>6, <3>7
  <2>3. CASE u = t /\ Descend(t)
    <3>1. PICK d \in Top(t).deps :
              /\ d \in Package /\ seen' = [seen EXCEPT ![t] = @ \cup {d}]
              /\ IF d \in seen[t]
                 THEN Becomes(t, Top(t).pc, Top(t).left, Top(t).open, Top(t).deps \ {d})
                 ELSE Pushes(t, d)
      BY <2>3, DescendIs
    <3>2. /\ seen'[t] = seen[t] \cup {d} /\ answer'[t] = answer[t] /\ Top(t).pc = "deps"
          /\ DepsOf[Top(t).pkg] \ Top(t).deps \subseteq seen[t]
      BY <2>0, <2>3, <3>1 DEF Descend, StoreTypes, SeenOf
    <3>3. CASE d \in seen[t]
      <4>1. seen'[t] = seen[t] /\ DepsOf[Top(t).pkg] \ (Top(t).deps \ {d}) \subseteq seen[t]
        BY <3>2, <3>3
      <4>2. Becomes(t, Top(t).pc, Top(t).left, Top(t).open, Top(t).deps \ {d})
        BY <3>1, <3>3
      <4>. QED  BY <2>0, <2>3, <3>2, <4>1, <4>2, SeenBecomes
    <3>4. CASE Pushes(t, d)
      <4>1. /\ stack'[t][1].pkg = d /\ stack'[t][1].pc = "lookup" /\ Len(stack'[t]) = Len(stack[t]) + 1
        BY <3>1, <3>4, Calls DEF Pushes
      <4>2. ASSUME NEW i \in 1..Len(stack[t]) PROVE stack'[t][i + 1].pkg = stack[t][i].pkg /\ i + 1 \in 1..Len(stack'[t])
        <5>1. CASE i = 1
          BY <2>0, <3>4, <5>1 DEF Pushes
        <5>2. CASE i # 1
          BY <2>0, <3>4, <4>2, <5>2 DEF Pushes
        <5>. QED  BY <5>1, <5>2
      <4>3. ASSUME NEW q \in seen'[t] PROVE Called(t, q)' \/ Done(t, q)'
        <5>1. CASE q = d
          <6>1. 1 \in 1..Len(stack'[t])
            BY <2>0, <4>1
          <6>. QED  BY <4>1, <5>1, <6>1 DEF Called
        <5>2. CASE Called(t, q)
          BY <4>2, <5>2 DEF Called
        <5>3. CASE Done(t, q) /\ q \in seen[t]
          BY <2>0, <3>2, <5>3, DoneStays
        <5>. QED  BY <2>0, <3>2, <4>3, <5>1, <5>2, <5>3 DEF SeenOf
      <4>4. ASSUME NEW i \in 1..Len(stack'[t])
            PROVE  /\ stack'[t][i].pkg \in seen'[t]
                   /\ stack'[t][i].pc = "deps" =>
                         DepsOf[stack'[t][i].pkg] \ stack'[t][i].deps \subseteq seen'[t]
        <5>1. CASE i = 1
          BY <3>2, <4>1, <5>1
        <5>2. CASE i = 2
          <6>1. stack'[t][2].pkg = Top(t).pkg /\ stack'[t][2].deps = Top(t).deps \ {d}
            BY <2>0, <3>4 DEF Pushes
          <6>2. Top(t).pkg \in seen[t]
            BY <2>0 DEF SeenOf
          <6>. QED  BY <3>2, <5>2, <6>1, <6>2
        <5>3. CASE i > 2
          <6>1. i - 1 \in 2..Len(stack[t]) /\ stack'[t][(i - 1) + 1] = stack[t][i - 1] /\ (i - 1) + 1 = i
            BY <2>0, <3>4, <4>4, <4>1, <5>3 DEF Pushes
          <6>2. i - 1 \in 1..Len(stack[t]) /\ stack'[t][i] = stack[t][i - 1]
            BY <6>1
          <6>. QED  BY <2>0, <3>2, <6>2 DEF SeenOf
        <5>. QED  BY <2>0, <4>1, <5>1, <5>2, <5>3
      <4>. QED  BY <2>0, <2>3, <3>2, <4>3, <4>4 DEF SeenOf
    <3>. QED  BY <3>1, <3>3, <3>4
  <2>4. CASE u = t /\ CallReturns(t)
    <3>1. /\ Pops(t) /\ seen' = seen /\ Top(t).pc = "deps" /\ Top(t).deps = {}
          /\ answer' = IF Len(stack[t]) = 1 THEN [answer EXCEPT ![t] = "ok"] ELSE answer
      BY <2>4, PopIs DEF CallReturns
    <3>2. Done(t, Top(t).pkg)
      <4>1. DepsOf[Top(t).pkg] \subseteq seen[t]
        BY <2>0, <3>1 DEF SeenOf
      <4>2. Complete(Top(t).pkg) \/ Top(t).pkg \in clashed
        BY <2>0, <3>1 DEF DiskInv, OnDisk
      <4>. QED  BY <4>1, <4>2 DEF Done
    <3>3. ASSUME NEW q \in seen'[t] PROVE Called(t, q)' \/ Done(t, q)'
      <4>1. CASE Done(t, q)
        BY <2>0, <3>1, <3>3, <4>1, DoneStays
      <4>2. ASSUME NEW i \in 1..Len(stack[t]), stack[t][i].pkg = q, i # 1 PROVE Called(t, q)'
        <5>1. i - 1 \in 1..Len(stack[t]) - 1 /\ (i - 1) + 1 = i
          BY <2>0, <4>2
        <5>2. stack'[t][i - 1] = stack[t][i] /\ i - 1 \in 1..Len(stack'[t])
          BY <3>1, <5>1 DEF Pops
        <5>. QED  BY <4>2, <5>2 DEF Called
      <4>. QED  BY <2>0, <3>1, <3>2, <3>3, <4>1, <4>2 DEF SeenOf, Called
    <3>4. ASSUME NEW i \in 1..Len(stack'[t])
          PROVE  /\ stack'[t][i].pkg \in seen'[t]
                 /\ stack'[t][i].pc = "deps" =>
                       DepsOf[stack'[t][i].pkg] \ stack'[t][i].deps \subseteq seen'[t]
      <4>1. i + 1 \in 1..Len(stack[t]) /\ stack'[t][i] = stack[t][i + 1]
        BY <3>1, <3>4, PopShifts
      <4>. QED  BY <2>0, <3>1, <4>1 DEF SeenOf
    <3>5. Active(t)' => answer'[t] = "none"
      <4>1. Active(t)' => Len(stack'[t]) \in Nat \ {0}
        BY EmptySeq DEF Active, StoreTypes
      <4>2. Active(t)' => Len(stack[t]) # 1
        BY <2>0, <3>1, <4>1 DEF Pops
      <4>. QED  BY <2>0, <3>1, <4>2
    <3>. QED  BY <2>4, <3>3, <3>4, <3>5 DEF SeenOf
  <2>5. CASE u = t /\ CallFails(t)
    <3>1. answer'[t] = "error" /\ Len(stack'[t]) = 0 /\ stack'[t] = <<>>
      BY <2>5, UnwindIs DEF CallFails, Unwind, StoreTypes
    <3>. QED  BY <2>5, <3>1 DEF SeenOf, Active
  <2>. QED  BY <1>2, <2>1, <2>2, <2>3, <2>4, <2>5 DEF ImportStep
<1>3. ASSUME NEW t \in Thread, NEW p \in Package, StartImport(t, p) PROVE SeenOf(u)'
  <2>1. CASE u = t
    <3>1. /\ Len(stack'[t]) = 1 /\ stack'[t][1].pkg = p /\ stack'[t][1].pc = "lookup"
          /\ seen'[t] = {p} /\ answer'[t] = "none"
      BY <1>3, StartIs, Calls DEF StartImport, StoreTypes
    <3>2. Called(t, p)'
      BY <3>1 DEF Called
    <3>3. \A i \in 1..Len(stack'[t]) : i = 1
      BY <3>1
    <3>. QED  BY <2>1, <3>1, <3>2, <3>3 DEF SeenOf
  <2>2. CASE u # t
    BY <1>1, <1>3, <2>2 DEF StartImport, StoreTypes
  <2>. QED  BY <2>1, <2>2
<1>4. CASE StoreCrash
  BY <1>4, EmptySeq DEF StoreCrash, SeenOf, Active
<1>5. CASE Rests
  BY <1>1, <1>5 DEF Rests
<1>. QED  BY <1>2, <1>3, <1>4, <1>5 DEF StoreStep

-----------------------------------------------------------------------------
(* The inductive invariant of the export *)

Busy == {"resolve", "import", "claim", "stream", "finish"}
Entries == [File -> Unit \cup {Nobody, Inline}]
Targets == [state : {"absent", "empty", "part", "whole"}, entry : Entries, external : SUBSET Package]
Jobs == [pc : {"job", "visit", "resolve", "import", "claim", "stream", "finish"},
         group : Groups \cup {0}, unit : Unit \cup {NoUnit}, pkg : Package \cup {NoPackage},
         todo : SUBSET Package, modules : SUBSET File, entry : Entries, external : SUBSET Package]

ExportTypes ==
    /\ persisted \in BOOLEAN /\ cut \in BOOLEAN
    /\ registry \in [File -> Unit \cup {Nobody}] /\ owners \in [File -> Unit \cup {Nobody}]
    /\ target \in [Unit -> Targets] /\ worker \in [Thread -> Jobs]
    /\ nextGroup \in Nat /\ visited \subseteq Unit /\ failed \in BOOLEAN
    /\ verdict \in {"running", "ok", "error", "killed"} /\ runs \in 1..MaxRuns
    /\ failures \in 0..MaxFailures

\* A worker that is at a unit has one; the calls on its stack are made for the
\* package it imports, and when they have returned the answer is there.
WorkerOf(t) ==
    /\ worker[t].pc \in Busy => worker[t].unit \in Unit
    /\ worker[t].pc \notin Busy => worker[t].entry = NoOwners
    /\ worker[t].pc \in {"stream", "finish"} => worker[t].todo = {}
    /\ Active(t) => worker[t].pc = "import" /\ stack[t][Len(stack[t])].pkg = worker[t].pkg
    /\ worker[t].pc = "import" =>
          /\ worker[t].pkg \in Package
          /\ worker[t].pkg \in seen[t]
          /\ Active(t) \/ answer[t] = "ok" \/ (answer[t] = "error" /\ worker[t].pkg \in unavailable)
WorkerInv == \A t \in Thread : WorkerOf(t)

\* Of a package that a unit needs, its worker has still to resolve it, is importing
\* it, is claiming its modules, or has an entry for each of them.
Lost(p) == p \in clashed \cup unavailable
EntryOf(t, p) ==
    \/ Lost(p) \/ p \in worker[t].todo
    \/ (worker[t].pc = "import" /\ worker[t].pkg = p)
    \/ \A m \in FilesOf[p] : (worker[t].pc = "claim" /\ m \in worker[t].modules) \/ worker[t].entry[m] # Nobody
EntryInv ==
    /\ \A t \in Thread : worker[t].pc \in Busy => \A p \in Needs[worker[t].unit] : EntryOf(t, p)
    /\ \A u \in Unit : Whole(u) =>
          \A p \in Needs[u] : Lost(p) \/ \A m \in FilesOf[p] : target[u].entry[m] # Nobody

\* A file of which no write was cut short holds what the last process knew.
RegistryInv == persisted /\ ~cut => registry = owners

\* Whoever carries a module, or is about to, owns it.
OneHistory == runs = 1 \/ (persisted /\ ~cut)
OwnerInv == OneHistory =>
    /\ \A u \in Unit : \A m \in File : target[u].entry[m] = Inline => owners[m] = u
    /\ \A t \in Thread : \A m \in File :
          verdict = "running" /\ worker[t].pc \in Busy /\ worker[t].entry[m] = Inline =>
             owners[m] = worker[t].unit

\* Between two runs nobody is at work.
RunInv == verdict # "running" => \A t \in Thread : worker[t].pc = "job"

ExportInv == StoreTypes /\ FolderInv /\ ExportTypes /\ WorkerInv /\ EntryInv /\ RegistryInv /\ OwnerInv /\ RunInv

-----------------------------------------------------------------------------
(* The steps of the workers *)

\* Worker t is at this now; the others are where they were.
Works(t, pc, unit, pkg, todo, modules, entry) ==
    /\ worker' \in [Thread -> Jobs]
    /\ \A u \in Thread \ {t} : worker'[u] = worker[u]
    /\ worker'[t].pc = pc /\ worker'[t].unit = unit /\ worker'[t].pkg = pkg
    /\ worker'[t].todo = todo /\ worker'[t].modules = modules /\ worker'[t].entry = entry

\* Nobody, Inline and the values built from them differ from units.
LEMMA Markers ==
    /\ Nobody # Inline /\ NoOwners \in Entries /\ \A m \in File : NoOwners[m] = Nobody
    /\ NoTarget \in Targets /\ NoTarget.entry = NoOwners /\ NoTarget.state = "absent"
    /\ \A g \in Groups \cup {0} : \A pc \in {"job", "visit"} : Job(pc, g) \in Jobs
<1>1. NoOwners \in Entries /\ \A m \in File : NoOwners[m] = Nobody
  BY DEF NoOwners, Entries
<1>2. Nobody # Inline
  BY DEF Nobody, Inline
<1>3. NoTarget \in Targets /\ NoTarget.entry = NoOwners /\ NoTarget.state = "absent"
  BY <1>1 DEF NoTarget, Targets
<1>4. ASSUME NEW g \in Groups \cup {0}, NEW pc \in {"job", "visit"} PROVE Job(pc, g) \in Jobs
  BY <1>1 DEF Job, Jobs
<1>. QED  BY <1>1, <1>2, <1>3, <1>4

\* A worker that takes or leaves a directory has no unit.
LEMMA JobWorks ==
    ASSUME ExportTypes, NEW t \in Thread, NEW pc \in {"job", "visit"}, NEW g \in Groups \cup {0},
           worker' = [worker EXCEPT ![t] = Job(pc, g)]
    PROVE  Works(t, pc, NoUnit, NoPackage, {}, {}, NoOwners)
<1>1. Job(pc, g) \in Jobs
  BY Markers
<1>2. worker'[t] = Job(pc, g) /\ worker' \in [Thread -> Jobs] /\ \A u \in Thread \ {t} : worker'[u] = worker[u]
  BY <1>1 DEF ExportTypes
<1>. QED  BY <1>2 DEF Works, Job

\* A worker between two units has none.
LEMMA NextFileWorks ==
    ASSUME ExportTypes, NEW t \in Thread, NextFile(t)
    PROVE  Works(t, "visit", NoUnit, NoPackage, {}, {}, NoOwners)
<1>1. worker[t].group \in Groups \cup {0}
  BY DEF ExportTypes, Jobs
<1>2. worker' = [worker EXCEPT ![t] = Job("visit", worker[t].group)]
  BY DEF NextFile
<1>. QED  BY <1>1, <1>2, JobWorks

\* Streaming and finishing keep what the worker holds of its unit.
LEMMA GoWorks ==
    ASSUME ExportTypes, NEW t \in Thread, NEW pc \in {"stream", "finish"}, Go(t, pc)
    PROVE  Works(t, pc, worker[t].unit, worker[t].pkg, worker[t].todo, worker[t].modules, worker[t].entry)
<1>1. worker[t] \in Jobs
  BY DEF ExportTypes
<1>2. worker'[t] = [worker[t] EXCEPT !.pc = pc] /\ \A u \in Thread \ {t} : worker'[u] = worker[u]
  BY DEF Go, ExportTypes
<1>3. [worker[t] EXCEPT !.pc = pc] \in Jobs
  BY <1>1 DEF Jobs
<1>4. worker' \in [Thread -> Jobs]
  BY <1>3 DEF Go, ExportTypes
<1>. QED  BY <1>1, <1>2, <1>4 DEF Works, Jobs

\* A worker that begins a unit has all packages of it to resolve.
LEMMA BeginWorks ==
    ASSUME ExportTypes, NEW t \in Thread, BeginUnit(t)
    PROVE  \E u \in Unit \ visited :
              /\ ~Keep(u) /\ visited' = visited \cup {u} /\ worker[t].pc = "visit"
              /\ Works(t, "resolve", u, worker[t].pkg, Needs[u], worker[t].modules, worker[t].entry)
<1>1. PICK u \in Unit :
          /\ NextUnit(t, u) /\ ~Keep(u)
          /\ worker' = [worker EXCEPT ![t].pc = "resolve", ![t].unit = u, ![t].todo = Needs[u]]
  BY DEF BeginUnit
<1>. DEFINE j == [worker[t] EXCEPT !.pc = "resolve", !.unit = u, !.todo = Needs[u]]
<1>2. worker' = [worker EXCEPT ![t] = j] /\ worker[t] \in Jobs
  BY <1>1 DEF ExportTypes
<1>3. /\ j \in Jobs /\ j.pc = "resolve" /\ j.unit = u /\ j.pkg = worker[t].pkg /\ j.todo = Needs[u]
      /\ j.modules = worker[t].modules /\ j.entry = worker[t].entry
  BY <1>2, ProjectExportAssumption DEF Jobs
<1>. HIDE DEF j
<1>4. worker'[t] = j /\ worker' \in [Thread -> Jobs] /\ \A v \in Thread \ {t} : worker'[v] = worker[v]
  BY <1>2, <1>3 DEF ExportTypes
<1>5. Works(t, "resolve", u, worker[t].pkg, Needs[u], worker[t].modules, worker[t].entry)
  BY <1>3, <1>4 DEF Works
<1>. QED  BY <1>1, <1>5 DEF NextUnit, At

\* A package found in the store gives its modules to claim.
LEMMA StoredWorks ==
    ASSUME ExportTypes, NEW t \in Thread, ResolveStored(t)
    PROVE  \E p \in worker[t].todo :
              /\ p \in Package
              /\ Works(t, "claim", worker[t].unit, worker[t].pkg, worker[t].todo \ {p}, FilesOf[p], worker[t].entry)
<1>1. PICK p \in worker[t].todo :
          worker' = [worker EXCEPT ![t].pc = "claim", ![t].modules = FilesOf[p], ![t].todo = @ \ {p}]
  BY DEF ResolveStored
<1>. DEFINE j == [worker[t] EXCEPT !.pc = "claim", !.modules = FilesOf[p], !.todo = @ \ {p}]
<1>2. worker' = [worker EXCEPT ![t] = j] /\ worker[t] \in Jobs
  BY <1>1 DEF ExportTypes
<1>3. p \in Package /\ FilesOf[p] \in SUBSET File
  BY <1>2, PackageStoreAssumption DEF Jobs
<1>4. /\ j \in Jobs /\ j.pc = "claim" /\ j.unit = worker[t].unit /\ j.pkg = worker[t].pkg
      /\ j.todo = worker[t].todo \ {p} /\ j.modules = FilesOf[p] /\ j.entry = worker[t].entry
  BY <1>2, <1>3 DEF Jobs
<1>. HIDE DEF j
<1>5. worker'[t] = j /\ worker' \in [Thread -> Jobs] /\ \A v \in Thread \ {t} : worker'[v] = worker[v]
  BY <1>2, <1>4 DEF ExportTypes
<1>. QED  BY <1>3, <1>4, <1>5 DEF Works

\* A package not found is imported on behalf of the unit.
LEMMA ResolveImportWorks ==
    ASSUME ExportTypes, NEW t \in Thread, ResolveImport(t)
    PROVE  \E p \in worker[t].todo :
              /\ p \in Package /\ StartImport(t, p)
              /\ Works(t, "import", worker[t].unit, p, worker[t].todo \ {p}, worker[t].modules, worker[t].entry)
<1>1. PICK p \in worker[t].todo :
          /\ StartImport(t, p)
          /\ worker' = [worker EXCEPT ![t].pc = "import", ![t].pkg = p, ![t].todo = @ \ {p}]
  BY DEF ResolveImport
<1>. DEFINE j == [worker[t] EXCEPT !.pc = "import", !.pkg = p, !.todo = @ \ {p}]
<1>2. worker' = [worker EXCEPT ![t] = j] /\ worker[t] \in Jobs
  BY <1>1 DEF ExportTypes
<1>3. p \in Package
  BY <1>2 DEF Jobs
<1>4. /\ j \in Jobs /\ j.pc = "import" /\ j.unit = worker[t].unit /\ j.pkg = p
      /\ j.todo = worker[t].todo \ {p} /\ j.modules = worker[t].modules /\ j.entry = worker[t].entry
  BY <1>2, <1>3 DEF Jobs
<1>. HIDE DEF j
<1>5. worker'[t] = j /\ worker' \in [Thread -> Jobs] /\ \A v \in Thread \ {t} : worker'[v] = worker[v]
  BY <1>2, <1>4 DEF ExportTypes
<1>. QED  BY <1>1, <1>3, <1>4, <1>5 DEF Works

\* An import that succeeded gives its modules to claim, one that failed gives none.
LEMMA ImportedWorks ==
    ASSUME StoreTypes, ExportTypes, NEW t \in Thread, Imported(t), worker[t].pkg \in Package
    PROVE  IF answer[t] = "ok" /\ Readable(worker[t].pkg) # {}
           THEN Works(t, "claim", worker[t].unit, NoPackage, worker[t].todo, Readable(worker[t].pkg), worker[t].entry)
           ELSE Works(t, "resolve", worker[t].unit, NoPackage, worker[t].todo, worker[t].modules, worker[t].entry)
<1>. DEFINE p == worker[t].pkg
<1>1. worker[t] \in Jobs /\ Readable(p) \in SUBSET File
  BY PackageStoreAssumption DEF ExportTypes, Readable
<1>2. CASE answer[t] = "ok" /\ Readable(p) # {}
  <2>. DEFINE j == [worker[t] EXCEPT !.pc = "claim", !.pkg = NoPackage, !.modules = Readable(p)]
  <2>1. worker' = [worker EXCEPT ![t] = j]
    BY <1>2 DEF Imported, ExportTypes
  <2>2. /\ j \in Jobs /\ j.pc = "claim" /\ j.unit = worker[t].unit /\ j.pkg = NoPackage
        /\ j.todo = worker[t].todo /\ j.modules = Readable(p) /\ j.entry = worker[t].entry
    <3>. HIDE DEF p
    <3>. QED  BY <1>1 DEF Jobs
  <2>. HIDE DEF j
  <2>3. worker'[t] = j /\ worker' \in [Thread -> Jobs] /\ \A v \in Thread \ {t} : worker'[v] = worker[v]
    BY <2>1, <2>2 DEF ExportTypes
  <2>. QED  BY <1>2, <2>2, <2>3 DEF Works
<1>3. CASE ~(answer[t] = "ok" /\ Readable(p) # {})
  <2>. DEFINE j == [worker[t] EXCEPT !.pc = "resolve", !.pkg = NoPackage, !.external = @ \cup {p}]
  <2>1. worker' = [worker EXCEPT ![t] = j]
    BY <1>3 DEF Imported, ExportTypes
  <2>2. /\ j \in Jobs /\ j.pc = "resolve" /\ j.unit = worker[t].unit /\ j.pkg = NoPackage
        /\ j.todo = worker[t].todo /\ j.modules = worker[t].modules /\ j.entry = worker[t].entry
    <3>1. p \in Package
      OBVIOUS
    <3>. HIDE DEF p
    <3>. QED  BY <1>1, <3>1 DEF Jobs
  <2>. HIDE DEF j
  <2>3. worker'[t] = j /\ worker' \in [Thread -> Jobs] /\ \A v \in Thread \ {t} : worker'[v] = worker[v]
    BY <2>1, <2>2 DEF ExportTypes
  <2>. QED  BY <1>3, <2>2, <2>3 DEF Works
<1>. QED  BY <1>2, <1>3

\* What a claim of m makes of the registry file: it holds the owners, unless the
\* write was cut short.
Saves(m) ==
    /\ cut' = cut \/ cut' = TRUE
    /\ ~cut' => registry' = IF Free(m) /\ persisted THEN owners' ELSE registry
    /\ registry' \in {registry, owners', NoOwners}

\* A claim makes the unit the owner of a free module and enters the owner of any.
LEMMA ClaimWorks ==
    ASSUME ExportTypes, NEW t \in Thread, Claim(t), worker[t].unit \in Unit
    PROVE  \E m \in worker[t].modules :
              /\ m \in File
              /\ owners' = IF Free(m) THEN [owners EXCEPT ![m] = worker[t].unit] ELSE owners
              /\ Saves(m)
              /\ Works(t, IF worker[t].modules = {m} THEN "resolve" ELSE "claim", worker[t].unit, worker[t].pkg,
                       worker[t].todo, worker[t].modules \ {m},
                       [worker[t].entry EXCEPT ![m] = IF Free(m) THEN Inline ELSE owners[m]])
<1>1. PICK m \in worker[t].modules :
          /\ owners' = IF Free(m) THEN [owners EXCEPT ![m] = worker[t].unit] ELSE owners
          /\ Saves(m)
          /\ worker' = [worker EXCEPT ![t].modules = @ \ {m},
                            ![t].pc = IF worker[t].modules = {m} THEN "resolve" ELSE "claim",
                            ![t].entry[m] = IF Free(m) THEN Inline ELSE owners[m]]
  BY DEF Claim, Save, Saves
<1>. DEFINE pc == IF worker[t].modules = {m} THEN "resolve" ELSE "claim"
            e == [worker[t].entry EXCEPT ![m] = IF Free(m) THEN Inline ELSE owners[m]]
            j == [worker[t] EXCEPT !.modules = @ \ {m}, !.pc = pc, !.entry = e]
<1>2. worker[t] \in Jobs /\ m \in File
  BY DEF ExportTypes, Jobs
<1>3. e \in Entries
  BY <1>2 DEF Jobs, Entries, ExportTypes
<1>4. worker' = [worker EXCEPT ![t] = j]
  BY <1>1, <1>2 DEF ExportTypes, Jobs
<1>5. pc \in {"resolve", "claim"}
  OBVIOUS
<1>. HIDE DEF e, pc
<1>6. /\ j \in Jobs /\ j.pc = pc /\ j.unit = worker[t].unit /\ j.pkg = worker[t].pkg
      /\ j.todo = worker[t].todo /\ j.modules = worker[t].modules \ {m} /\ j.entry = e
  BY <1>2, <1>3, <1>5 DEF Jobs
<1>. HIDE DEF j
<1>7. worker'[t] = j /\ worker' \in [Thread -> Jobs] /\ \A v \in Thread \ {t} : worker'[v] = worker[v]
  BY <1>4, <1>6 DEF ExportTypes
<1>8. Works(t, pc, worker[t].unit, worker[t].pkg, worker[t].todo, worker[t].modules \ {m}, e)
  BY <1>6, <1>7 DEF Works
<1>. QED  BY <1>1, <1>2, <1>8 DEF pc, e

\* The steps that leave the store alone, and what they make of the worker.
Alone(t) ==
    \/ TakeJob(t) \/ PackageFails(t) \/ LowerFails(t) \/ KeepUnit(t) \/ BeginUnit(t) \/ GroupEnds(t)
    \/ ResolveStored(t) \/ Imported(t) \/ Claim(t) \/ EmbedFails(t)
    \/ Create(t) \/ Stream(t) \/ Finish(t) \/ WriteFails(t)

\* The steps of a worker at its unit leave the store alone.
LEMMA AloneRests ==
    ASSUME NEW t \in Thread, Alone(t)
    PROVE  Rests /\ UNCHANGED <<persisted, verdict, runs>> /\ verdict = "running"
<1>1. CASE TakeJob(t) \/ PackageFails(t) \/ LowerFails(t) \/ KeepUnit(t) \/ BeginUnit(t) \/ GroupEnds(t)
  BY <1>1 DEF TakeJob, PackageFails, LowerFails, KeepUnit, BeginUnit, GroupEnds, NextUnit, Rests, storeVars, At
<1>2. CASE ResolveStored(t) \/ Imported(t) \/ Claim(t) \/ EmbedFails(t)
  BY <1>2 DEF ResolveStored, Imported, Claim, EmbedFails, Rests, storeVars, At
<1>3. CASE Create(t) \/ Stream(t) \/ Finish(t) \/ WriteFails(t)
  BY <1>3 DEF Create, Stream, Finish, WriteFails, Rests, storeVars, At
<1>. QED  BY <1>1, <1>2, <1>3 DEF Alone

\* Every step of the export is one that the store may see.
LEMMA ExportSteps ==
    ASSUME ExportTypes, [Next]_vars
    PROVE  /\ StoreStep
           /\ \/ \E t \in Thread : Alone(t) \/ ResolveImport(t) \/ Import(t)
              \/ Return \/ Crash \/ Resume \/ UNCHANGED vars
<1>1. \/ \E t \in Thread : Alone(t) \/ ResolveImport(t) \/ Import(t)
      \/ Return \/ Crash \/ Resume \/ UNCHANGED vars
  BY DEF Next, Alone
<1>2. ASSUME NEW t \in Thread, ResolveImport(t) PROVE StoreStep
  BY <1>2, ResolveImportWorks DEF StoreStep
<1>3. ASSUME NEW t \in Thread, Import(t) PROVE StoreStep
  BY <1>3 DEF Import, StoreStep
<1>4. CASE Return \/ Crash \/ Resume \/ UNCHANGED vars
  BY <1>4 DEF Return, Crash, Resume, vars, storeVars, StoreStep, Rests
<1>. QED  BY <1>1, <1>2, <1>3, <1>4, AloneRests DEF StoreStep

\* A worker's step, field by field: the first six leave the unit or take one, the
\* rest go on with it.
LEMMA AloneWorks ==
    ASSUME StoreTypes, ExportTypes, WorkerInv, NEW t \in Thread, Alone(t)
    PROVE  \/ /\ TakeJob(t) \/ PackageFails(t) \/ GroupEnds(t) \/ EmbedFails(t) \/ Finish(t) \/ WriteFails(t)
              /\ Works(t, "job", NoUnit, NoPackage, {}, {}, NoOwners)
                 \/ Works(t, "visit", NoUnit, NoPackage, {}, {}, NoOwners)
           \/ (LowerFails(t) \/ KeepUnit(t)) /\ worker' = worker
           \/ /\ BeginUnit(t)
              /\ \E u \in Unit \ visited :
                    /\ ~Keep(u) /\ visited' = visited \cup {u} /\ worker[t].pc = "visit"
                    /\ Works(t, "resolve", u, worker[t].pkg, Needs[u], worker[t].modules, worker[t].entry)
           \/ /\ ResolveStored(t)
              /\ \E p \in worker[t].todo : /\ p \in Package
                    /\ Works(t, "claim", worker[t].unit, worker[t].pkg, worker[t].todo \ {p}, FilesOf[p],
                             worker[t].entry)
           \/ /\ Imported(t) /\ answer[t] = "ok" /\ Readable(worker[t].pkg) # {}
              /\ Works(t, "claim", worker[t].unit, NoPackage, worker[t].todo, Readable(worker[t].pkg),
                       worker[t].entry)
           \/ /\ Imported(t) /\ ~(answer[t] = "ok" /\ Readable(worker[t].pkg) # {})
              /\ Works(t, "resolve", worker[t].unit, NoPackage, worker[t].todo, worker[t].modules,
                       worker[t].entry)
           \/ /\ Claim(t)
              /\ \E m \in worker[t].modules :
                    /\ m \in File
                    /\ owners' = IF Free(m) THEN [owners EXCEPT ![m] = worker[t].unit] ELSE owners
                    /\ Saves(m)
                    /\ Works(t, IF worker[t].modules = {m} THEN "resolve" ELSE "claim", worker[t].unit,
                             worker[t].pkg, worker[t].todo, worker[t].modules \ {m},
                             [worker[t].entry EXCEPT ![m] = IF Free(m) THEN Inline ELSE owners[m]])
           \/ \E pc \in {"stream", "finish"} :
                 /\ IF pc = "stream" THEN Create(t) ELSE Stream(t)
                 /\ Works(t, pc, worker[t].unit, worker[t].pkg, worker[t].todo, worker[t].modules,
                          worker[t].entry)
<1>1. CASE TakeJob(t)
  <2>1. nextGroup \in Groups \cup {0} /\ worker' = [worker EXCEPT ![t] = Job("visit", nextGroup)]
    BY <1>1 DEF TakeJob, JobsOpen
  <2>. QED  BY <1>1, <2>1, JobWorks
<1>2. CASE PackageFails(t) \/ GroupEnds(t)
  <2>1. worker' = [worker EXCEPT ![t] = Job("job", 0)]
    BY <1>2 DEF PackageFails, GroupEnds
  <2>. QED  BY <1>2, <2>1, JobWorks
<1>3. CASE EmbedFails(t) \/ Finish(t) \/ WriteFails(t)
  <2>1. NextFile(t)
    BY <1>3 DEF EmbedFails, Finish, WriteFails
  <2>. QED  BY <1>3, <2>1, NextFileWorks
<1>4. CASE LowerFails(t) \/ KeepUnit(t)
  BY <1>4 DEF LowerFails, KeepUnit
<1>5. CASE BeginUnit(t)
  BY <1>5, BeginWorks
<1>6. CASE ResolveStored(t)
  BY <1>6, StoredWorks
<1>7. CASE Imported(t)
  <2>1. worker[t].pkg \in Package
    BY <1>7 DEF Imported, At, WorkerInv, WorkerOf
  <2>. QED  BY <1>7, <2>1, ImportedWorks
<1>8. CASE Claim(t)
  <2>1. worker[t].unit \in Unit
    BY <1>8 DEF Claim, At, WorkerInv, WorkerOf, Busy
  <2>. QED  BY <1>8, <2>1, ClaimWorks
<1>9. CASE Create(t) \/ Stream(t)
  <2>1. CASE Create(t)
    BY <2>1, GoWorks DEF Create
  <2>2. CASE Stream(t)
    BY <2>2, GoWorks DEF Stream
  <2>. QED  BY <1>9, <2>1, <2>2
<1>. QED  BY <1>1, <1>2, <1>3, <1>4, <1>5, <1>6, <1>7, <1>8, <1>9 DEF Alone

-----------------------------------------------------------------------------
(* Every step keeps the invariant *)

\* Every step keeps the types of the workers.
LEMMA WorkerTypesStep ==
    ASSUME StoreTypes, ExportTypes, WorkerInv, [Next]_vars
    PROVE  worker' \in [Thread -> Jobs]
<1>1. ASSUME NEW t \in Thread, Alone(t) PROVE worker' \in [Thread -> Jobs]
  BY <1>1, AloneWorks DEF Works, ExportTypes
<1>2. ASSUME NEW t \in Thread, ResolveImport(t) PROVE worker' \in [Thread -> Jobs]
  BY <1>2, ResolveImportWorks DEF Works
<1>3. CASE Crash
  BY <1>3, Markers DEF Crash
<1>. QED
  BY <1>1, <1>2, <1>3, ExportSteps DEF Import, Return, Resume, exportVars, vars, ExportTypes

\* A unit file is written by the worker that has the unit.
LEMMA TargetTypes ==
    ASSUME ExportTypes, WorkerInv, NEW t \in Thread, Create(t) \/ Stream(t) \/ Finish(t)
    PROVE  /\ target' \in [Unit -> Targets] /\ worker[t].unit \in Unit
           /\ \A u \in Unit \ {worker[t].unit} : target'[u] = target[u]
           /\ Create(t) => target'[worker[t].unit].state = "empty" /\ target'[worker[t].unit].entry = NoOwners
           /\ Stream(t) => /\ target'[worker[t].unit].state = "part"
                           /\ target'[worker[t].unit].entry = target[worker[t].unit].entry
           /\ Finish(t) => target'[worker[t].unit].entry = worker[t].entry
<1>1. worker[t].unit \in Unit /\ worker[t] \in Jobs /\ target[worker[t].unit] \in Targets
  BY DEF Create, Stream, Finish, At, WorkerInv, WorkerOf, Busy, ExportTypes
<1>2. CASE Create(t)
  <2>1. [NoTarget EXCEPT !.state = "empty"] \in Targets
    BY Markers DEF Targets
  <2>2. [NoTarget EXCEPT !.state = "empty"].state = "empty" /\ [NoTarget EXCEPT !.state = "empty"].entry = NoOwners
    BY DEF NoTarget
  <2>3. target' = [target EXCEPT ![worker[t].unit] = [NoTarget EXCEPT !.state = "empty"]]
    BY <1>2 DEF Create
  <2>4. ~Stream(t) /\ ~Finish(t)
    BY <1>2 DEF Create, Stream, Finish, At
  <2>. QED  BY <1>1, <2>1, <2>2, <2>3, <2>4 DEF ExportTypes
<1>3. CASE Stream(t)
  <2>1. target' = [target EXCEPT ![worker[t].unit] = [target[worker[t].unit] EXCEPT !.state = "part"]]
    BY <1>3 DEF Stream
  <2>2. /\ [target[worker[t].unit] EXCEPT !.state = "part"] \in Targets
        /\ [target[worker[t].unit] EXCEPT !.state = "part"].state = "part"
        /\ [target[worker[t].unit] EXCEPT !.state = "part"].entry = target[worker[t].unit].entry
    BY <1>1 DEF Targets
  <2>3. ~Create(t) /\ ~Finish(t)
    BY <1>3 DEF Create, Stream, Finish, At
  <2>. QED  BY <1>1, <2>1, <2>2, <2>3 DEF ExportTypes
<1>4. CASE Finish(t)
  <2>1. target' = [target EXCEPT ![worker[t].unit] =
           [state |-> "whole", entry |-> worker[t].entry, external |-> worker[t].external]]
    BY <1>4 DEF Finish
  <2>2. [state |-> "whole", entry |-> worker[t].entry, external |-> worker[t].external] \in Targets
    BY <1>1 DEF Jobs, Targets
  <2>3. ~Create(t) /\ ~Stream(t)
    BY <1>4 DEF Create, Stream, Finish, At
  <2>. QED  BY <1>1, <2>1, <2>2, <2>3 DEF ExportTypes
<1>. QED  BY <1>2, <1>3, <1>4

\* Which steps touch what.
LEMMA ExportEffects ==
    ASSUME [Next]_vars
    PROVE  /\ persisted' = persisted
           /\ UNCHANGED <<registry, cut>> \/ Crash \/ \E t \in Thread : Claim(t)
           /\ owners' = owners \/ Resume \/ \E t \in Thread : Claim(t)
           /\ target' = target \/ \E t \in Thread : Create(t) \/ Stream(t) \/ Finish(t)
           /\ nextGroup' = nextGroup \/ nextGroup' = 1 \/ nextGroup' = nextGroup + 1
           /\ visited' = visited \/ visited' = {} \/ \E u \in Unit : visited' = visited \cup {u}
           /\ failed' \in {failed, TRUE, FALSE}
           /\ verdict' \in {verdict, "running", "ok", "error", "killed"}
           /\ runs' = runs \/ (runs < MaxRuns /\ runs' = runs + 1)
           /\ failures' = failures \/ (failures < MaxFailures /\ failures' = failures + 1)
<1>1. ASSUME NEW t \in Thread,
             TakeJob(t) \/ PackageFails(t) \/ LowerFails(t) \/ KeepUnit(t) \/ BeginUnit(t) \/ GroupEnds(t)
      PROVE  /\ UNCHANGED <<persisted, registry, cut, owners, target, verdict, runs>>
             /\ nextGroup' = nextGroup \/ nextGroup' = nextGroup + 1
             /\ visited' = visited \/ \E u \in Unit : visited' = visited \cup {u}
             /\ failed' \in {failed, TRUE}
             /\ failures' = failures \/ (failures < MaxFailures /\ failures' = failures + 1)
  BY <1>1 DEF TakeJob, PackageFails, LowerFails, KeepUnit, BeginUnit, GroupEnds, NextUnit, CountFailure, storeVars
<1>2. ASSUME NEW t \in Thread,
             ResolveStored(t) \/ ResolveImport(t) \/ Imported(t) \/ Claim(t) \/ EmbedFails(t)
      PROVE  /\ UNCHANGED <<persisted, target, nextGroup, visited, verdict, runs>>
             /\ UNCHANGED <<registry, cut, owners>> \/ Claim(t)
             /\ failed' \in {failed, TRUE}
             /\ failures' = failures \/ (failures < MaxFailures /\ failures' = failures + 1)
  BY <1>2 DEF ResolveStored, ResolveImport, Imported, Claim, Save, EmbedFails, CountFailure, StartImport,
     storeVars
<1>3. ASSUME NEW t \in Thread, Import(t)
      PROVE  /\ UNCHANGED exportVars
             /\ failures' = failures \/ (failures < MaxFailures /\ failures' = failures + 1)
  BY <1>3 DEF Import, ImportStep, Lookup, Fetch, OpenPayload, ClosePayload, OpenManifest, CloseManifest,
     Descend, CallReturns, CallFails
<1>4. ASSUME NEW t \in Thread, Create(t) \/ Stream(t) \/ Finish(t) \/ WriteFails(t)
      PROVE  /\ UNCHANGED <<persisted, registry, cut, owners, nextGroup, visited, verdict, runs>>
             /\ target' = target \/ Create(t) \/ Stream(t) \/ Finish(t)
             /\ failed' \in {failed, TRUE}
             /\ failures' = failures \/ (failures < MaxFailures /\ failures' = failures + 1)
  BY <1>4 DEF Create, Stream, Finish, WriteFails, CountFailure, storeVars
<1>5. CASE Return
  BY <1>5 DEF Return, storeVars
<1>6. CASE Crash
  BY <1>6 DEF Crash, StoreCrash
<1>7. CASE Resume
  BY <1>7 DEF Resume, storeVars
<1>8. CASE UNCHANGED vars
  BY <1>8 DEF vars, storeVars, exportVars
<1>. QED  BY <1>1, <1>2, <1>3, <1>4, <1>5, <1>6, <1>7, <1>8 DEF Next, exportVars

\* Every step keeps the types of the export.
LEMMA ExportTypesStep ==
    ASSUME StoreTypes, ExportTypes, WorkerInv, [Next]_vars
    PROVE  ExportTypes'
<1>1. ASSUME NEW t \in Thread, Claim(t)
      PROVE  /\ owners' \in [File -> Unit \cup {Nobody}] /\ registry' \in [File -> Unit \cup {Nobody}]
             /\ cut' \in BOOLEAN
  <2>1. worker[t].unit \in Unit
    BY <1>1 DEF Claim, At, WorkerInv, WorkerOf, Busy
  <2>2. PICK m \in File :
              /\ owners' = IF Free(m) THEN [owners EXCEPT ![m] = worker[t].unit] ELSE owners
              /\ Saves(m)
    BY <1>1, <2>1, ClaimWorks
  <2>3. owners' \in [File -> Unit \cup {Nobody}]
    BY <2>1, <2>2 DEF ExportTypes
  <2>4. NoOwners \in [File -> Unit \cup {Nobody}]
    BY DEF NoOwners
  <2>5. cut' \in BOOLEAN
    BY <2>2 DEF Saves, ExportTypes
  <2>. QED  BY <2>2, <2>3, <2>4, <2>5 DEF Saves, ExportTypes
<1>2. /\ owners' \in [File -> Unit \cup {Nobody}] /\ registry' \in [File -> Unit \cup {Nobody}]
      /\ cut' \in BOOLEAN
  <2>1. CASE Resume
    BY <2>1 DEF Resume, NoOwners, ExportTypes
  <2>2. CASE Crash
    BY <2>2 DEF Crash, NoOwners, ExportTypes
  <2>. QED  BY <1>1, <2>1, <2>2, ExportEffects DEF ExportTypes
<1>3. target' \in [Unit -> Targets]
  BY ExportEffects, TargetTypes DEF ExportTypes
<1>4. /\ persisted' \in BOOLEAN /\ nextGroup' \in Nat /\ visited' \subseteq Unit /\ failed' \in BOOLEAN
      /\ verdict' \in {"running", "ok", "error", "killed"}
  <2>1. /\ persisted' = persisted
        /\ nextGroup' = nextGroup \/ nextGroup' = 1 \/ nextGroup' = nextGroup + 1
    BY ExportEffects
  <2>2. /\ visited' = visited \/ visited' = {} \/ \E u \in Unit : visited' = visited \cup {u}
        /\ failed' \in {failed, TRUE, FALSE} /\ verdict' \in {verdict, "running", "ok", "error", "killed"}
    BY ExportEffects
  <2>3. visited' \subseteq Unit
    BY <2>2 DEF ExportTypes
  <2>4. persisted' \in BOOLEAN /\ nextGroup' \in Nat
    BY <2>1 DEF ExportTypes
  <2>5. failed' \in BOOLEAN
    BY <2>2 DEF ExportTypes
  <2>6. verdict' \in {"running", "ok", "error", "killed"}
    BY <2>2 DEF ExportTypes
  <2>. QED  BY <2>3, <2>4, <2>5, <2>6
<1>5. runs' \in 1..MaxRuns /\ failures' \in 0..MaxFailures
  <2>1. runs' = runs \/ (runs < MaxRuns /\ runs' = runs + 1)
    BY ExportEffects
  <2>2. failures' = failures \/ (failures < MaxFailures /\ failures' = failures + 1)
    BY ExportEffects
  <2>3. MaxRuns \in Nat /\ MaxFailures \in Nat /\ runs \in 1..MaxRuns /\ failures \in 0..MaxFailures
    BY ProjectExportAssumption, PackageStoreAssumption DEF ExportTypes
  <2>. QED  BY <2>1, <2>2, <2>3
<1>. QED  BY <1>2, <1>3, <1>4, <1>5, WorkerTypesStep DEF ExportTypes

\* Whatever an import does, the call at the bottom of the stack is for the same
\* package, until the answer is there.
LEMMA BottomStays ==
    ASSUME StoreTypes, FrameInv, NEW t \in Thread, ImportStep(t)
    PROVE  /\ Active(t)' => stack'[t][Len(stack'[t])].pkg = stack[t][Len(stack[t])].pkg
           /\ \/ Active(t)' \/ answer'[t] = "ok"
              \/ answer'[t] = "error" /\ stack[t][Len(stack[t])].pkg \in unavailable'
           /\ seen[t] \subseteq seen'[t]
           /\ \A u \in Thread \ {t} : stack'[u] = stack[u] /\ answer'[u] = answer[u] /\ seen'[u] = seen[u]
<1>0. /\ Active(t) /\ Top(t) = stack[t][1] /\ Len(stack[t]) \in Nat /\ Len(stack[t]) \in 1..Len(stack[t])
      /\ 1 \in 1..Len(stack[t])
  BY StepActive, Tops
<1>a. PICK n \in Nat \ {0} : n = Len(stack[t])
  BY <1>0
<1>b. stack'[t] \in Seq(Frame)
  BY TypesStep DEF StoreStep, StoreTypes
<1>1. ASSUME NEW u \in Thread, u # t
      PROVE  stack'[u] = stack[u] /\ answer'[u] = answer[u] /\ seen'[u] = seen[u]
  <2>1. stack'[u] = stack[u]
    BY <1>1, OthersKeepStacks
  <2>2. seen'[u] = seen[u]
    <3>1. CASE Descend(t)
      <4>1. PICK d \in Package : seen' = [seen EXCEPT ![t] = @ \cup {d}]
        BY <3>1, DescendIs
      <4>. QED  BY <1>1, <4>1 DEF StoreTypes
    <3>. QED  BY <3>1, Effects
  <2>3. answer'[u] = answer[u]
    <3>1. CASE CallReturns(t)
      BY <1>1, <3>1 DEF CallReturns, StoreTypes
    <3>2. CASE CallFails(t)
      BY <1>1, <3>2 DEF CallFails, Unwind, StoreTypes
    <3>. QED  BY <3>1, <3>2, Effects
  <2>. QED  BY <2>1, <2>2, <2>3
<1>2. seen[t] \subseteq seen'[t]
  <2>1. CASE Descend(t)
    <3>1. PICK d \in Package : seen' = [seen EXCEPT ![t] = @ \cup {d}]
      BY <2>1, DescendIs
    <3>. QED  BY <3>1 DEF StoreTypes
  <2>. QED  BY <2>1, Effects
<1>3. ASSUME Len(stack'[t]) \in Nat \ {0} PROVE Active(t)'
  <2>1. Len(<<>>) = 0
    BY EmptySeq
  <2>. QED  BY <1>3, <2>1 DEF Active
<1>4. ASSUME NEW pc, NEW left, NEW open, NEW deps, Becomes(t, pc, left, open, deps)
      PROVE  Active(t)' /\ stack'[t][Len(stack'[t])].pkg = stack[t][n].pkg
  <2>1. Len(stack'[t]) = n
    BY <1>4, <1>a DEF Becomes
  <2>2. CASE n = 1
    BY <1>a, <1>4, <2>1, <2>2, <1>3, <1>0 DEF Becomes
  <2>3. CASE n # 1
    <3>1. n \in 2..n
      BY <2>3
    <3>2. stack'[t][n] = stack[t][n]
      BY <1>a, <1>4, <3>1 DEF Becomes
    <3>. QED  BY <1>a, <1>3, <2>1, <3>2
  <2>. QED  BY <2>2, <2>3
<1>5. CASE Lookup(t) \/ Fetch(t) \/ OpenPayload(t) \/ ClosePayload(t) \/ OpenManifest(t) \/ CloseManifest(t)
  <2>1. Active(t)' /\ stack'[t][Len(stack'[t])].pkg = stack[t][n].pkg
    BY <1>4, <1>5, LookupIs, FetchIs, OpenIs, CloseIs, OpenManifestIs, CloseManifestIs
  <2>. QED  BY <1>a, <1>1, <1>2, <2>1
<1>6. CASE Descend(t)
  <2>1. PICK d \in Top(t).deps : /\ d \in Package
            /\ \/ Becomes(t, Top(t).pc, Top(t).left, Top(t).open, Top(t).deps \ {d})
               \/ Pushes(t, d)
    BY <1>6, DescendIs
  <2>2. CASE Pushes(t, d)
    <3>1. Len(stack'[t]) = n + 1
      BY <1>a, <2>2 DEF Pushes
    <3>2. ASSUME n = 1 PROVE stack'[t][Len(stack'[t])].pkg = stack[t][n].pkg
      <4>1. stack'[t][2].pkg = stack[t][1].pkg
        BY <2>2 DEF Pushes
      <4>. QED  BY <3>1, <3>2, <4>1
    <3>3. ASSUME n # 1 PROVE stack'[t][Len(stack'[t])].pkg = stack[t][n].pkg
      <4>1. n \in 2..n
        BY <3>3
      <4>2. stack'[t][n + 1] = stack[t][n]
        BY <1>a, <2>2, <4>1 DEF Pushes
      <4>. QED  BY <3>1, <4>2
    <3>4. stack'[t][Len(stack'[t])].pkg = stack[t][n].pkg
      BY <3>2, <3>3
    <3>5. Len(stack'[t]) \in Nat \ {0}
      BY <3>1
    <3>6. Active(t)'
      BY <1>3, <3>5
    <3>. QED  BY <1>a, <1>1, <1>2, <3>4, <3>6
  <2>. QED  BY <1>a, <1>1, <1>2, <1>4, <2>1, <2>2
<1>7. CASE CallReturns(t)
  <2>1. /\ Len(stack'[t]) = n - 1 /\ \A i \in 1..n - 1 : stack'[t][i] = stack[t][i + 1]
        /\ answer' = IF n = 1 THEN [answer EXCEPT ![t] = "ok"] ELSE answer
    BY <1>0, <1>a, <1>7, PopIs DEF CallReturns, Pops
  <2>2. CASE n = 1
    <3>1. answer'[t] = "ok"
      BY <2>1, <2>2 DEF StoreTypes
    <3>2. ~Active(t)'
      BY <1>b, <2>1, <2>2, EmptySeq DEF Active
    <3>. QED  BY <1>1, <1>2, <3>1, <3>2
  <2>3. CASE n # 1
    <3>1. n - 1 \in 1..n - 1 /\ (n - 1) + 1 = n /\ n - 1 \in Nat \ {0}
      BY <2>3
    <3>2. stack'[t][n - 1] = stack[t][(n - 1) + 1]
      BY <2>1, <3>1
    <3>3. stack'[t][Len(stack'[t])].pkg = stack[t][n].pkg
      BY <2>1, <3>1, <3>2
    <3>4. Active(t)'
      BY <1>3, <2>1, <3>1
    <3>. QED  BY <1>a, <1>1, <1>2, <3>3, <3>4
  <2>. QED  BY <2>2, <2>3
<1>8. CASE CallFails(t)
  <2>1. stack'[t] = <<>> /\ answer'[t] = "error"
    BY <1>8 DEF CallFails, Unwind, StoreTypes
  <2>2. DOMAIN stack[t] = 1..Len(stack[t])
    BY LenProperties DEF StoreTypes
  <2>3. stack[t][n].pkg \in unavailable'
    BY <1>0, <1>a, <1>8, <2>2 DEF CallFails
  <2>. QED  BY <1>a, <1>1, <1>2, <2>1, <2>3 DEF Active
<1>. QED  BY <1>5, <1>6, <1>7, <1>8 DEF ImportStep

\* A goroutine that nothing happens to, but that a package becomes unavailable.
LEMMA WorkerKept ==
    ASSUME NEW u \in Thread, WorkerOf(u), stack'[u] = stack[u], seen'[u] = seen[u],
           answer'[u] = answer[u], worker'[u] = worker[u], unavailable \subseteq unavailable'
    PROVE  WorkerOf(u)'
  BY DEF WorkerOf, Active

\* Every step leaves the workers and their imports in step.
LEMMA WorkerStep ==
    ASSUME StoreTypes, FrameInv, ExportTypes, WorkerInv, [Next]_vars
    PROVE  WorkerInv'
<1>. SUFFICES ASSUME NEW u \in Thread PROVE WorkerOf(u)'
  BY DEF WorkerInv
<1>0. WorkerOf(u) /\ unavailable \subseteq unavailable'
  BY ExportSteps, ClashedGrows DEF WorkerInv
<1>1. ASSUME Rests, worker'[u] = worker[u] PROVE WorkerOf(u)'
  BY <1>0, <1>1, WorkerKept DEF Rests
<1>2. ASSUME NEW t \in Thread, Alone(t) PROVE WorkerOf(u)'
  <2>0. Rests
    BY <1>2, AloneRests
  <2>1. CASE u # t
    <3>1. worker'[u] = worker[u]
      BY <1>2, <2>1, AloneWorks DEF Works
    <3>. QED  BY <1>1, <2>0, <3>1
  <2>2. CASE u = t /\ (LowerFails(t) \/ KeepUnit(t))
    BY <1>1, <2>0, <2>2 DEF LowerFails, KeepUnit
  <2>3. ASSUME NEW pc, NEW unit, NEW pkg, NEW todo, NEW modules, NEW entry, u = t, ~Active(t),
               Works(t, pc, unit, pkg, todo, modules, entry), pc # "import",
               pc \in Busy => unit \in Unit, pc \notin Busy => entry = NoOwners,
               pc \in {"stream", "finish"} => todo = {}
        PROVE  WorkerOf(u)'
    <3>1. ~Active(t)'
      BY <2>0, <2>3 DEF Rests, Active
    <3>. QED  BY <2>3, <3>1 DEF WorkerOf, Works
  <2>4. /\ ~Active(t) \/ (At(t, "import") /\ Active(t))
        /\ worker[t].pc \in Busy => worker[t].unit \in Unit
        /\ verdict = "running"
    BY <1>2, AloneRests DEF WorkerInv, WorkerOf, At
  <2>5. ~Active(t)
    <3>1. CASE Imported(t)
      BY <3>1 DEF Imported
    <3>2. CASE ~Imported(t)
      <4>1. worker[t].pc # "import"
        BY <1>2, <3>2 DEF Alone, TakeJob, PackageFails, LowerFails, KeepUnit, BeginUnit, GroupEnds, NextUnit,
           ResolveStored, Claim, EmbedFails, Create, Stream, Finish, WriteFails, At
      <4>. QED  BY <4>1 DEF WorkerInv, WorkerOf
    <3>. QED  BY <3>1, <3>2
  <2>6. CASE u = t /\ ( \/ Works(t, "job", NoUnit, NoPackage, {}, {}, NoOwners)
                        \/ Works(t, "visit", NoUnit, NoPackage, {}, {}, NoOwners))
    BY <2>3, <2>5, <2>6 DEF Busy
  <2>7. CASE u = t /\ BeginUnit(t)
    <3>1. PICK v \in Unit :
              Works(t, "resolve", v, worker[t].pkg, Needs[v], worker[t].modules, worker[t].entry)
      BY <2>7, BeginWorks
    <3>. QED  BY <2>3, <2>5, <2>7, <3>1 DEF Busy
  <2>8. CASE u = t /\ ResolveStored(t)
    <3>1. worker[t].unit \in Unit
      BY <2>4, <2>8 DEF ResolveStored, At, Busy
    <3>2. PICK p \in worker[t].todo :
              Works(t, "claim", worker[t].unit, worker[t].pkg, worker[t].todo \ {p}, FilesOf[p], worker[t].entry)
      BY <2>8, StoredWorks
    <3>. QED  BY <2>3, <2>5, <2>8, <3>1, <3>2 DEF Busy
  <2>9. CASE u = t /\ Imported(t)
    <3>1. worker[t].unit \in Unit /\ worker[t].pkg \in Package
      BY <2>9 DEF Imported, At, Busy, WorkerInv, WorkerOf
    <3>. QED  BY <2>3, <2>5, <2>9, <3>1, ImportedWorks DEF Busy
  <2>10. CASE u = t /\ Claim(t)
    <3>1. worker[t].unit \in Unit
      BY <2>4, <2>10 DEF Claim, At, Busy
    <3>2. PICK m \in worker[t].modules :
              Works(t, IF worker[t].modules = {m} THEN "resolve" ELSE "claim", worker[t].unit, worker[t].pkg,
                       worker[t].todo, worker[t].modules \ {m},
                       [worker[t].entry EXCEPT ![m] = IF Free(m) THEN Inline ELSE owners[m]])
      BY <2>10, <3>1, ClaimWorks
    <3>. QED  BY <2>3, <2>5, <2>10, <3>1, <3>2 DEF Busy
  <2>11. CASE u = t /\ (Create(t) \/ Stream(t))
    <3>1. worker[t].unit \in Unit /\ worker[t].todo = {}
      BY <2>11 DEF Create, Stream, At, Busy, WorkerInv, WorkerOf
    <3>2. \E pc \in {"stream", "finish"} :
             Works(t, pc, worker[t].unit, worker[t].pkg, worker[t].todo, worker[t].modules, worker[t].entry)
      BY <2>11, GoWorks DEF Create, Stream
    <3>. QED  BY <2>3, <2>5, <2>11, <3>1, <3>2 DEF Busy
  <2>. QED  BY <1>2, <2>1, <2>2, <2>6, <2>7, <2>8, <2>9, <2>10, <2>11, AloneWorks
<1>3. ASSUME NEW t \in Thread, ResolveImport(t) PROVE WorkerOf(u)'
  <2>1. PICK p \in Package :
            /\ StartImport(t, p)
            /\ Works(t, "import", worker[t].unit, p, worker[t].todo \ {p}, worker[t].modules, worker[t].entry)
    BY <1>3, ResolveImportWorks
  <2>2. CASE u # t
    <3>1. stack'[u] = stack[u] /\ seen'[u] = seen[u] /\ answer'[u] = answer[u] /\ worker'[u] = worker[u]
      BY <2>1, <2>2 DEF StartImport, Works, StoreTypes
    <3>. QED  BY <1>0, <3>1, WorkerKept
  <2>3. CASE u = t
    <3>1. worker[t].unit \in Unit
      BY <1>3 DEF ResolveImport, At, Busy, WorkerInv, WorkerOf
    <3>2. Len(stack'[t]) = 1 /\ stack'[t][1].pkg = p /\ p \in seen'[t] /\ Active(t)'
      <4>1. Len(<<>>) = 0
        BY EmptySeq
      <4>. QED  BY <2>1, <4>1, StartIs, Calls DEF StartImport, StoreTypes, Active
    <3>. QED  BY <2>1, <2>3, <3>1, <3>2 DEF Works, WorkerOf, Busy
  <2>. QED  BY <2>2, <2>3
<1>4. ASSUME NEW t \in Thread, Import(t) PROVE WorkerOf(u)'
  <2>0. ImportStep(t) /\ worker' = worker
    BY <1>4 DEF Import, exportVars
  <2>1. CASE u # t
    BY <1>0, <2>0, <2>1, BottomStays, WorkerKept
  <2>2. CASE u = t
    <3>1. worker[t].pc = "import" /\ stack[t][Len(stack[t])].pkg = worker[t].pkg
      BY <1>0, <2>0, <2>2, StepActive DEF WorkerOf
    <3>2. seen[t] \subseteq seen'[t]
      BY <2>0, BottomStays
    <3>3. Active(t)' => stack'[t][Len(stack'[t])].pkg = worker[t].pkg
      BY <2>0, <3>1, BottomStays
    <3>4. Active(t)' \/ answer'[t] = "ok" \/ (answer'[t] = "error" /\ worker[t].pkg \in unavailable')
      BY <2>0, <3>1, BottomStays
    <3>. QED  BY <1>0, <2>0, <2>2, <3>1, <3>2, <3>3, <3>4 DEF WorkerOf
  <2>. QED  BY <2>1, <2>2
<1>5. CASE Crash
  <2>1. stack'[u] = <<>> /\ worker'[u] = Job("job", 0)
    BY <1>5 DEF Crash, StoreCrash
  <2>. QED  BY <2>1 DEF WorkerOf, Active, Job, Busy
<1>6. CASE Return \/ Resume \/ UNCHANGED vars
  BY <1>1, <1>6 DEF Return, Resume, vars, storeVars, exportVars, Rests
<1>. QED  BY <1>2, <1>3, <1>4, <1>5, <1>6, ExportSteps

\* A verdict comes after the last worker, and a new run begins with idle ones.
LEMMA RunStep ==
    ASSUME StoreTypes, ExportTypes, WorkerInv, RunInv, [Next]_vars
    PROVE  RunInv'
<1>1. ASSUME NEW t \in Thread, Alone(t) PROVE RunInv'
  BY <1>1, AloneRests DEF RunInv
<1>2. ASSUME NEW t \in Thread, ResolveImport(t) \/ Import(t) PROVE RunInv'
  BY <1>2 DEF ResolveImport, Import, exportVars, At, RunInv
<1>3. CASE Crash
  BY <1>3 DEF Crash, RunInv, Job
<1>4. CASE Return \/ Resume \/ UNCHANGED vars
  BY <1>4 DEF Return, Resume, vars, exportVars, RunInv
<1>. QED  BY <1>1, <1>2, <1>3, <1>4, ExportSteps

\* After an import that neither failed nor clashed every payload can be read.
LEMMA ImportedReads ==
    ASSUME StoreTypes, ExportTypes, WorkerInv, SeenInv, NEW t \in Thread, Imported(t),
           ~Lost(worker[t].pkg)
    PROVE  answer[t] = "ok" /\ Readable(worker[t].pkg) = FilesOf[worker[t].pkg] /\ FilesOf[worker[t].pkg] # {}
<1>1. PICK p \in Package : p = worker[t].pkg /\ p \in seen[t] /\ answer[t] = "ok" /\ ~Active(t)
  BY DEF Imported, At, WorkerInv, WorkerOf, Lost
<1>2. Len(stack[t]) = 0
  BY <1>1, Stacks
<1>3. ~Called(t, p)
  BY <1>2 DEF Called
<1>4. Complete(p)
  BY <1>1, <1>3 DEF SeenInv, Done, Lost
<1>5. \A f \in FilesOf[p] : payload[f] = "whole"
  BY <1>4 DEF Complete, Promised
<1>6. Readable(p) = FilesOf[p] /\ FilesOf[p] # {}
  BY <1>4, <1>5, PackageStoreAssumption DEF Readable, Complete
<1>. QED  BY <1>1, <1>6

\* No step lets a package that a unit needs slip from its worker.
LEMMA EntryOfStep ==
    ASSUME StoreTypes, FrameInv, ExportTypes, WorkerInv, SeenInv, EntryInv, [Next]_vars,
           NEW t \in Thread, worker'[t].pc \in Busy, NEW p \in Needs[worker'[t].unit]
    PROVE  EntryOf(t, p)'
<1>0. ASSUME Lost(p) PROVE EntryOf(t, p)'
  BY <1>0, ExportSteps, ClashedGrows DEF Lost, EntryOf
<1>. SUFFICES ASSUME ~Lost(p) PROVE EntryOf(t, p)'
  BY <1>0
<1>1. CASE worker'[t] = worker[t]
  <2>1. EntryOf(t, p)
    BY <1>1 DEF EntryInv
  <2>. QED  BY <1>1, <2>1 DEF EntryOf
<1>2. ASSUME worker[t].pc \in Busy, worker'[t].unit = worker[t].unit PROVE EntryOf(t, p)
  BY <1>2 DEF EntryInv
<1>3. CASE Alone(t)
  <2>1. CASE \/ Works(t, "job", NoUnit, NoPackage, {}, {}, NoOwners)
             \/ Works(t, "visit", NoUnit, NoPackage, {}, {}, NoOwners)
    BY <2>1 DEF Works, Busy
  <2>2. CASE LowerFails(t) \/ KeepUnit(t)
    BY <1>1, <2>2 DEF LowerFails, KeepUnit
  <2>3. CASE BeginUnit(t)
    <3>1. PICK u \in Unit :
              Works(t, "resolve", u, worker[t].pkg, Needs[u], worker[t].modules, worker[t].entry)
      BY <2>3, BeginWorks
    <3>. QED  BY <3>1 DEF Works, EntryOf
  <2>4. CASE ResolveStored(t)
    <3>1. PICK q \in worker[t].todo :
              Works(t, "claim", worker[t].unit, worker[t].pkg, worker[t].todo \ {q}, FilesOf[q], worker[t].entry)
      BY <2>4, StoredWorks
    <3>2. EntryOf(t, p) /\ worker[t].pc = "resolve"
      BY <1>2, <2>4, <3>1 DEF ResolveStored, At, Busy, Works
    <3>3. p = q \/ p \in worker'[t].todo \/ \A m \in FilesOf[p] : worker'[t].entry[m] # Nobody
      BY <3>1, <3>2 DEF EntryOf, Works
    <3>4. worker'[t].pc = "claim" /\ worker'[t].modules = FilesOf[q]
      BY <3>1 DEF Works
    <3>. QED  BY <3>3, <3>4 DEF EntryOf
  <2>5. CASE Imported(t)
    <3>1. EntryOf(t, p) /\ worker[t].pc = "import"
      <4>1. worker'[t].unit = worker[t].unit
        BY <2>5, ImportedWorks DEF Works, Imported, At, WorkerInv, WorkerOf
      <4>. QED  BY <1>2, <2>5, <4>1 DEF Imported, At, Busy
    <3>2. CASE p = worker[t].pkg
      <4>1. answer[t] = "ok" /\ Readable(p) = FilesOf[p] /\ FilesOf[p] # {}
        BY <2>5, <3>2, ImportedReads
      <4>2. worker'[t].pc = "claim" /\ worker'[t].modules = FilesOf[p]
        BY <2>5, <3>2, <4>1, ImportedWorks DEF Works, Imported, At, WorkerInv, WorkerOf
      <4>. QED  BY <4>2 DEF EntryOf
    <3>3. CASE p # worker[t].pkg
      <4>1. p \in worker[t].todo \/ \A m \in FilesOf[p] : worker[t].entry[m] # Nobody
        BY <3>1, <3>3 DEF EntryOf
      <4>2. worker'[t].todo = worker[t].todo /\ worker'[t].entry = worker[t].entry
        BY <2>5, ImportedWorks DEF Works, Imported, At, WorkerInv, WorkerOf
      <4>. QED  BY <4>1, <4>2 DEF EntryOf
    <3>. QED  BY <3>2, <3>3
  <2>6. CASE Claim(t)
    <3>0. worker[t].unit \in Unit /\ worker[t].pc = "claim" /\ worker[t] \in Jobs
      BY <2>6 DEF Claim, At, WorkerInv, WorkerOf, Busy, ExportTypes
    <3>1. PICK m \in worker[t].modules :
              /\ m \in File
              /\ Works(t, IF worker[t].modules = {m} THEN "resolve" ELSE "claim", worker[t].unit,
                       worker[t].pkg, worker[t].todo, worker[t].modules \ {m},
                       [worker[t].entry EXCEPT ![m] = IF Free(m) THEN Inline ELSE owners[m]])
      BY <2>6, <3>0, ClaimWorks
    <3>2. worker'[t].unit = worker[t].unit /\ worker'[t].todo = worker[t].todo
      BY <3>1 DEF Works
    <3>3. EntryOf(t, p)
      BY <1>2, <3>0, <3>2 DEF Busy
    <3>4. worker'[t].entry[m] # Nobody /\ \A f \in File \ {m} : worker'[t].entry[f] = worker[t].entry[f]
      <4>1. worker[t].entry \in Entries
        BY <3>0 DEF Jobs
      <4>2. worker'[t].entry = [worker[t].entry EXCEPT ![m] = IF Free(m) THEN Inline ELSE owners[m]]
        BY <3>1 DEF Works
      <4>. QED  BY <3>1, <4>1, <4>2, Markers DEF Entries, Free
    <3>5. ASSUME NEW f \in worker[t].modules, f # m
          PROVE  worker'[t].pc = "claim" /\ f \in worker'[t].modules
      BY <3>1, <3>5 DEF Works
    <3>6. CASE p \in worker[t].todo
      BY <3>2, <3>6 DEF EntryOf
    <3>7. CASE \A f \in FilesOf[p] : f \in worker[t].modules \/ worker[t].entry[f] # Nobody
      <4>1. FilesOf[p] \subseteq File
        BY <3>0, PackageStoreAssumption, ProjectExportAssumption, <3>2
      <4>2. \A f \in FilesOf[p] : \/ worker'[t].pc = "claim" /\ f \in worker'[t].modules
                                  \/ worker'[t].entry[f] # Nobody
        BY <3>4, <3>5, <3>7, <4>1
      <4>. QED  BY <4>2 DEF EntryOf
    <3>. QED  BY <3>0, <3>3, <3>6, <3>7 DEF EntryOf
  <2>7. CASE Create(t) \/ Stream(t)
    <3>1. \E pc \in {"stream", "finish"} :
              Works(t, pc, worker[t].unit, worker[t].pkg, worker[t].todo, worker[t].modules, worker[t].entry)
      BY <2>7, GoWorks DEF Create, Stream
    <3>2. EntryOf(t, p) /\ worker[t].pc \in {"resolve", "stream"}
      BY <1>2, <2>7, <3>1 DEF Create, Stream, At, Busy, Works
    <3>3. p \in worker[t].todo \/ \A m \in FilesOf[p] : worker[t].entry[m] # Nobody
      BY <3>2 DEF EntryOf
    <3>4. worker'[t].todo = worker[t].todo /\ worker'[t].entry = worker[t].entry
      BY <3>1 DEF Works
    <3>. QED  BY <3>3, <3>4 DEF EntryOf
  <2>. QED  BY <1>3, <2>1, <2>2, <2>3, <2>4, <2>5, <2>6, <2>7, AloneWorks
<1>4. CASE ResolveImport(t)
  <2>1. PICK q \in Package :
            Works(t, "import", worker[t].unit, q, worker[t].todo \ {q}, worker[t].modules, worker[t].entry)
    BY <1>4, ResolveImportWorks
  <2>2. EntryOf(t, p) /\ worker[t].pc = "resolve"
    BY <1>2, <1>4, <2>1 DEF ResolveImport, At, Busy, Works
  <2>3. p = q \/ p \in worker'[t].todo \/ \A m \in FilesOf[p] : worker'[t].entry[m] # Nobody
    BY <2>1, <2>2 DEF EntryOf, Works
  <2>4. worker'[t].pc = "import" /\ worker'[t].pkg = q
    BY <2>1 DEF Works
  <2>. QED  BY <2>3, <2>4 DEF EntryOf
<1>5. ASSUME NEW v \in Thread, v # t, Alone(v) \/ ResolveImport(v) PROVE worker'[t] = worker[t]
  <2>1. CASE Alone(v)
    BY <1>5, <2>1, AloneWorks DEF Works
  <2>2. CASE ResolveImport(v)
    BY <1>5, <2>2, ResolveImportWorks DEF Works
  <2>. QED  BY <1>5, <2>1, <2>2
<1>6. ASSUME NEW v \in Thread, Import(v) PROVE worker'[t] = worker[t]
  BY <1>6 DEF Import, exportVars
<1>7. CASE Crash
  BY <1>7 DEF Crash, Job, Busy
<1>8. CASE Return \/ Resume \/ UNCHANGED vars
  BY <1>1, <1>8 DEF Return, Resume, vars, exportVars
<1>. QED  BY <1>1, <1>3, <1>4, <1>5, <1>6, <1>7, <1>8, ExportSteps

\* Every step keeps the entries of units at work and of finished ones.
LEMMA EntryStep ==
    ASSUME StoreTypes, FrameInv, ExportTypes, WorkerInv, SeenInv, EntryInv, [Next]_vars
    PROVE  EntryInv'
<1>1. \A t \in Thread : worker'[t].pc \in Busy => \A p \in Needs[worker'[t].unit] : EntryOf(t, p)'
  BY EntryOfStep
<1>2. ASSUME NEW u \in Unit, Whole(u)', NEW p \in Needs[u], ~Lost(p)'
      PROVE  \A m \in FilesOf[p] : target'[u].entry[m] # Nobody
  <2>0. ~Lost(p)
    BY <1>2, ExportSteps, ClashedGrows DEF Lost
  <2>1. CASE target'[u] = target[u]
    BY <1>2, <2>0, <2>1 DEF EntryInv, Whole
  <2>2. ASSUME NEW t \in Thread, Create(t) \/ Stream(t) \/ Finish(t)
        PROVE  \A m \in FilesOf[p] : target'[u].entry[m] # Nobody
    <3>1. CASE u # worker[t].unit
      BY <2>1, <2>2, <3>1, TargetTypes
    <3>2. CASE u = worker[t].unit /\ (Create(t) \/ Stream(t))
      BY <1>2, <3>2, TargetTypes DEF Whole
    <3>3. CASE u = worker[t].unit /\ Finish(t)
      <4>1. worker[t].pc = "finish" /\ worker[t].todo = {}
        BY <3>3 DEF Finish, At, WorkerInv, WorkerOf
      <4>2. EntryOf(t, p)
        BY <3>3, <4>1 DEF EntryInv, Busy
      <4>3. \A m \in FilesOf[p] : worker[t].entry[m] # Nobody
        BY <2>0, <4>1, <4>2 DEF EntryOf
      <4>4. target'[u].entry = worker[t].entry
        BY <3>3, TargetTypes
      <4>. QED  BY <4>3, <4>4
    <3>. QED  BY <2>2, <3>1, <3>2, <3>3
  <2>. QED  BY <2>1, <2>2, ExportEffects
<1>3. \A u \in Unit : Whole(u)' =>
          \A p \in Needs[u] : Lost(p)' \/ \A m \in FilesOf[p] : target'[u].entry[m] # Nobody
  BY <1>2
<1>. QED  BY <1>1, <1>3 DEF EntryInv

\* A run goes on unless it returns or dies.
LEMMA VerdictStep ==
    ASSUME [Next]_vars, verdict' = "running"
    PROVE  Resume \/ (verdict = "running" /\ ~Return /\ ~Crash)
<1>1. ASSUME NEW t \in Thread, Alone(t) PROVE verdict = "running"
  BY <1>1, AloneRests
<1>2. ASSUME NEW t \in Thread, ResolveImport(t) \/ Import(t) PROVE verdict = "running"
  BY <1>2 DEF ResolveImport, Import, At
<1>3. ~Return /\ ~Crash
  BY DEF Return, Crash
<1>4. ASSUME UNCHANGED vars PROVE verdict = "running"
  BY <1>4 DEF vars, exportVars
<1>. QED  BY <1>1, <1>2, <1>3, <1>4 DEF Next, Alone

\* What the registry file holds changes with what the process knows.
LEMMA RegistryStep ==
    ASSUME StoreTypes, ExportTypes, WorkerInv, RegistryInv, [Next]_vars
    PROVE  RegistryInv' /\ (cut => cut')
<1>1. ASSUME NEW t \in Thread, Claim(t) PROVE RegistryInv' /\ (cut => cut')
  <2>1. worker[t].unit \in Unit
    BY <1>1 DEF Claim, At, WorkerInv, WorkerOf, Busy
  <2>2. PICK f \in File :
            /\ owners' = IF Free(f) THEN [owners EXCEPT ![f] = worker[t].unit] ELSE owners
            /\ Saves(f)
    BY <1>1, <2>1, ClaimWorks
  <2>3. persisted' = persisted
    BY ExportEffects
  <2>. QED  BY <2>2, <2>3 DEF RegistryInv, Saves
<1>2. CASE Crash
  BY <1>2 DEF Crash, RegistryInv
<1>3. CASE Resume
  BY <1>3 DEF Resume, RegistryInv
<1>4. CASE UNCHANGED <<registry, cut>> /\ owners' = owners
  <2>1. persisted' = persisted
    BY ExportEffects
  <2>. QED  BY <1>4, <2>1 DEF RegistryInv
<1>. QED  BY <1>1, <1>2, <1>3, <1>4, ExportEffects

\* Within one history a module that has an owner keeps it.
LEMMA OwnersKept ==
    ASSUME StoreTypes, ExportTypes, WorkerInv, RegistryInv, [Next]_vars, OneHistory'
    PROVE  OneHistory /\ \A m \in File : owners[m] \in Unit => owners'[m] = owners[m]
<1>1. OneHistory /\ (~(persisted /\ ~cut) => ~Resume)
  <2>0. MaxRuns \in Nat /\ runs \in 1..MaxRuns /\ cut \in BOOLEAN
    BY ProjectExportAssumption DEF ExportTypes
  <2>1. persisted' = persisted /\ (runs' = runs \/ runs' = runs + 1) /\ runs \in Nat \ {0}
    <3>1. persisted' = persisted /\ (runs' = runs \/ runs' = runs + 1)
      BY ExportEffects
    <3>. QED  BY <2>0, <3>1
  <2>2. ASSUME Resume PROVE runs' # 1
    BY <2>1, <2>2 DEF Resume
  <2>3. runs' = 1 => runs = 1
    BY <2>1
  <2>4. cut => cut'
    BY RegistryStep
  <2>. QED  BY <2>1, <2>2, <2>3, <2>4 DEF OneHistory
<1>2. ASSUME NEW t \in Thread, Claim(t), NEW m \in File, owners[m] \in Unit
      PROVE  owners'[m] = owners[m]
  <2>1. worker[t].unit \in Unit
    BY <1>2 DEF Claim, At, WorkerInv, WorkerOf, Busy
  <2>2. PICK f \in File :
            owners' = IF Free(f) THEN [owners EXCEPT ![f] = worker[t].unit] ELSE owners
    BY <1>2, <2>1, ClaimWorks
  <2>3. owners[m] # Nobody
    BY <1>2, MarkerAssumption
  <2>. QED  BY <2>2, <2>3 DEF Free, ExportTypes
<1>3. CASE Resume
  BY <1>1, <1>3 DEF Resume, RegistryInv
<1>. QED  BY <1>1, <1>2, <1>3, ExportEffects

\* Every step keeps one owner to a module.
LEMMA OwnerStep ==
    ASSUME StoreTypes, ExportTypes, WorkerInv, RegistryInv, OwnerInv, RunInv, [Next]_vars
    PROVE  OwnerInv'
<1>. SUFFICES ASSUME OneHistory'
              PROVE  /\ \A u \in Unit : \A m \in File : target'[u].entry[m] = Inline => owners'[m] = u
                     /\ \A t \in Thread : \A m \in File :
                          verdict' = "running" /\ worker'[t].pc \in Busy /\ worker'[t].entry[m] = Inline =>
                             owners'[m] = worker'[t].unit
  BY DEF OwnerInv
<1>1. /\ \A u \in Unit : \A m \in File : target[u].entry[m] = Inline => owners[m] = u
      /\ \A t \in Thread : \A m \in File :
            verdict = "running" /\ worker[t].pc \in Busy /\ worker[t].entry[m] = Inline =>
               owners[m] = worker[t].unit
  BY OwnersKept DEF OwnerInv
<1>2. ASSUME NEW u \in Unit, NEW m \in File, target'[u].entry[m] = Inline PROVE owners'[m] = u
  <2>1. CASE target'[u].entry[m] = target[u].entry[m]
    BY <1>1, <1>2, <2>1, OwnersKept
  <2>2. ASSUME NEW t \in Thread, Create(t) \/ Stream(t) \/ Finish(t) PROVE owners'[m] = u
    <3>1. CASE u # worker[t].unit \/ Stream(t)
      BY <2>1, <2>2, <3>1, TargetTypes
    <3>2. CASE u = worker[t].unit /\ Create(t)
      <4>1. target'[u].entry = NoOwners
        BY <3>2, TargetTypes
      <4>. QED  BY <1>2, <4>1, Markers
    <3>3. CASE u = worker[t].unit /\ Finish(t)
      <4>1. worker[t].entry[m] = Inline
        BY <1>2, <3>3, TargetTypes
      <4>2. verdict = "running" /\ worker[t].pc \in Busy
        BY <3>3 DEF Finish, At, Busy
      <4>3. owners[m] = u
        BY <1>1, <3>3, <4>1, <4>2
      <4>. QED  BY <4>3, OwnersKept
    <3>. QED  BY <2>2, <3>1, <3>2, <3>3
  <2>. QED  BY <2>1, <2>2, ExportEffects
<1>3. ASSUME NEW t \in Thread, NEW m \in File,
             verdict' = "running", worker'[t].pc \in Busy, worker'[t].entry[m] = Inline
      PROVE  owners'[m] = worker'[t].unit
  <2>1. CASE Resume
    <3>1. worker'[t].pc = "job"
      BY <2>1 DEF Resume, RunInv
    <3>. QED  BY <1>3, <3>1 DEF Busy
  <2>2. ASSUME verdict = "running", worker[t].pc \in Busy, worker'[t].entry[m] = worker[t].entry[m],
               worker'[t].unit = worker[t].unit
        PROVE  owners'[m] = worker'[t].unit
    <3>1. owners[m] = worker[t].unit /\ worker[t].unit \in Unit
      BY <1>1, <1>3, <2>2 DEF WorkerInv, WorkerOf
    <3>. QED  BY <2>2, <3>1, OwnersKept
  <2>3. CASE verdict = "running" /\ worker'[t] = worker[t]
    BY <1>3, <2>2, <2>3
  <2>4. CASE Alone(t)
    <3>0. verdict = "running"
      BY <2>4, AloneRests
    <3>1. CASE \/ Works(t, "job", NoUnit, NoPackage, {}, {}, NoOwners)
               \/ Works(t, "visit", NoUnit, NoPackage, {}, {}, NoOwners)
      BY <1>3, <3>1 DEF Works, Busy
    <3>2. CASE worker' = worker
      BY <2>3, <3>0, <3>2
    <3>3. CASE BeginUnit(t)
      <4>1. worker[t].pc = "visit" /\ worker'[t].entry = worker[t].entry
        BY <3>3, BeginWorks DEF Works
      <4>2. worker[t].entry = NoOwners
        BY <4>1 DEF WorkerInv, WorkerOf, Busy
      <4>. QED  BY <1>3, <4>1, <4>2, Markers
    <3>4. CASE ResolveStored(t)
      <4>1. worker'[t].entry = worker[t].entry /\ worker'[t].unit = worker[t].unit
        BY <3>4, StoredWorks DEF Works
      <4>. QED  BY <2>2, <3>0, <3>4, <4>1 DEF ResolveStored, At, Busy
    <3>5. CASE Imported(t)
      <4>1. worker'[t].entry = worker[t].entry /\ worker'[t].unit = worker[t].unit
        BY <3>5, ImportedWorks DEF Works, Imported, At, WorkerInv, WorkerOf
      <4>. QED  BY <2>2, <3>0, <3>5, <4>1 DEF Imported, At, Busy
    <3>6. CASE Claim(t)
      <4>0. worker[t].unit \in Unit /\ worker[t].pc = "claim" /\ worker[t] \in Jobs
        BY <3>6 DEF Claim, At, WorkerInv, WorkerOf, Busy, ExportTypes
      <4>1. PICK f \in File :
                /\ owners' = IF Free(f) THEN [owners EXCEPT ![f] = worker[t].unit] ELSE owners
                /\ worker'[t].unit = worker[t].unit
                /\ worker'[t].entry = [worker[t].entry EXCEPT ![f] = IF Free(f) THEN Inline ELSE owners[f]]
        BY <3>6, <4>0, ClaimWorks DEF Works
      <4>2. worker[t].entry \in Entries
        BY <4>0 DEF Jobs
      <4>3. CASE m # f
        <5>1. worker'[t].entry[m] = worker[t].entry[m]
          BY <4>1, <4>2, <4>3 DEF Entries
        <5>. QED  BY <2>2, <3>0, <4>0, <4>1, <5>1 DEF Busy
      <4>4. CASE m = f /\ Free(m)
        BY <4>1, <4>4 DEF ExportTypes
      <4>5. CASE m = f /\ ~Free(m)
        <5>1. worker'[t].entry[m] = owners[m]
          BY <4>1, <4>2, <4>5 DEF Entries
        <5>2. owners[m] # Inline
          BY Markers, MarkerAssumption DEF ExportTypes
        <5>. QED  BY <1>3, <5>1, <5>2
      <4>. QED  BY <4>3, <4>4, <4>5
    <3>7. CASE Create(t) \/ Stream(t)
      <4>1. worker'[t].entry = worker[t].entry /\ worker'[t].unit = worker[t].unit
        BY <3>7, GoWorks DEF Create, Stream, Works
      <4>. QED  BY <2>2, <3>0, <3>7, <4>1 DEF Create, Stream, At, Busy
    <3>. QED  BY <2>4, <3>1, <3>2, <3>3, <3>4, <3>5, <3>6, <3>7, AloneWorks
  <2>5. CASE ResolveImport(t)
    <3>1. worker'[t].entry = worker[t].entry /\ worker'[t].unit = worker[t].unit
      BY <2>5, ResolveImportWorks DEF Works
    <3>. QED  BY <2>2, <2>5, <3>1 DEF ResolveImport, At, Busy
  <2>6. ASSUME NEW v \in Thread, v # t, Alone(v) \/ ResolveImport(v) PROVE worker'[t] = worker[t]
    <3>1. CASE Alone(v)
      BY <2>6, <3>1, AloneWorks DEF Works
    <3>2. CASE ResolveImport(v)
      BY <2>6, <3>2, ResolveImportWorks DEF Works
    <3>. QED  BY <2>6, <3>1, <3>2
  <2>7. ASSUME NEW v \in Thread, Import(v) PROVE worker'[t] = worker[t]
    BY <2>7 DEF Import, exportVars
  <2>8. ASSUME UNCHANGED vars PROVE worker'[t] = worker[t]
    BY <2>8 DEF vars, exportVars
  <2>9. Resume \/ (verdict = "running" /\ ~Return /\ ~Crash)
    BY <1>3, VerdictStep
  <2>. QED  BY <2>1, <2>3, <2>4, <2>5, <2>6, <2>7, <2>8, <2>9, ExportSteps
<1>. QED  BY <1>2, <1>3, OwnersKept

-----------------------------------------------------------------------------
(* The theorems *)

\* The export begins with idle workers and without owners.
LEMMA ExportInit == Init => ExportInv
<1>. SUFFICES ASSUME Init PROVE ExportInv
  OBVIOUS
<1>0. /\ payload = [f \in File |-> "absent"] /\ manifest = [p \in Package |-> "absent"]
      /\ stack = [t \in Thread |-> <<>>] /\ seen = [t \in Thread |-> {}]
      /\ answer = [t \in Thread |-> "none"] /\ failures = 0 /\ clashed = {} /\ unavailable = {}
  BY DEF Init, StoreInit
<1>1. StoreTypes /\ \A t \in Thread : Len(stack[t]) = 0 /\ ~Active(t)
  <2>1. <<>> \in Seq(Frame) /\ Len(<<>>) = 0
    BY EmptySeq
  <2>. QED  BY <1>0, <2>1 DEF StoreTypes, Active
<1>2. FolderInv
  <2>1. FrameInv /\ DiskInv
    BY <1>1 DEF FrameInv, DiskInv
  <2>2. ManifestInv
    BY <1>0 DEF ManifestInv
  <2>3. AloneInv
    BY <1>1 DEF AloneInv, WritersOf
  <2>4. SeenInv
    BY <1>0, <1>1 DEF SeenInv
  <2>. QED  BY <2>1, <2>2, <2>3, <2>4 DEF FolderInv
<1>3. /\ \A t \in Thread : worker[t] = Job("job", 0)
      /\ worker \in [Thread -> Jobs]
      /\ \A t \in Thread : worker[t].pc = "job" /\ worker[t].entry = NoOwners
  <2>1. worker = [t \in Thread |-> Job("job", 0)]
    BY DEF Init
  <2>. QED  BY <2>1, Markers DEF Job
<1>4. ExportTypes
  <2>1. target \in [Unit -> Targets]
    BY Markers DEF Init
  <2>2. registry \in [File -> Unit \cup {Nobody}] /\ owners \in [File -> Unit \cup {Nobody}]
    BY DEF Init, NoOwners
  <2>3. runs \in 1..MaxRuns /\ failures \in 0..MaxFailures
    BY <1>0, ProjectExportAssumption, PackageStoreAssumption DEF Init
  <2>4. persisted \in BOOLEAN /\ cut \in BOOLEAN /\ nextGroup \in Nat /\ visited \subseteq Unit
        /\ failed \in BOOLEAN /\ verdict \in {"running", "ok", "error", "killed"}
    BY DEF Init
  <2>. QED  BY <1>3, <2>1, <2>2, <2>3, <2>4 DEF ExportTypes
<1>5. WorkerInv /\ RunInv
  BY <1>1, <1>3 DEF WorkerInv, WorkerOf, RunInv, Busy
<1>6. \A u \in Unit : target[u].state = "absent" /\ target[u].entry = NoOwners
  BY Markers DEF Init
<1>7. EntryInv
  BY <1>3, <1>6 DEF EntryInv, Busy, Whole
<1>8. OwnerInv
  BY <1>3, <1>6, Markers DEF OwnerInv, Busy, Init
<1>9. RegistryInv
  BY DEF Init, RegistryInv
<1>. QED  BY <1>1, <1>2, <1>4, <1>5, <1>7, <1>8, <1>9 DEF ExportInv

\* The parts of the invariant are kept together.
LEMMA ExportStep == ExportInv /\ [Next]_vars => ExportInv'
<1>. SUFFICES ASSUME ExportInv, [Next]_vars PROVE ExportInv'
  OBVIOUS
<1>. USE DEF ExportInv, FolderInv
<1>1. StoreStep
  BY ExportSteps
<1>2. StoreTypes' /\ FrameInv'
  BY <1>1, TypesStep, FrameStep
<1>3. DiskInv' /\ ManifestInv' /\ AloneInv'
  BY <1>1, <1>2, DiskStep, ManifestStep, AloneStep
<1>4. SeenInv'
  BY <1>1, <1>2, SeenStep
<1>5. ExportTypes' /\ WorkerInv' /\ RunInv'
  BY ExportTypesStep, WorkerStep, RunStep
<1>6. EntryInv' /\ RegistryInv' /\ OwnerInv'
  BY EntryStep, RegistryStep, OwnerStep
<1>. QED  BY <1>2, <1>3, <1>4, <1>5, <1>6

\* What the claims below rest on: what is on disk and in memory of every package
\* being imported, where each worker is with its unit, and who owns what it embeds.
THEOREM ExportIsInvariant == Spec => []ExportInv
<1>. QED  BY ExportInit, ExportStep, PTL DEF Spec

\* Every variable of the export and of the store has its type, the frames of every
\* chain of imports included.
THEOREM ExportHasTypes == Spec => []TypeOK
<1>1. ExportInv => TypeOK
  <2>. SUFFICES ASSUME ExportInv PROVE TypeOK
    OBVIOUS
  <2>1. \A t \in Thread : \A i \in DOMAIN stack[t] : stack[t][i] \in Frame
    <3>. SUFFICES ASSUME NEW t \in Thread, NEW i \in DOMAIN stack[t] PROVE stack[t][i] \in Frame
      OBVIOUS
    <3>1. stack[t] \in Seq(Frame)
      BY DEF ExportInv, StoreTypes
    <3>. QED  BY <3>1, LenProperties, ElementOfSeq
  <2>2. StoreTypeOK
    BY <2>1 DEF ExportInv, StoreTypes, ExportTypes, StoreTypeOK
  <2>. QED  BY <2>2 DEF TypeOK, ExportInv, ExportTypes, Targets, Jobs, Entries
<1>. QED  BY <1>1, ExportIsInvariant, PTL

\* A lookup that hits finds payloads that parse, however many workers import, and
\* wherever a run died, unless two of them wrote the package at once.
THEOREM HitsAreReadable == Spec => []HitIsReadable
<1>1. ExportInv => HitIsReadable
  <2>. SUFFICES ASSUME ExportInv, NEW p \in Package \ clashed, Exists(p) PROVE Complete(p)
    BY DEF HitIsReadable
  <2>1. manifest[p] = "whole" /\ \A x \in FilesOf[p] : payload[x] = "whole"
    BY DEF ExportInv, FolderInv, ManifestInv, Exists
  <2>. QED  BY <2>1, CompleteIs
<1>. QED  BY <1>1, ExportIsInvariant, PTL

\* An import that returns without error leaves every package it came across with its
\* dependencies in the store, cycles of dependencies included.
THEOREM ImportsAreClosed == Spec => []ImportedIsClosed
<1>1. ExportInv => ImportedIsClosed
  <2>. SUFFICES ASSUME ExportInv, NEW t \in Thread, answer[t] = "ok", NEW p \in seen[t] PROVE Done(t, p)
    BY DEF ImportedIsClosed, Done
  <2>1. ~Active(t)
    BY DEF ExportInv, FolderInv, SeenInv
  <2>2. Len(stack[t]) = 0
    BY <2>1, Stacks DEF ExportInv
  <2>3. ~Called(t, p)
    BY <2>2 DEF Called
  <2>. QED  BY <2>3 DEF ExportInv, FolderInv, SeenInv
<1>. QED  BY <1>1, ExportIsInvariant, PTL

\* A finished unit has an entry for every payload of every package it needs, unless
\* an import of it failed or clashed.
THEOREM UnitsEmbedEverything == Spec => []EmbedsEverything
<1>1. ExportInv => EmbedsEverything
  BY DEF ExportInv, EntryInv, EmbedsEverything, Lost
<1>. QED  BY <1>1, ExportIsInvariant, PTL

\* No two units carry one module: in one run, and with a registry file in any number
\* of runs until an error or a death cuts a write of that file short.
THEOREM ModulesAreInlineOnce == Spec => []InlineOnce
<1>1. ExportInv => InlineOnce
  <2>. SUFFICES ASSUME ExportInv, OneHistory, NEW m \in File
                PROVE  Cardinality(Carriers(m)) <= 1
    BY DEF InlineOnce, OneHistory
  <2>1. \A u \in Carriers(m) : u = owners[m]
    BY DEF ExportInv, OwnerInv, Carriers
  <2>2. CASE Carriers(m) = {}
    BY <2>2, FS_EmptySet
  <2>3. CASE Carriers(m) # {}
    <3>1. Carriers(m) = {owners[m]}
      BY <2>1, <2>3
    <3>2. Cardinality({owners[m]}) = 1
      BY FS_Singleton
    <3>. QED  BY <3>1, <3>2
  <2>. QED  BY <2>2, <2>3
<1>. QED  BY <1>1, ExportIsInvariant, PTL

-----------------------------------------------------------------------------
(* Recursions that end *)

\* A set of naturals has a least element.
LEMMA LeastNatural ==
    ASSUME NEW T \in SUBSET Nat, T # {}
    PROVE  \E n \in T : \A k \in T : n <= k
<1>1. PICK n \in T : \A k \in T : ~(<<k, n>> \in OpToRel(<, Nat))
  BY WFMin, NatLessThanWellFounded
<1>2. ASSUME NEW k \in T PROVE n <= k
  <2>1. ~(k < n)
    BY <1>1 DEF OpToRel
  <2>. QED  BY <2>1
<1>. QED  BY <1>2

\* Of the members of a set, one is of the least size.
LEMMA LeastMember ==
    ASSUME NEW S, NEW size \in [S -> Nat], NEW T \in SUBSET S, T # {}
    PROVE  \E x \in T : \A y \in T : size[x] <= size[y]
<1>. DEFINE N == {size[x] : x \in T}
<1>1. N \in SUBSET Nat /\ N # {}
  OBVIOUS
<1>2. PICK n \in N : \A k \in N : n <= k
  BY <1>1, LeastNatural
<1>. QED  BY <1>2

\* A recursion on S whose calls become smaller: step is what one unfolding makes of a
\* candidate for the function, and its value depends on smaller arguments only.
IsRecursion(S, Candidates, step, size, limit) ==
    /\ Candidates # {} /\ step \in [Candidates -> Candidates]
    /\ size \in [S -> Nat] /\ limit \in Nat /\ \A x \in S : size[x] < limit
    /\ \A g \in Candidates : g = [x \in S |-> g[x]]
    /\ \A g, h \in Candidates : \A x \in S :
          (\A y \in S : size[y] < size[x] => g[y] = h[y]) => step[g][x] = step[h][x]

\* Such a recursion has a solution, by approximations that are right on arguments of
\* growing size.
LEMMA RecursionSolved ==
    ASSUME NEW S, NEW Candidates, NEW step, NEW size, NEW limit,
           IsRecursion(S, Candidates, step, size, limit)
    PROVE  \E g \in Candidates : g = step[g]
<1>. USE DEF IsRecursion
<1>. DEFINE Solves(g, n) == \A x \in S : size[x] < n => g[x] = step[g][x]
            Open == {n \in Nat : \A g \in Candidates : ~Solves(g, n)}
<1>1. \A n \in Nat : \E g \in Candidates : Solves(g, n)
  <2>1. SUFFICES ASSUME Open # {} PROVE FALSE
    OBVIOUS
  <2>2. PICK n \in Open : \A k \in Open : n <= k
    BY <2>1, LeastNatural
  <2>3. n # 0
    OBVIOUS
  <2>4. n - 1 \in Nat /\ n - 1 \notin Open
    BY <2>2, <2>3
  <2>5. PICK g \in Candidates : Solves(g, n - 1)
    BY <2>4
  <2>6. ASSUME NEW x \in S, size[x] < n PROVE step[g][x] = step[step[g]][x]
    <3>1. \A y \in S : size[y] < size[x] => g[y] = step[g][y]
      BY <2>5, <2>6
    <3>. QED  BY <3>1
  <2>7. Solves(step[g], n)
    BY <2>6
  <2>. QED  BY <2>7
<1>2. PICK g \in Candidates : Solves(g, limit)
  BY <1>1
<1>3. \A x \in S : g[x] = step[g][x]
  BY <1>2
<1>4. g = [x \in S |-> g[x]] /\ step[g] = [x \in S |-> step[g][x]]
  OBVIOUS
<1>. QED  BY <1>3, <1>4

\* Triples of members of finite sets are finitely many.
LEMMA TriplesFinite ==
    ASSUME NEW A, NEW B, NEW C, IsFiniteSet(A), IsFiniteSet(B), IsFiniteSet(C)
    PROVE  IsFiniteSet(A \X B \X C)
<1>. DEFINE f == [x \in (A \X B) \X C |-> <<x[1][1], x[1][2], x[2]>>]
<1>1. IsFiniteSet((A \X B) \X C)
  BY FS_Product
<1>2. f \in [(A \X B) \X C -> A \X B \X C]
  OBVIOUS
<1>3. ASSUME NEW y \in A \X B \X C PROVE \E x \in (A \X B) \X C : f[x] = y
  <2>1. y[1] \in A /\ y[2] \in B /\ y[3] \in C /\ y = <<y[1], y[2], y[3]>>
    OBVIOUS
  <2>2. <<<<y[1], y[2]>>, y[3]>> \in (A \X B) \X C /\ f[<<<<y[1], y[2]>>, y[3]>>] = <<y[1], y[2], y[3]>>
    BY <2>1
  <2>. QED  BY <2>1, <2>2, Zenon
<1>4. f \in Surjection((A \X B) \X C, A \X B \X C)
  BY <1>2, <1>3, Zenon DEF Surjection
<1>. QED  BY <1>1, <1>4, FS_Surjection

\* Fewer keys left, or as many and fewer entries: less work.
LEMMA LessWork ==
    ASSUME NEW a \in Nat, NEW b \in Nat, NEW n \in Nat, NEW c \in 0..n, NEW d \in 0..n,
           a < b \/ (a = b /\ c < d)
    PROVE  a * (n + 1) + c < b * (n + 1) + d
<1>1. CASE a < b
  <2>1. PICK e \in Nat : b = a + e + 1
    <3>1. b - a - 1 \in Nat /\ b = a + (b - a - 1) + 1
      BY <1>1
    <3>. QED  BY <3>1
  <2>2. b * (n + 1) = a * (n + 1) + e * (n + 1) + (n + 1)
    BY <2>1
  <2>3. e * (n + 1) \in Nat /\ a * (n + 1) \in Nat
    OBVIOUS
  <2>. QED  BY <2>2, <2>3
<1>2. CASE a = b /\ c < d
  <2>1. a * (n + 1) \in Nat
    OBVIOUS
  <2>. QED  BY <1>2, <2>1
<1>. QED  BY <1>1, <1>2

-----------------------------------------------------------------------------
(* The units of a project: what its recursion computes *)

Reached(S)  == S \cup UNION {OwnersIn(u) : u \in S}
Growing(g)  == [S \in SUBSET Unit |-> IF Reached(S) = S THEN S ELSE g[Reached(S)]]
Grower      == CHOOSE g : g = Growing(g)
Missing     == [S \in SUBSET Unit |-> Cardinality(Unit \ S)]

\* The closure of the units over the owners of their entries, as a fixed point.
LEMMA ProjectUnitsIs == ASSUME NEW S PROVE ProjectUnits(S) = Grower[S]
  BY DEF ProjectUnits, Grower, Growing, Reached

\* A set of units that is not closed becomes larger, and stays one of units.
LEMMA ReachedGrows ==
    ASSUME NEW S \in SUBSET Unit
    PROVE  /\ Reached(S) \in SUBSET Unit /\ S \subseteq Reached(S)
           /\ Missing \in [SUBSET Unit -> Nat] /\ Missing[S] <= Cardinality(Unit)
           /\ Reached(S) # S => Missing[Reached(S)] < Missing[S]
<1>1. Reached(S) \in SUBSET Unit /\ S \subseteq Reached(S)
  BY DEF Reached, OwnersIn
<1>2. ASSUME NEW T \in SUBSET Unit PROVE IsFiniteSet(Unit \ T) /\ Cardinality(Unit \ T) \in Nat
  BY ModuleLinkAssumption, FS_Difference, FS_CardinalityType
<1>3. Missing \in [SUBSET Unit -> Nat]
  BY <1>2 DEF Missing
<1>4. Missing[S] <= Cardinality(Unit)
  BY ModuleLinkAssumption, FS_Subset DEF Missing
<1>5. ASSUME Reached(S) # S PROVE Missing[Reached(S)] < Missing[S]
  <2>. DEFINE a == Unit \ S
              b == Unit \ Reached(S)
  <2>1. b \in SUBSET a /\ b # a
    BY <1>1, <1>5
  <2>2. IsFiniteSet(a) /\ Cardinality(a) \in Nat /\ Cardinality(b) \in Nat
    BY <1>1, <1>2
  <2>3. Cardinality(b) <= Cardinality(a) /\ Cardinality(b) # Cardinality(a)
    <3>. HIDE DEF a, b
    <3>. QED  BY <2>1, <2>2, FS_Subset
  <2>4. Missing[S] = Cardinality(a) /\ Missing[Reached(S)] = Cardinality(b)
    BY <1>1 DEF Missing
  <2>. QED  BY <2>2, <2>3, <2>4
<1>. QED  BY <1>1, <1>3, <1>4, <1>5

\* The recursion of the units is well founded: its equation holds.
LEMMA GrowerSolves == Grower = Growing(Grower)
<1>. DEFINE Candidates == [SUBSET Unit -> SUBSET Unit]
            step == [g \in Candidates |-> Growing(g)]
            limit == Cardinality(Unit) + 1
<1>1. Candidates # {} /\ \A g \in Candidates : g = [S \in SUBSET Unit |-> g[S]]
  <2>1. [S \in SUBSET Unit |-> S] \in Candidates
    OBVIOUS
  <2>. QED  BY <2>1
<1>2. step \in [Candidates -> Candidates]
  <2>1. ASSUME NEW g \in Candidates PROVE Growing(g) \in Candidates
    BY ReachedGrows DEF Growing
  <2>. QED  BY <2>1
<1>3. /\ Missing \in [SUBSET Unit -> Nat] /\ limit \in Nat
      /\ \A S \in SUBSET Unit : Missing[S] < limit
  <2>1. Cardinality(Unit) \in Nat
    BY ModuleLinkAssumption, FS_CardinalityType
  <2>2. {} \in SUBSET Unit
    OBVIOUS
  <2>3. Missing \in [SUBSET Unit -> Nat] /\ \A S \in SUBSET Unit : Missing[S] <= Cardinality(Unit)
    BY <2>2, ReachedGrows
  <2>. QED  BY <2>1, <2>3
<1>4. ASSUME NEW g \in Candidates, NEW h \in Candidates, NEW S \in SUBSET Unit,
             \A T \in SUBSET Unit : Missing[T] < Missing[S] => g[T] = h[T]
      PROVE  step[g][S] = step[h][S]
  <2>1. step[g] = Growing(g) /\ step[h] = Growing(h)
    OBVIOUS
  <2>. HIDE DEF step
  <2>2. Reached(S) # S => g[Reached(S)] = h[Reached(S)]
    BY <1>4, ReachedGrows
  <2>. QED  BY <2>1, <2>2 DEF Growing
<1>. HIDE DEF Candidates, step, limit
<1>5. IsRecursion(SUBSET Unit, Candidates, step, Missing, limit)
  BY <1>1, <1>2, <1>3, <1>4 DEF IsRecursion
<1>6. \E g \in Candidates : g = step[g]
  BY <1>5, RecursionSolved
<1>7. \E g : g = Growing(g)
  BY <1>6 DEF step
<1>. QED  BY <1>7 DEF Grower

\* The units of a project are its selection and, with every unit, the owners of the
\* modules it names.
LEMMA ProjectUnitsClosed ==
    ASSUME NEW selection \in SUBSET Unit
    PROVE  /\ selection \subseteq ProjectUnits(selection) /\ ProjectUnits(selection) \subseteq Unit
           /\ \A u \in ProjectUnits(selection) : OwnersIn(u) \subseteq ProjectUnits(selection)
<1>. DEFINE Good(S) == /\ S \subseteq Grower[S] /\ Grower[S] \subseteq Unit
                       /\ Reached(Grower[S]) = Grower[S]
            Bad == {S \in SUBSET Unit : ~Good(S)}
<1>1. ASSUME Bad # {} PROVE FALSE
  <2>1. PICK S \in Bad : \A T \in Bad : Missing[S] <= Missing[T]
    <3>1. Bad \in SUBSET (SUBSET Unit) /\ Missing \in [SUBSET Unit -> Nat]
      BY ReachedGrows
    <3>. HIDE DEF Bad
    <3>. QED  BY <1>1, <3>1, LeastMember
  <2>2. Grower[S] = IF Reached(S) = S THEN S ELSE Grower[Reached(S)]
    BY GrowerSolves DEF Growing
  <2>3. Reached(S) # S /\ Reached(S) \in SUBSET Unit /\ S \subseteq Reached(S)
    BY <2>2, ReachedGrows
  <2>4. Missing[S] \in Nat /\ Missing[Reached(S)] \in Nat /\ Missing[Reached(S)] < Missing[S]
    BY <2>3, ReachedGrows
  <2>5. Good(Reached(S))
    BY <2>1, <2>3, <2>4
  <2>. QED  BY <2>2, <2>3, <2>5
<1>2. Good(selection)
  BY <1>1
<1>. QED  BY <1>2, ProjectUnitsIs DEF Reached

-----------------------------------------------------------------------------
(* The linker: what the recursion of its walk computes *)

Left(at)      == EntriesOf(at.unit) \ at.done
Chosen(at)    == CHOOSE f \in Left(at) : TRUE
ChosenKey(at) == EntryKey(at.unit, Chosen(at))
OwnerAt(at)   == target[at.unit].entry[Chosen(at)]
Met(at)       == [at EXCEPT !.seen = @ \cup {ChosenKey(at)}]
Within(at)    == [Met(at) EXCEPT !.unit = OwnerAt(at), !.done = {}]
After(g, at)  == IF ChosenKey(at) \in at.seen THEN at
                 ELSE IF OwnerAt(at) = Inline THEN [Met(at) EXCEPT !.merged = @ \cup {Chosen(at)}]
                 ELSE IF Whole(OwnerAt(at)) THEN g[Within(at)]
                 ELSE [Met(at) EXCEPT !.ok = FALSE]
Back(at, r)   == [r EXCEPT !.unit = at.unit, !.done = at.done \cup {Chosen(at)}]
Walking(g)    == [at \in Visit |-> IF Left(at) = {} THEN at ELSE g[Back(at, After(g, at))]]
Walker        == CHOOSE g : g = Walking(g)
Start(u)      == [unit |-> u, done |-> {}, seen |-> {}, merged |-> {}, ok |-> TRUE]

\* The walk of the linker, as a fixed point.
LEMMA LinkEmbeddedIs == ASSUME NEW u PROVE LinkEmbedded(u) = Walker[Start(u)]
  BY DEF LinkEmbedded, Walker, Walking, Left, Chosen, ChosenKey, OwnerAt, Met, Within, After, Back, Start

\* What the linker still has to do, keys first.
KeysLeft(at) == Cardinality(SeenKeys \ at.seen)
FilesLeft(at) == Cardinality(File \ at.done)
Work == [at \in Visit |-> KeysLeft(at) * (Cardinality(File) + 1) + FilesLeft(at)]
WorkLimit == (Cardinality(SeenKeys) + 1) * (Cardinality(File) + 1)

\* The keys the linker may see are finitely many.
LEMMA KeysFinite == IsFiniteSet(SeenKeys)
<1>. DEFINE f == [u \in Unit |-> GroupOf[u]]
<1>1. f \in Surjection(Unit, Groups)
  <2>1. f \in [Unit -> Groups] /\ \A g \in Groups : \E u \in Unit : f[u] = g
    BY DEF Groups
  <2>. QED  BY <2>1, Zenon DEF Surjection
<1>2. IsFiniteSet(Groups)
  BY <1>1, ModuleLinkAssumption, FS_Surjection
<1>3. IsFiniteSet(Groups \cup {0})
  BY <1>2, FS_AddElement
<1>. QED  BY <1>3, ModuleLinkAssumption, TriplesFinite DEF SeenKeys

\* The parts of the measure are bounded numbers that fall as the sets grow.
LEMMA PartsOfWork ==
    ASSUME NEW at \in Visit
    PROVE  /\ Cardinality(File) \in Nat /\ Cardinality(SeenKeys) \in Nat
           /\ KeysLeft(at) \in 0..Cardinality(SeenKeys) /\ FilesLeft(at) \in 0..Cardinality(File)
           /\ \A b \in Visit : at.seen \subseteq b.seen =>
                 KeysLeft(b) <= KeysLeft(at) /\ (b.seen # at.seen => KeysLeft(b) < KeysLeft(at))
           /\ \A b \in Visit : at.done \subseteq b.done /\ b.done # at.done => FilesLeft(b) < FilesLeft(at)
<1>1. \A b \in Visit : b.seen \in SUBSET SeenKeys /\ b.done \in SUBSET File
  BY DEF Visit
<1>2. ASSUME NEW A, IsFiniteSet(A), NEW B \in SUBSET A, NEW C \in SUBSET A, B \subseteq C
      PROVE  /\ Cardinality(A) \in Nat /\ Cardinality(A \ B) \in 0..Cardinality(A)
             /\ Cardinality(A \ C) \in Nat
             /\ Cardinality(A \ C) <= Cardinality(A \ B)
             /\ C # B => Cardinality(A \ C) < Cardinality(A \ B)
  <2>. DEFINE b == A \ B
              c == A \ C
  <2>1. IsFiniteSet(b) /\ IsFiniteSet(c) /\ Cardinality(b) \in Nat /\ Cardinality(c) \in Nat
        /\ Cardinality(A) \in Nat
    BY <1>2, FS_Difference, FS_CardinalityType
  <2>2. b \in SUBSET A /\ c \in SUBSET b /\ (C # B => c # b)
    BY <1>2
  <2>. HIDE DEF b, c
  <2>3. Cardinality(b) <= Cardinality(A) /\ Cardinality(c) <= Cardinality(b)
        /\ (Cardinality(b) = Cardinality(c) => b = c)
    BY <1>2, <2>1, <2>2, FS_Subset
  <2>4. /\ Cardinality(A) \in Nat /\ Cardinality(b) \in 0..Cardinality(A)
        /\ Cardinality(c) \in Nat /\ Cardinality(c) <= Cardinality(b)
        /\ C # B => Cardinality(c) < Cardinality(b)
    BY <2>1, <2>2, <2>3
  <2>. QED  BY <2>4 DEF b, c
<1>3. Cardinality(SeenKeys) \in Nat /\ KeysLeft(at) \in 0..Cardinality(SeenKeys)
      /\ \A b \in Visit : at.seen \subseteq b.seen =>
                 KeysLeft(b) <= KeysLeft(at) /\ (b.seen # at.seen => KeysLeft(b) < KeysLeft(at))
  BY <1>1, <1>2, KeysFinite DEF KeysLeft
<1>4. Cardinality(File) \in Nat /\ FilesLeft(at) \in 0..Cardinality(File)
      /\ \A b \in Visit : at.done \subseteq b.done /\ b.done # at.done => FilesLeft(b) < FilesLeft(at)
  BY <1>1, <1>2, ModuleLinkAssumption DEF FilesLeft
<1>. QED  BY <1>3, <1>4

\* The measure is a bounded number; more keys seen, or as many and more entries done,
\* leave less work.
LEMMA WorkFalls ==
    /\ Work \in [Visit -> Nat] /\ WorkLimit \in Nat /\ \A at \in Visit : Work[at] < WorkLimit
    /\ \A at, b \in Visit :
          at.seen \subseteq b.seen /\ (b.seen # at.seen \/ (at.done \subseteq b.done /\ b.done # at.done)) =>
             Work[b] < Work[at]
<1>. DEFINE n == Cardinality(File)
            k == Cardinality(SeenKeys)
<1>1. ASSUME NEW at \in Visit
      PROVE  /\ n \in Nat /\ k \in Nat /\ KeysLeft(at) \in 0..k /\ FilesLeft(at) \in 0..n
             /\ Work[at] = KeysLeft(at) * (n + 1) + FilesLeft(at)
  BY PartsOfWork DEF Work
<1>2. n \in Nat /\ k \in Nat
  BY ModuleLinkAssumption, KeysFinite, FS_CardinalityType
<1>. HIDE DEF n, k
<1>3. Work = [at \in Visit |-> KeysLeft(at) * (n + 1) + FilesLeft(at)]
  BY DEF Work, n
<1>4. ASSUME NEW at \in Visit PROVE Work[at] \in Nat /\ Work[at] < (k + 1) * (n + 1)
  <2>1. PICK a \in 0..k, c \in 0..n : Work[at] = a * (n + 1) + c
    BY <1>1
  <2>2. a * (n + 1) + c < (k + 1) * (n + 1) + 0
    BY <1>2, <2>1, LessWork
  <2>3. a * (n + 1) \in Nat /\ (k + 1) * (n + 1) \in Nat
    BY <1>2
  <2>. QED  BY <1>2, <2>1, <2>2, <2>3
<1>5. WorkLimit = (k + 1) * (n + 1) /\ WorkLimit \in Nat
  <2>1. WorkLimit = (k + 1) * (n + 1)
    BY DEF WorkLimit, n, k
  <2>. QED  BY <1>2, <2>1
<1>6. ASSUME NEW at \in Visit, NEW b \in Visit, at.seen \subseteq b.seen,
             b.seen # at.seen \/ (at.done \subseteq b.done /\ b.done # at.done)
      PROVE  Work[b] < Work[at]
  <2>1. KeysLeft(b) < KeysLeft(at) \/ (KeysLeft(b) = KeysLeft(at) /\ FilesLeft(b) < FilesLeft(at))
    <3>1. KeysLeft(b) <= KeysLeft(at) /\ KeysLeft(b) \in Nat /\ KeysLeft(at) \in Nat
      BY <1>1, <1>2, <1>6, PartsOfWork
    <3>2. b.seen # at.seen => KeysLeft(b) < KeysLeft(at)
      BY <1>6, PartsOfWork
    <3>3. b.seen = at.seen => KeysLeft(b) = KeysLeft(at)
      BY DEF KeysLeft
    <3>4. b.seen = at.seen => FilesLeft(b) < FilesLeft(at)
      BY <1>6, PartsOfWork
    <3>. QED  BY <3>2, <3>3, <3>4
  <2>2. KeysLeft(b) * (n + 1) + FilesLeft(b) < KeysLeft(at) * (n + 1) + FilesLeft(at)
    <3>1. /\ KeysLeft(b) \in Nat /\ KeysLeft(at) \in Nat /\ FilesLeft(b) \in 0..n /\ FilesLeft(at) \in 0..n
      BY <1>1, <1>2
    <3>. QED  BY <1>2, <2>1, <3>1, LessWork
  <2>. QED  BY <1>1, <2>2
<1>. QED  BY <1>3, <1>4, <1>5, <1>6

\* What the linker makes of one entry of a unit, field by field.
LEMMA EntryMet ==
    ASSUME ExportTypes, NEW at \in Visit, Left(at) # {}
    PROVE  /\ Chosen(at) \in Left(at) /\ Chosen(at) \in File /\ at.unit \in Unit
           /\ OwnerAt(at) \in Unit \cup {Inline} /\ ChosenKey(at) \in SeenKeys
           /\ OwnerAt(at) = Inline => ChosenKey(at) = <<Chosen(at), at.unit, 0>>
           /\ OwnerAt(at) # Inline => /\ ChosenKey(at) = <<Chosen(at), OwnerAt(at), GroupOf[at.unit]>>
                                      /\ GroupOf[at.unit] # 0
<1>1. Chosen(at) \in Left(at)
  BY DEF Chosen
<1>2. Chosen(at) \in File /\ at.unit \in Unit /\ target[at.unit].entry[Chosen(at)] # Nobody
  BY <1>1 DEF Left, EntriesOf, Visit
<1>3. OwnerAt(at) \in Unit \cup {Inline}
  BY <1>2 DEF OwnerAt, ExportTypes, Targets, Entries
<1>4. GroupOf[at.unit] \in Groups /\ GroupOf[at.unit] # 0
  BY <1>2, ProjectExportAssumption DEF Groups
<1>5. /\ OwnerAt(at) = Inline => ChosenKey(at) = <<Chosen(at), at.unit, 0>>
      /\ OwnerAt(at) # Inline => ChosenKey(at) = <<Chosen(at), OwnerAt(at), GroupOf[at.unit]>>
  BY DEF ChosenKey, EntryKey, OwnerAt
<1>6. ChosenKey(at) \in SeenKeys
  BY <1>2, <1>3, <1>4, <1>5 DEF SeenKeys
<1>. QED  BY <1>1, <1>2, <1>3, <1>4, <1>5, <1>6

\* The records the walk passes on.
LEMMA EntryRecords ==
    ASSUME ExportTypes, NEW at \in Visit, Left(at) # {}
    PROVE  /\ Met(at) \in Visit /\ Met(at).seen = at.seen \cup {ChosenKey(at)}
           /\ Met(at).merged = at.merged /\ Met(at).ok = at.ok
           /\ LET r == [Met(at) EXCEPT !.merged = @ \cup {Chosen(at)}] IN
                 r \in Visit /\ r.seen = Met(at).seen /\ r.ok = at.ok /\ r.merged = at.merged \cup {Chosen(at)}
           /\ LET r == [Met(at) EXCEPT !.ok = FALSE] IN r \in Visit /\ r.seen = Met(at).seen
           /\ OwnerAt(at) # Inline =>
                 LET r == Within(at) IN
                 /\ r \in Visit /\ r.seen = Met(at).seen /\ r.ok = at.ok /\ r.merged = at.merged
                 /\ r.unit = OwnerAt(at) /\ r.done = {}
           /\ \A r \in Visit : LET b == Back(at, r) IN
                 /\ b \in Visit /\ b.seen = r.seen /\ b.ok = r.ok /\ b.merged = r.merged
                 /\ b.unit = at.unit /\ b.done = at.done \cup {Chosen(at)}
<1>0. Chosen(at) \in File /\ at.unit \in Unit /\ ChosenKey(at) \in SeenKeys
      /\ (OwnerAt(at) # Inline => OwnerAt(at) \in Unit)
  BY EntryMet
<1>1. /\ Met(at) \in Visit /\ Met(at).seen = at.seen \cup {ChosenKey(at)}
      /\ Met(at).merged = at.merged /\ Met(at).ok = at.ok
  BY <1>0 DEF Met, Visit
<1>2. LET r == [Met(at) EXCEPT !.merged = @ \cup {Chosen(at)}] IN
      r \in Visit /\ r.seen = Met(at).seen /\ r.ok = at.ok /\ r.merged = at.merged \cup {Chosen(at)}
  BY <1>0, <1>1 DEF Visit
<1>3. LET r == [Met(at) EXCEPT !.ok = FALSE] IN r \in Visit /\ r.seen = Met(at).seen
  BY <1>0, <1>1 DEF Visit
<1>4. ASSUME OwnerAt(at) # Inline
      PROVE  LET r == Within(at) IN
                 /\ r \in Visit /\ r.seen = Met(at).seen /\ r.ok = at.ok /\ r.merged = at.merged
                 /\ r.unit = OwnerAt(at) /\ r.done = {}
  BY <1>0, <1>1, <1>4 DEF Visit, Within
<1>5. ASSUME NEW r \in Visit
      PROVE  LET b == Back(at, r) IN
                 /\ b \in Visit /\ b.seen = r.seen /\ b.ok = r.ok /\ b.merged = r.merged
                 /\ b.unit = at.unit /\ b.done = at.done \cup {Chosen(at)}
  BY <1>0, <1>5 DEF Visit, Back
<1>. QED  BY <1>1, <1>2, <1>3, <1>4, <1>5

\* The part of EntryRecords on what the walk goes on with after an entry.
LEMMA BackRecord ==
    ASSUME ExportTypes, NEW at \in Visit, Left(at) # {}, NEW r \in Visit
    PROVE  /\ Back(at, r) \in Visit /\ Back(at, r).seen = r.seen /\ Back(at, r).ok = r.ok
           /\ Back(at, r).merged = r.merged /\ Back(at, r).unit = at.unit
           /\ Back(at, r).done = at.done \cup {Chosen(at)}
<1>1. Chosen(at) \in File /\ at.unit \in Unit
  BY EntryMet
<1>. QED  BY <1>1 DEF Visit, Back

\* What the linker goes on with leaves less work: the entries of an owner because
\* of the key, the rest of the unit because of the entry.
LEMMA CallsFall ==
    ASSUME ExportTypes, NEW at \in Visit, Left(at) # {}
    PROVE  /\ ChosenKey(at) \notin at.seen /\ OwnerAt(at) # Inline => Work[Within(at)] < Work[at]
           /\ \A r \in Visit : at.seen \subseteq r.seen => Work[Back(at, r)] < Work[at]
<1>1. ASSUME ChosenKey(at) \notin at.seen, OwnerAt(at) # Inline PROVE Work[Within(at)] < Work[at]
  <2>1. Within(at) \in Visit /\ Within(at).seen = at.seen \cup {ChosenKey(at)}
    BY <1>1, EntryRecords
  <2>2. at.seen \subseteq Within(at).seen /\ Within(at).seen # at.seen
    BY <1>1, <2>1
  <2>. QED  BY <2>1, <2>2, WorkFalls
<1>2. ASSUME NEW r \in Visit, at.seen \subseteq r.seen PROVE Work[Back(at, r)] < Work[at]
  <2>1. Back(at, r) \in Visit /\ Back(at, r).seen = r.seen /\ Back(at, r).done = at.done \cup {Chosen(at)}
    BY EntryRecords
  <2>2. Chosen(at) \notin at.done
    BY EntryMet DEF Left
  <2>3. at.done \subseteq Back(at, r).done /\ Back(at, r).done # at.done
    BY <2>1, <2>2
  <2>. QED  BY <1>2, <2>1, <2>3, WorkFalls
<1>. QED  BY <1>1, <1>2

Forward == {g \in [Visit -> Visit] : \A at \in Visit : at.seen \subseteq g[at].seen}

\* A walk that forgets no key goes on with one that does not.
LEMMA AfterForward ==
    ASSUME ExportTypes, NEW g \in Forward, NEW at \in Visit, Left(at) # {}
    PROVE  After(g, at) \in Visit /\ at.seen \subseteq After(g, at).seen
<1>1. CASE ChosenKey(at) \in at.seen
  BY <1>1 DEF After
<1>2. CASE ChosenKey(at) \notin at.seen /\ OwnerAt(at) = Inline
  <2>1. PICK r \in Visit : r = [Met(at) EXCEPT !.merged = @ \cup {Chosen(at)}] /\ r.seen = Met(at).seen
    BY EntryRecords
  <2>2. After(g, at) = r
    BY <1>2, <2>1 DEF After
  <2>3. at.seen \subseteq Met(at).seen
    BY EntryRecords
  <2>. QED  BY <2>1, <2>2, <2>3
<1>3. CASE ChosenKey(at) \notin at.seen /\ OwnerAt(at) # Inline /\ Whole(OwnerAt(at))
  <2>1. After(g, at) = g[Within(at)]
    BY <1>3 DEF After
  <2>2. Within(at) \in Visit /\ Within(at).seen = at.seen \cup {ChosenKey(at)}
    BY <1>3, EntryRecords
  <2>. QED  BY <2>1, <2>2 DEF Forward
<1>4. CASE ChosenKey(at) \notin at.seen /\ OwnerAt(at) # Inline /\ ~Whole(OwnerAt(at))
  <2>1. PICK r \in Visit : r = [Met(at) EXCEPT !.ok = FALSE] /\ r.seen = Met(at).seen
    BY EntryRecords
  <2>2. After(g, at) = r
    BY <1>4, <2>1 DEF After
  <2>3. at.seen \subseteq Met(at).seen
    BY EntryRecords
  <2>. QED  BY <2>1, <2>2, <2>3
<1>. QED  BY <1>1, <1>2, <1>3, <1>4

\* One unfolding of a walk that forgets no key is such a walk.
LEMMA WalkingForward ==
    ASSUME ExportTypes, NEW g \in Forward
    PROVE  Walking(g) \in Forward
<1>1. ASSUME NEW at \in Visit
      PROVE  LET r == IF Left(at) = {} THEN at ELSE g[Back(at, After(g, at))] IN
             r \in Visit /\ at.seen \subseteq r.seen
  <2>1. CASE Left(at) # {}
    <3>1. After(g, at) \in Visit /\ at.seen \subseteq After(g, at).seen
      BY <2>1, AfterForward
    <3>2. PICK a \in Visit : a = After(g, at) /\ at.seen \subseteq a.seen
      BY <3>1
    <3>3. Back(at, a) \in Visit /\ Back(at, a).seen = a.seen
      BY <2>1, EntryRecords
    <3>4. g[Back(at, a)] \in Visit /\ Back(at, a).seen \subseteq g[Back(at, a)].seen
      BY <3>3 DEF Forward
    <3>. QED  BY <2>1, <3>2, <3>3, <3>4
  <2>. QED  BY <2>1
<1>. QED  BY <1>1 DEF Walking, Forward

\* The recursion of the linker is well founded: its equation holds.
LEMMA WalkerSolves ==
    ASSUME ExportTypes
    PROVE  Walker = Walking(Walker)
<1>. DEFINE step == [g \in Forward |-> Walking(g)]
<1>1. Forward # {} /\ \A g \in Forward : g = [at \in Visit |-> g[at]]
  <2>1. [at \in Visit |-> at] \in Forward
    BY DEF Forward
  <2>. QED  BY <2>1 DEF Forward
<1>2. step \in [Forward -> Forward]
  BY WalkingForward
<1>3. ASSUME NEW g \in Forward, NEW h \in Forward, NEW at \in Visit,
             \A b \in Visit : Work[b] < Work[at] => g[b] = h[b]
      PROVE  step[g][at] = step[h][at]
  <2>1. step[g] = Walking(g) /\ step[h] = Walking(h)
    OBVIOUS
  <2>. HIDE DEF step
  <2>2. CASE Left(at) = {}
    BY <2>1, <2>2 DEF Walking
  <2>3. CASE Left(at) # {}
    <3>1. After(g, at) = After(h, at)
      <4>1. CASE ChosenKey(at) \notin at.seen /\ OwnerAt(at) # Inline
        BY <1>3, <2>3, <4>1, CallsFall, EntryRecords DEF After
      <4>2. CASE ChosenKey(at) \in at.seen \/ OwnerAt(at) = Inline
        BY <4>2 DEF After
      <4>. QED  BY <4>1, <4>2
    <3>2. PICK a \in Visit : a = After(g, at) /\ at.seen \subseteq a.seen
      BY <2>3, AfterForward
    <3>3. Back(at, a) \in Visit /\ Work[Back(at, a)] < Work[at]
      BY <2>3, <3>2, CallsFall, EntryRecords
    <3>4. g[Back(at, a)] = h[Back(at, a)]
      BY <1>3, <3>3
    <3>5. Walking(g)[at] = g[Back(at, a)] /\ Walking(h)[at] = h[Back(at, a)]
      BY <2>3, <3>1, <3>2 DEF Walking
    <3>. QED  BY <2>1, <3>4, <3>5
  <2>. QED  BY <2>2, <2>3
<1>. HIDE DEF step
<1>4. IsRecursion(Visit, Forward, step, Work, WorkLimit)
  BY <1>1, <1>2, <1>3, WorkFalls DEF IsRecursion
<1>5. \E g \in Forward : g = step[g]
  BY <1>4, RecursionSolved
<1>6. \E g : g = Walking(g)
  BY <1>5 DEF step
<1>. QED  BY <1>6 DEF Walker

\* What a key that was seen stands for has happened: the module is merged, or the
\* entries of the owner are seen.
Settled(k, r) == IF k[3] = 0 THEN k[1] \in r.merged
                 ELSE \A f \in EntriesOf(k[2]) : EntryKey(k[2], f) \in r.seen

\* The walk from at ends in r: nothing is lost, nothing failed, the entries left are
\* seen, and what it has seen is settled.
Walked(at, r) ==
    /\ r \in Visit /\ at.seen \subseteq r.seen /\ at.merged \subseteq r.merged /\ r.ok = at.ok
    /\ \A f \in Left(at) : EntryKey(at.unit, f) \in r.seen
    /\ \A k \in r.seen \ at.seen : Settled(k, r)

\* One entry: the walk through the entries of an owner that is whole settles its key.
LEMMA AfterWalked ==
    ASSUME ExportTypes, NEW at \in Visit, Left(at) # {}, \A u \in Unit : Whole(u),
           ChosenKey(at) \notin at.seen /\ OwnerAt(at) # Inline => Walked(Within(at), Walker[Within(at)])
    PROVE  LET a == After(Walker, at) IN
           /\ a \in Visit /\ at.seen \subseteq a.seen /\ at.merged \subseteq a.merged /\ a.ok = at.ok
           /\ ChosenKey(at) \in a.seen
           /\ \A k \in a.seen \ at.seen : Settled(k, a)
<1>1. CASE ChosenKey(at) \in at.seen
  BY <1>1 DEF After
<1>2. CASE ChosenKey(at) \notin at.seen /\ OwnerAt(at) = Inline
  <2>1. PICK r \in Visit : /\ r = [Met(at) EXCEPT !.merged = @ \cup {Chosen(at)}]
                           /\ r.seen = Met(at).seen /\ r.ok = at.ok /\ r.merged = at.merged \cup {Chosen(at)}
    BY EntryRecords
  <2>2. After(Walker, at) = r
    BY <1>2, <2>1 DEF After
  <2>3. Met(at).seen = at.seen \cup {ChosenKey(at)}
    BY EntryRecords
  <2>4. Settled(ChosenKey(at), r)
    <3>1. ChosenKey(at) = <<Chosen(at), at.unit, 0>>
      BY <1>2, EntryMet
    <3>. QED  BY <2>1, <3>1 DEF Settled
  <2>. QED  BY <2>1, <2>2, <2>3, <2>4
<1>3. CASE ChosenKey(at) \notin at.seen /\ OwnerAt(at) # Inline
  <2>1. PICK w \in Visit : /\ w = Within(at) /\ w.seen = Met(at).seen /\ w.ok = at.ok
                           /\ w.merged = at.merged /\ w.unit = OwnerAt(at) /\ w.done = {}
    BY <1>3, EntryRecords
  <2>2. PICK r \in Visit : r = Walker[w] /\ Walked(w, r)
    BY <1>3, <2>1 DEF Walked
  <2>3. After(Walker, at) = r
    <3>1. OwnerAt(at) \in Unit
      BY <1>3, EntryMet
    <3>. QED  BY <1>3, <2>1, <2>2, <3>1 DEF After
  <2>4. Met(at).seen = at.seen \cup {ChosenKey(at)}
    BY EntryRecords
  <2>5. /\ w.seen \subseteq r.seen /\ w.merged \subseteq r.merged /\ r.ok = w.ok
        /\ \A k \in r.seen \ w.seen : Settled(k, r)
        /\ \A f \in EntriesOf(w.unit) : EntryKey(w.unit, f) \in r.seen
    <3>1. Left(w) = EntriesOf(w.unit)
      BY <2>1 DEF Left
    <3>. QED  BY <2>2, <3>1 DEF Walked
  <2>6. Settled(ChosenKey(at), r)
    <3>1. ChosenKey(at) = <<Chosen(at), OwnerAt(at), GroupOf[at.unit]>> /\ GroupOf[at.unit] # 0
      BY <1>3, EntryMet
    <3>. QED  BY <2>1, <2>5, <3>1 DEF Settled
  <2>. QED  BY <2>1, <2>3, <2>4, <2>5, <2>6
<1>. QED  BY <1>1, <1>2, <1>3

\* Of units that are whole, the walk settles everything it comes upon.
LEMMA WalkerWalks ==
    ASSUME ExportTypes, \A u \in Unit : Whole(u), NEW start \in Visit
    PROVE  Walked(start, Walker[start])
<1>. DEFINE Bad == {at \in Visit : ~Walked(at, Walker[at])}
<1>1. ASSUME Bad # {} PROVE FALSE
  <2>1. PICK at \in Bad : \A b \in Bad : Work[at] <= Work[b]
    <3>1. Bad \in SUBSET Visit /\ Work \in [Visit -> Nat]
      BY WorkFalls
    <3>. HIDE DEF Bad
    <3>. QED  BY <1>1, <3>1, LeastMember
  <2>2. \A b \in Visit : Work[b] < Work[at] => Walked(b, Walker[b])
    <3>1. at \in Visit /\ Work \in [Visit -> Nat]
      BY WorkFalls
    <3>. QED  BY <2>1, <3>1
  <2>3. Walker[at] = IF Left(at) = {} THEN at ELSE Walker[Back(at, After(Walker, at))]
    BY WalkerSolves DEF Walking
  <2>4. CASE Left(at) = {}
    BY <2>3, <2>4 DEF Walked
  <2>5. CASE Left(at) # {}
    <3>. HIDE DEF Bad
    <3>0. at \in Visit /\ ~Walked(at, Walker[at])
      BY DEF Bad
    <3>1. ChosenKey(at) \notin at.seen /\ OwnerAt(at) # Inline => Walked(Within(at), Walker[Within(at)])
      BY <2>2, <2>5, <3>0, CallsFall, EntryRecords
    <3>2. PICK a \in Visit :
             /\ a = After(Walker, at)
             /\ at.seen \subseteq a.seen /\ at.merged \subseteq a.merged /\ a.ok = at.ok
             /\ ChosenKey(at) \in a.seen
             /\ \A k \in a.seen \ at.seen : Settled(k, a)
      BY <2>5, <3>0, <3>1, AfterWalked
    <3>a. /\ Back(at, a) \in Visit /\ Back(at, a).seen = a.seen /\ Back(at, a).ok = a.ok
          /\ Back(at, a).merged = a.merged /\ Back(at, a).unit = at.unit
          /\ Back(at, a).done = at.done \cup {Chosen(at)}
      BY <2>5, <3>0, BackRecord
    <3>3. PICK b \in Visit : /\ b = Back(at, a) /\ b.seen = a.seen /\ b.ok = a.ok /\ b.merged = a.merged
                             /\ b.unit = at.unit /\ b.done = at.done \cup {Chosen(at)}
      BY <3>a
    <3>4. Walked(b, Walker[b])
      BY <2>2, <2>5, <3>0, <3>2, <3>3, CallsFall
    <3>5. PICK r \in Visit : r = Walker[at] /\ Walked(b, r)
      BY <2>3, <2>5, <3>2, <3>3, <3>4 DEF Walked
    <3>6. at.seen \subseteq r.seen /\ at.merged \subseteq r.merged /\ r.ok = at.ok
          /\ a.seen \subseteq r.seen /\ a.merged \subseteq r.merged
      BY <3>2, <3>3, <3>5 DEF Walked
    <3>7. ASSUME NEW f \in Left(at) PROVE EntryKey(at.unit, f) \in r.seen
      <4>1. CASE f = Chosen(at)
        BY <3>2, <3>6, <4>1 DEF ChosenKey
      <4>2. CASE f # Chosen(at)
        <5>1. f \in Left(b)
          BY <3>3, <4>2 DEF Left
        <5>. QED  BY <3>3, <3>5, <5>1 DEF Walked
      <4>. QED  BY <4>1, <4>2
    <3>8. ASSUME NEW k \in r.seen \ at.seen PROVE Settled(k, r)
      <4>1. CASE k \in a.seen
        BY <3>2, <3>6, <3>8, <4>1 DEF Settled
      <4>2. CASE k \notin a.seen
        BY <3>3, <3>5, <3>8, <4>2 DEF Walked
      <4>. QED  BY <4>1, <4>2
    <3>. QED  BY <3>0, <3>5, <3>6, <3>7, <3>8 DEF Walked
  <2>. QED  BY <2>4, <2>5
<1>. QED  BY <1>1

\* Of units that are whole, the linker merges without error, and the keys it has seen
\* are those of the unit and, with a reference, those of the owner.
LEMMA LinkEmbeddedClosed ==
    ASSUME ExportTypes, \A u \in Unit : Whole(u), NEW u \in Unit
    PROVE  LET r == LinkEmbedded(u) IN
           /\ r.ok /\ r.seen \subseteq SeenKeys
           /\ \A f \in EntriesOf(u) : EntryKey(u, f) \in r.seen
           /\ \A k \in r.seen : Settled(k, r)
<1>1. Start(u) \in Visit
  BY DEF Start, Visit
<1>2. PICK r \in Visit : r = Walker[Start(u)] /\ Walked(Start(u), r)
  BY <1>1, WalkerWalks DEF Walked
<1>3. LinkEmbedded(u) = r
  BY <1>2, LinkEmbeddedIs
<1>4. Start(u).ok = TRUE /\ Start(u).seen = {} /\ Start(u).unit = u /\ Left(Start(u)) = EntriesOf(u)
  BY DEF Start, Left
<1>5. r.seen \subseteq SeenKeys
  BY DEF Visit
<1>. QED  BY <1>2, <1>3, <1>4, <1>5 DEF Walked

-----------------------------------------------------------------------------
(* The inductive invariant of the links *)

NeededBy(u) == UNION {FilesOf[p] : p \in Needs[u]}

\* A worker is at a unit of its own, which is not finished, and has no entry yet for a
\* module that it has still to claim.
Awaited(t) == {m \in File : \/ \E p \in worker[t].todo : m \in FilesOf[p]
                            \/ worker[t].pc = "import" /\ m \in FilesOf[worker[t].pkg]
                            \/ worker[t].pc = "claim" /\ m \in worker[t].modules}
JobOf(t) ==
    /\ worker[t].todo \subseteq Needs[worker[t].unit]
    /\ worker[t].pc = "import" => worker[t].pkg \in Needs[worker[t].unit] \ worker[t].todo
    /\ worker[t].pc = "claim" => /\ worker[t].modules \subseteq NeededBy(worker[t].unit)
                                 /\ \A p \in worker[t].todo : FilesOf[p] \cap worker[t].modules = {}
    /\ \A m \in Awaited(t) : worker[t].entry[m] = Nobody
VisitInv == \A t \in Thread : worker[t].pc \in Busy =>
    /\ worker[t].unit \in visited /\ ~Whole(worker[t].unit)
    /\ JobOf(t)
    /\ \A v \in Thread \ {t} : worker[v].pc \in Busy => worker[v].unit # worker[t].unit

\* When the registry is that of one run, a worker refers to the owner, and to no other
\* unit for what its own unit owns.
OneProcess == ~persisted \/ runs = 1
ClaimInv == OneProcess => \A t \in Thread : worker[t].pc \in Busy => \A m \in File :
    /\ worker[t].entry[m] \in Unit => owners[m] = worker[t].entry[m]
    /\ owners[m] = worker[t].unit => worker[t].entry[m] = Inline

\* age is the run that finished a unit.  An owner needs its module, and has it in its
\* file once that is whole; a reference leads to a unit of a later run, or to one that
\* carries the module.
AgeInv(age) ==
    /\ \A u \in Unit : Whole(u) => age[u] \in 1..runs
    /\ \A m \in File : \A v \in Unit : owners[m] = v =>
          /\ v \in visited /\ m \in NeededBy(v)
          /\ Whole(v) => age[v] = runs /\ target[v].entry[m] = Inline
    /\ \A u \in Unit : \A m \in File : \A v \in Unit : Whole(u) /\ target[u].entry[m] = v =>
          /\ m \in NeededBy(v)
          /\ age[u] = runs => owners[m] = v
          /\ Whole(v) => age[u] < age[v] \/ target[v].entry[m] = Inline
RefInv == OneProcess => \E age \in [Unit -> 0..MaxRuns] : AgeInv(age)

\* In the first run a unit that was not visited has no file, and one that was is whole
\* or at a worker; a directory that was taken is at a worker until all of it is visited.
At1(g) == \E t \in Thread : worker[t].pc # "job" /\ worker[t].group = g
FirstRunInv == runs = 1 /\ verdict # "killed" =>
    /\ \A u \in Unit \ visited : target[u].state = "absent"
    /\ failed \/ \A u \in visited : Whole(u) \/ \E t \in Thread : worker[t].pc \in Busy /\ worker[t].unit = u
    /\ failed \/ \A u \in Unit \ visited : GroupOf[u] < nextGroup => At1(GroupOf[u])
OkInv == nextGroup >= 1 /\ (verdict = "ok" => ~failed /\ ~JobsOpen)

LinkInv == VisitInv /\ ClaimInv /\ RefInv /\ FirstRunInv /\ OkInv

-----------------------------------------------------------------------------
(* Every step keeps the links *)

\* What a claim does, module by module.
LEMMA ClaimIs ==
    ASSUME StoreTypes, ExportTypes, WorkerInv, NEW t \in Thread, Claim(t)
    PROVE  /\ worker[t].pc = "claim" /\ worker[t].unit \in Unit /\ worker'[t].unit = worker[t].unit
           /\ worker'[t].todo = worker[t].todo /\ worker'[t].pc \in {"claim", "resolve"}
           /\ \A v \in Thread \ {t} : worker'[v] = worker[v]
           /\ UNCHANGED <<target, visited, runs, persisted>>
           /\ \E m \in worker[t].modules :
                 /\ m \in File /\ worker'[t].modules = worker[t].modules \ {m}
                 /\ \A f \in File \ {m} : worker'[t].entry[f] = worker[t].entry[f] /\ owners'[f] = owners[f]
                 /\ owners[m] = Nobody => owners'[m] = worker[t].unit /\ worker'[t].entry[m] = Inline
                 /\ owners[m] # Nobody => /\ owners'[m] = owners[m] /\ worker'[t].entry[m] = owners[m]
                                          /\ owners[m] \in Unit
<1>0. worker[t].unit \in Unit /\ worker[t].pc = "claim" /\ worker[t] \in Jobs
  BY DEF Claim, At, WorkerInv, WorkerOf, Busy, ExportTypes
<1>1. PICK m \in worker[t].modules :
          /\ m \in File
          /\ owners' = IF Free(m) THEN [owners EXCEPT ![m] = worker[t].unit] ELSE owners
          /\ Works(t, IF worker[t].modules = {m} THEN "resolve" ELSE "claim", worker[t].unit, worker[t].pkg,
                   worker[t].todo, worker[t].modules \ {m},
                   [worker[t].entry EXCEPT ![m] = IF Free(m) THEN Inline ELSE owners[m]])
  BY <1>0, ClaimWorks
<1>2. worker[t].entry \in Entries /\ owners \in [File -> Unit \cup {Nobody}]
  BY <1>0 DEF Jobs, ExportTypes
<1>3. worker'[t].entry = [worker[t].entry EXCEPT ![m] = IF Free(m) THEN Inline ELSE owners[m]]
  BY <1>1 DEF Works
<1>4. /\ \A f \in File \ {m} : worker'[t].entry[f] = worker[t].entry[f] /\ owners'[f] = owners[f]
      /\ owners[m] = Nobody => owners'[m] = worker[t].unit /\ worker'[t].entry[m] = Inline
      /\ owners[m] # Nobody => /\ owners'[m] = owners[m] /\ worker'[t].entry[m] = owners[m]
                               /\ owners[m] \in Unit
  BY <1>1, <1>2, <1>3 DEF Entries, Free
<1>5. /\ worker'[t].unit = worker[t].unit /\ worker'[t].todo = worker[t].todo
      /\ worker'[t].modules = worker[t].modules \ {m} /\ worker'[t].pc \in {"claim", "resolve"}
      /\ \A v \in Thread \ {t} : worker'[v] = worker[v]
  BY <1>1 DEF Works
<1>6. UNCHANGED <<target, visited, runs, persisted>>
  BY DEF Claim
<1>. QED  BY <1>0, <1>1, <1>4, <1>5, <1>6

\* What a step makes of a worker that is at a unit after it: nothing, or it began the
\* unit, or goes on with it.
LEMMA BusyWorker ==
    ASSUME StoreTypes, ExportTypes, WorkerInv, RunInv, [Next]_vars, NEW t \in Thread, worker'[t].pc \in Busy
    PROVE  /\ verdict = "running" /\ visited \subseteq visited'
           /\ \/ worker'[t] = worker[t]
              \/ /\ BeginUnit(t) /\ \A v \in Thread \ {t} : worker'[v] = worker[v]
                 /\ \E u \in Unit \ visited :
                       /\ ~Keep(u) /\ visited' = visited \cup {u} /\ worker'[t].unit = u
                       /\ worker'[t].pc = "resolve" /\ worker'[t].todo = Needs[u] /\ worker'[t].entry = NoOwners
              \/ /\ worker[t].pc \in Busy /\ worker'[t].unit = worker[t].unit
                 /\ \A v \in Thread \ {t} : worker'[v] = worker[v]
                 /\ \/ Claim(t)
                    \/ /\ ResolveStored(t) \/ ResolveImport(t) \/ Imported(t) \/ Create(t) \/ Stream(t)
                       /\ worker'[t].entry = worker[t].entry
<1>1. verdict = "running" /\ visited \subseteq visited'
  <2>1. ~Return /\ ~Crash /\ ~Resume
    <3>1. ~Crash
      BY DEF Crash, Job, Busy
    <3>2. ~Return /\ ~Resume
      BY DEF Return, Resume, RunInv, Busy
    <3>. QED  BY <3>1, <3>2
  <2>2. verdict = "running"
    <3>1. ASSUME NEW v \in Thread, Alone(v) PROVE verdict = "running"
      BY <3>1, AloneRests
    <3>2. ASSUME NEW v \in Thread, ResolveImport(v) \/ Import(v) PROVE verdict = "running"
      BY <3>2 DEF ResolveImport, Import, At
    <3>3. ASSUME UNCHANGED vars PROVE verdict = "running"
      BY <3>3 DEF vars, exportVars, RunInv, Busy
    <3>. QED  BY <2>1, <3>1, <3>2, <3>3, ExportSteps
  <2>3. visited \subseteq visited'
    <3>1. ASSUME NEW v \in Thread,
                 TakeJob(v) \/ PackageFails(v) \/ LowerFails(v) \/ KeepUnit(v) \/ BeginUnit(v) \/ GroupEnds(v)
          PROVE  visited \subseteq visited'
      BY <3>1 DEF TakeJob, PackageFails, LowerFails, KeepUnit, BeginUnit, GroupEnds, NextUnit
    <3>2. ASSUME NEW v \in Thread,
                 ResolveStored(v) \/ ResolveImport(v) \/ Import(v) \/ Imported(v) \/ Claim(v) \/ EmbedFails(v)
          PROVE  visited \subseteq visited'
      BY <3>2 DEF ResolveStored, ResolveImport, Import, exportVars, Imported, Claim, EmbedFails
    <3>3. ASSUME NEW v \in Thread, Create(v) \/ Stream(v) \/ Finish(v) \/ WriteFails(v)
          PROVE  visited \subseteq visited'
      BY <3>3 DEF Create, Stream, Finish, WriteFails
    <3>4. ASSUME UNCHANGED vars PROVE visited \subseteq visited'
      BY <3>4 DEF vars, exportVars
    <3>. QED  BY <2>1, <3>1, <3>2, <3>3, <3>4 DEF Next
  <2>. QED  BY <2>2, <2>3
<1>2. CASE Alone(t)
  <2>1. CASE \/ Works(t, "job", NoUnit, NoPackage, {}, {}, NoOwners)
             \/ Works(t, "visit", NoUnit, NoPackage, {}, {}, NoOwners)
    BY <2>1 DEF Works, Busy
  <2>2. CASE BeginUnit(t)
    <3>1. PICK u \in Unit \ visited :
              /\ ~Keep(u) /\ visited' = visited \cup {u} /\ worker[t].pc = "visit"
              /\ Works(t, "resolve", u, worker[t].pkg, Needs[u], worker[t].modules, worker[t].entry)
      BY <2>2, BeginWorks
    <3>2. worker[t].entry = NoOwners
      BY <3>1 DEF WorkerInv, WorkerOf, Busy
    <3>. QED  BY <1>1, <2>2, <3>1, <3>2 DEF Works
  <2>3. CASE ResolveStored(t)
    <3>1. worker[t].pc \in Busy
      BY <2>3 DEF ResolveStored, At, Busy
    <3>. QED  BY <1>1, <2>3, <3>1, StoredWorks DEF Works
  <2>4. CASE Imported(t)
    <3>1. worker[t].pc \in Busy /\ worker[t].pkg \in Package
      BY <2>4 DEF Imported, At, Busy, WorkerInv, WorkerOf
    <3>. QED  BY <1>1, <2>4, <3>1, ImportedWorks DEF Works
  <2>5. CASE Claim(t)
    BY <1>1, <2>5, ClaimIs DEF Busy
  <2>6. CASE Create(t) \/ Stream(t)
    <3>1. worker[t].pc \in Busy
      BY <2>6 DEF Create, Stream, At, Busy
    <3>2. worker'[t].entry = worker[t].entry /\ worker'[t].unit = worker[t].unit
          /\ \A v \in Thread \ {t} : worker'[v] = worker[v]
      BY <2>6, GoWorks DEF Create, Stream, Works
    <3>. QED  BY <1>1, <2>6, <3>1, <3>2
  <2>. QED  BY <1>1, <1>2, <2>1, <2>2, <2>3, <2>4, <2>5, <2>6, AloneWorks
<1>3. CASE ResolveImport(t)
  <2>1. worker[t].pc \in Busy
    BY <1>3 DEF ResolveImport, At, Busy
  <2>. QED  BY <1>1, <1>3, <2>1, ResolveImportWorks DEF Works
<1>4. ASSUME NEW v \in Thread, v # t, Alone(v) \/ ResolveImport(v) PROVE worker'[t] = worker[t]
  <2>1. CASE Alone(v)
    BY <1>4, <2>1, AloneWorks DEF Works
  <2>2. CASE ResolveImport(v)
    BY <1>4, <2>2, ResolveImportWorks DEF Works
  <2>. QED  BY <1>4, <2>1, <2>2
<1>5. ASSUME NEW v \in Thread, Import(v) PROVE worker'[t] = worker[t]
  BY <1>5 DEF Import, exportVars
<1>6. CASE Crash
  BY <1>6 DEF Crash, Job, Busy
<1>7. ASSUME Return \/ Resume \/ UNCHANGED vars PROVE worker'[t] = worker[t]
  BY <1>7 DEF Return, Resume, vars, exportVars
<1>. QED  BY <1>1, <1>2, <1>3, <1>4, <1>5, <1>6, <1>7, ExportSteps

\* A worker goes on with the packages of its unit, one by one.
LEMMA JobStep ==
    ASSUME StoreTypes, ExportTypes, WorkerInv, RunInv, VisitInv, [Next]_vars,
           NEW t \in Thread, worker'[t].pc \in Busy
    PROVE  JobOf(t)'
<1>1. CASE worker'[t] = worker[t]
  BY <1>1 DEF VisitInv, JobOf, Awaited
<1>2. CASE BeginUnit(t) /\ worker'[t] # worker[t]
  <2>1. PICK u \in Unit : /\ worker'[t].unit = u /\ worker'[t].todo = Needs[u] /\ worker'[t].entry = NoOwners
                          /\ worker'[t].pc = "resolve"
    BY <1>2, BusyWorker DEF BeginUnit, ResolveStored, ResolveImport, Imported, Create, Stream, Claim, NextUnit, At
  <2>2. \A m \in Awaited(t)' : worker'[t].entry[m] = Nobody
    BY <2>1, Markers DEF Awaited
  <2>. QED  BY <2>1, <2>2 DEF JobOf
<1>3. ASSUME worker[t].pc \in Busy
      PROVE  /\ JobOf(t) /\ worker[t].unit \in Unit /\ worker[t] \in Jobs
             /\ Needs[worker[t].unit] \subseteq Package
             /\ \A p \in Package : FilesOf[p] \subseteq File
             /\ \A p, q \in Package : p # q => FilesOf[p] \cap FilesOf[q] = {}
  BY <1>3, PackageStoreAssumption, ProjectExportAssumption DEF VisitInv, WorkerInv, WorkerOf, ExportTypes
<1>4. CASE ResolveStored(t)
  <2>0. worker[t].pc = "resolve" /\ worker[t].pc \in Busy
    BY <1>4 DEF ResolveStored, At, Busy
  <2>1. PICK p \in worker[t].todo :
            Works(t, "claim", worker[t].unit, worker[t].pkg, worker[t].todo \ {p}, FilesOf[p], worker[t].entry)
    BY <1>4, StoredWorks
  <2>2. /\ worker'[t].pc = "claim" /\ worker'[t].unit = worker[t].unit /\ worker'[t].todo = worker[t].todo \ {p}
        /\ worker'[t].modules = FilesOf[p] /\ worker'[t].entry = worker[t].entry
    BY <2>1 DEF Works
  <2>3. p \in Needs[worker[t].unit] /\ worker[t].todo \subseteq Needs[worker[t].unit]
    BY <1>3, <2>0 DEF JobOf
  <2>4. Awaited(t)' \subseteq Awaited(t)
    BY <2>0, <2>2 DEF Awaited
  <2>5. worker'[t].modules \subseteq NeededBy(worker[t].unit)
    BY <2>2, <2>3 DEF NeededBy
  <2>6. \A q \in worker'[t].todo : FilesOf[q] \cap worker'[t].modules = {}
    BY <1>3, <2>0, <2>2, <2>3
  <2>7. \A m \in Awaited(t)' : worker'[t].entry[m] = Nobody
    BY <1>3, <2>0, <2>2, <2>4 DEF JobOf
  <2>. QED  BY <2>2, <2>3, <2>5, <2>6, <2>7 DEF JobOf
<1>5. CASE ResolveImport(t)
  <2>0. worker[t].pc = "resolve" /\ worker[t].pc \in Busy
    BY <1>5 DEF ResolveImport, At, Busy
  <2>1. PICK p \in worker[t].todo :
            Works(t, "import", worker[t].unit, p, worker[t].todo \ {p}, worker[t].modules, worker[t].entry)
    BY <1>5, ResolveImportWorks
  <2>2. /\ worker'[t].pc = "import" /\ worker'[t].unit = worker[t].unit /\ worker'[t].todo = worker[t].todo \ {p}
        /\ worker'[t].pkg = p /\ worker'[t].entry = worker[t].entry
    BY <2>1 DEF Works
  <2>3. Awaited(t)' \subseteq Awaited(t)
    BY <2>0, <2>2 DEF Awaited
  <2>. QED  BY <1>3, <2>0, <2>2, <2>3 DEF JobOf
<1>6. CASE Imported(t)
  <2>0. worker[t].pc = "import" /\ worker[t].pc \in Busy /\ worker[t].pkg \in Package
    BY <1>6 DEF Imported, At, Busy, WorkerInv, WorkerOf
  <2>1. worker'[t].unit = worker[t].unit /\ worker'[t].todo = worker[t].todo /\ worker'[t].entry = worker[t].entry
    BY <1>6, <2>0, ImportedWorks DEF Works
  <2>2. JobOf(t) /\ worker[t].pkg \in Needs[worker[t].unit] \ worker[t].todo
    BY <1>3, <2>0 DEF JobOf
  <2>3. \/ worker'[t].pc = "resolve"
        \/ worker'[t].pc = "claim" /\ worker'[t].modules \subseteq FilesOf[worker[t].pkg]
    <3>1. Readable(worker[t].pkg) \subseteq FilesOf[worker[t].pkg]
      BY DEF Readable
    <3>. QED  BY <1>6, <2>0, <3>1, ImportedWorks DEF Works
  <2>4. Awaited(t)' \subseteq Awaited(t)
    BY <2>0, <2>1, <2>3 DEF Awaited
  <2>5. worker'[t].pc = "claim" => /\ worker'[t].modules \subseteq NeededBy(worker[t].unit)
                                   /\ \A p \in worker'[t].todo : FilesOf[p] \cap worker'[t].modules = {}
    <3>1. ASSUME worker'[t].pc = "claim" PROVE worker'[t].modules \subseteq FilesOf[worker[t].pkg]
      BY <2>3, <3>1
    <3>2. FilesOf[worker[t].pkg] \subseteq NeededBy(worker[t].unit)
      BY <2>2 DEF NeededBy
    <3>3. \A p \in worker[t].todo : FilesOf[p] \cap FilesOf[worker[t].pkg] = {}
      BY <1>3, <2>0, <2>2 DEF JobOf
    <3>. QED  BY <2>1, <3>1, <3>2, <3>3
  <2>6. \A m \in Awaited(t)' : worker'[t].entry[m] = Nobody
    BY <2>1, <2>2, <2>4 DEF JobOf
  <2>7. worker'[t].pc # "import"
    BY <2>3
  <2>. QED  BY <2>1, <2>2, <2>5, <2>6, <2>7 DEF JobOf
<1>7. CASE Claim(t)
  <2>0. worker[t].pc = "claim" /\ worker[t].pc \in Busy
    BY <1>7 DEF Claim, At, Busy
  <2>1. PICK m \in worker[t].modules :
           /\ m \in File /\ worker'[t].modules = worker[t].modules \ {m}
           /\ \A f \in File \ {m} : worker'[t].entry[f] = worker[t].entry[f]
    BY <1>7, ClaimIs
  <2>2. worker'[t].unit = worker[t].unit /\ worker'[t].todo = worker[t].todo /\ worker'[t].pc \in {"claim", "resolve"}
    BY <1>7, ClaimIs
  <2>3. /\ worker[t].modules \subseteq NeededBy(worker[t].unit) /\ worker[t].modules \subseteq File
        /\ \A p \in worker[t].todo : FilesOf[p] \cap worker[t].modules = {} /\ FilesOf[p] \subseteq File
    BY <1>3, <2>0 DEF JobOf, Jobs
  <2>4. Awaited(t)' \subseteq Awaited(t) \ {m} /\ Awaited(t) \subseteq File
    BY <2>0, <2>1, <2>2, <2>3 DEF Awaited
  <2>5. \A f \in Awaited(t)' : worker'[t].entry[f] = Nobody
    BY <1>3, <2>0, <2>1, <2>4 DEF JobOf
  <2>6. worker'[t].pc # "import" /\ worker'[t].modules \subseteq worker[t].modules
    BY <2>1, <2>2
  <2>7. worker'[t].modules \subseteq NeededBy(worker[t].unit)
        /\ \A p \in worker'[t].todo : FilesOf[p] \cap worker'[t].modules = {}
    BY <2>2, <2>3, <2>6
  <2>8. worker'[t].todo \subseteq Needs[worker[t].unit]
    BY <1>3, <2>0, <2>2 DEF JobOf
  <2>. QED  BY <2>2, <2>5, <2>6, <2>7, <2>8 DEF JobOf
<1>8. CASE Create(t) \/ Stream(t)
  <2>0. worker[t].pc \in {"resolve", "stream"} /\ worker[t].pc \in Busy
    BY <1>8 DEF Create, Stream, At, Busy
  <2>1. /\ worker'[t].pc \in {"stream", "finish"} /\ worker'[t].unit = worker[t].unit
        /\ worker'[t].todo = worker[t].todo /\ worker'[t].entry = worker[t].entry
    BY <1>8, GoWorks DEF Create, Stream, Works
  <2>2. Awaited(t)' \subseteq Awaited(t)
    BY <2>0, <2>1 DEF Awaited
  <2>. QED  BY <1>3, <2>0, <2>1, <2>2 DEF JobOf
<1>. QED  BY <1>1, <1>2, <1>4, <1>5, <1>6, <1>7, <1>8, BusyWorker

\* A file that a step changes belongs to the unit of a worker that is at it.
LEMMA TargetMoves ==
    ASSUME StoreTypes, ExportTypes, WorkerInv, [Next]_vars, NEW u \in Unit, target'[u] # target[u]
    PROVE  \E t \in Thread : /\ Create(t) \/ Stream(t) \/ Finish(t)
                             /\ worker[t].unit = u /\ worker[t].pc \in Busy /\ verdict = "running"
<1>1. PICK t \in Thread : Create(t) \/ Stream(t) \/ Finish(t)
  BY ExportEffects
<1>2. worker[t].unit = u
  BY <1>1, TargetTypes
<1>3. worker[t].pc \in Busy /\ verdict = "running"
  BY <1>1 DEF Create, Stream, Finish, At, Busy
<1>. QED  BY <1>1, <1>2, <1>3

\* Every step leaves each unit to one worker.
LEMMA VisitStep ==
    ASSUME StoreTypes, ExportTypes, WorkerInv, RunInv, VisitInv, [Next]_vars
    PROVE  VisitInv'
<1>1. ASSUME NEW t \in Thread, worker'[t].pc \in Busy
      PROVE  /\ worker'[t].unit \in visited'
             /\ \/ worker[t].pc \in Busy /\ worker'[t].unit = worker[t].unit /\ worker[t].unit \in Unit
                \/ /\ worker'[t].unit \in Unit \ visited /\ ~Whole(worker'[t].unit)
                   /\ BeginUnit(t) /\ \A v \in Thread \ {t} : worker'[v] = worker[v]
  <2>1. CASE BeginUnit(t) /\ worker'[t] # worker[t]
    <3>1. worker[t].pc = "visit"
      BY <2>1 DEF BeginUnit, NextUnit, At
    <3>2. PICK u \in Unit \ visited : ~Keep(u) /\ visited' = visited \cup {u} /\ worker'[t].unit = u
      BY <1>1, <2>1, <3>1, BusyWorker DEF Busy
    <3>3. ~Whole(u)
      BY <3>2 DEF Keep, Whole
    <3>4. \A v \in Thread \ {t} : worker'[v] = worker[v]
      BY <1>1, <2>1, <3>1, BusyWorker DEF Busy
    <3>. QED  BY <2>1, <3>2, <3>3, <3>4
  <2>2. CASE ~(BeginUnit(t) /\ worker'[t] # worker[t])
    <3>1. worker[t].pc \in Busy /\ worker'[t].unit = worker[t].unit /\ visited \subseteq visited'
      BY <1>1, <2>2, BusyWorker
    <3>. QED  BY <3>1 DEF VisitInv, WorkerInv, WorkerOf
  <2>. QED  BY <2>1, <2>2
<1>2. ASSUME NEW t \in Thread, worker'[t].pc \in Busy PROVE target'[worker'[t].unit].state # "whole"
  <2>1. PICK u \in Unit : u = worker'[t].unit
    BY <1>1, <1>2
  <2>2. ~Whole(u)
    BY <1>1, <1>2, <2>1 DEF VisitInv
  <2>3. CASE target'[u] = target[u]
    BY <2>1, <2>2, <2>3 DEF Whole
  <2>4. CASE target'[u] # target[u]
    <3>1. PICK v \in Thread : /\ Create(v) \/ Stream(v) \/ Finish(v)
                              /\ worker[v].unit = u /\ worker[v].pc \in Busy
      BY <2>4, TargetMoves
    <3>2. worker[v].unit \in visited
      BY <3>1 DEF VisitInv
    <3>3. worker[t].pc \in Busy /\ worker[t].unit = u
      BY <1>1, <1>2, <2>1, <3>1, <3>2
    <3>4. v = t
      BY <3>1, <3>3 DEF VisitInv
    <3>5. CASE Finish(t)
      <4>1. worker'[t].pc = "visit"
        BY <3>5, NextFileWorks DEF Finish, Works
      <4>. QED  BY <1>2, <4>1 DEF Busy
    <3>6. CASE Create(t) \/ Stream(t)
      <4>1. target'[u].state \in {"empty", "part"}
        BY <3>3, <3>6, TargetTypes
      <4>. QED  BY <2>1, <4>1
    <3>. QED  BY <3>1, <3>4, <3>5, <3>6
  <2>. QED  BY <2>3, <2>4
<1>3. ASSUME NEW t \in Thread, NEW v \in Thread \ {t}, worker'[t].pc \in Busy, worker'[v].pc \in Busy
      PROVE  worker'[v].unit # worker'[t].unit
  <2>1. ASSUME NEW x \in Thread, NEW y \in Thread \ {x}, worker'[x].pc \in Busy, worker'[y].pc \in Busy,
               BeginUnit(x), worker'[x].unit \in Unit \ visited,
               \A w \in Thread \ {x} : worker'[w] = worker[w]
        PROVE  worker'[y].unit # worker'[x].unit
    <3>1. worker[y].pc \in Busy /\ worker'[y].unit = worker[y].unit
      BY <2>1
    <3>. QED  BY <2>1, <3>1 DEF VisitInv
  <2>2. CASE worker[t].pc \in Busy /\ worker'[t].unit = worker[t].unit
             /\ worker[v].pc \in Busy /\ worker'[v].unit = worker[v].unit
    BY <2>2 DEF VisitInv
  <2>. QED  BY <1>1, <1>3, <2>1, <2>2
<1>. QED  BY <1>1, <1>2, <1>3, JobStep DEF VisitInv, Whole

\* A run that has a registry of its own has had one.
LEMMA OneProcessStays ==
    ASSUME ExportTypes, [Next]_vars, OneProcess'
    PROVE  /\ OneProcess
           /\ Resume => ~persisted /\ owners' = [m \in File |-> Nobody] /\ runs' = runs + 1
           /\ ~Resume => runs' = runs
<1>1. runs \in Nat \ {0} /\ persisted' = persisted /\ (runs' = runs \/ runs' = runs + 1)
  <2>1. MaxRuns \in Nat /\ runs \in 1..MaxRuns
    BY ProjectExportAssumption DEF ExportTypes
  <2>2. persisted' = persisted /\ (runs' = runs \/ runs' = runs + 1)
    BY ExportEffects
  <2>. QED  BY <2>1, <2>2
<1>2. ASSUME Resume PROVE ~persisted /\ owners' = [m \in File |-> Nobody] /\ runs' = runs + 1
  BY <1>1, <1>2 DEF Resume, OneProcess, NoOwners
<1>3. ASSUME ~Resume PROVE runs' = runs
  <2>1. ASSUME NEW t \in Thread, Alone(t) PROVE runs' = runs
    BY <2>1, AloneRests
  <2>2. ASSUME NEW t \in Thread, ResolveImport(t) \/ Import(t) PROVE runs' = runs
    BY <2>2 DEF ResolveImport, Import, exportVars
  <2>3. ASSUME Return \/ Crash \/ UNCHANGED vars PROVE runs' = runs
    BY <2>3 DEF Return, Crash, vars, exportVars
  <2>. QED  BY <1>3, <2>1, <2>2, <2>3 DEF Next, Alone
<1>4. OneProcess
  BY <1>1 DEF OneProcess
<1>. QED  BY <1>2, <1>3, <1>4

\* While a run lasts, the owners change by a claim alone.
LEMMA OwnersMove ==
    ASSUME [Next]_vars, NEW m \in File, owners'[m] # owners[m]
    PROVE  Resume \/ \E t \in Thread : Claim(t)
  BY ExportEffects

\* Every step keeps the entries of the workers at what the registry says.
LEMMA ClaimStep ==
    ASSUME StoreTypes, ExportTypes, WorkerInv, RunInv, VisitInv, ClaimInv, RefInv, [Next]_vars
    PROVE  ClaimInv'
<1>. SUFFICES ASSUME OneProcess', NEW t \in Thread, worker'[t].pc \in Busy, NEW m \in File
              PROVE  /\ worker'[t].entry[m] \in Unit => owners'[m] = worker'[t].entry[m]
                     /\ owners'[m] = worker'[t].unit => worker'[t].entry[m] = Inline
  BY DEF ClaimInv
<1>0. OneProcess /\ ~Resume
  <2>1. ~Resume
    BY DEF Resume, RunInv, Busy
  <2>. QED  BY <2>1, OneProcessStays
<1>1. CASE BeginUnit(t) /\ worker'[t] # worker[t]
  <2>1. worker[t].pc = "visit"
    BY <1>1 DEF BeginUnit, NextUnit, At
  <2>2. PICK u \in Unit \ visited : worker'[t].unit = u /\ worker'[t].entry = NoOwners
    BY <1>1, <2>1, BusyWorker DEF Busy
  <2>3. owners' = owners
    BY <1>1 DEF BeginUnit
  <2>4. owners[m] # u
    BY <1>0 DEF RefInv, AgeInv
  <2>5. worker'[t].entry[m] = Nobody
    BY <2>2, Markers
  <2>. QED  BY <2>2, <2>3, <2>4, <2>5, MarkerAssumption
<1>2. CASE Claim(t)
  <2>1. /\ worker[t].pc = "claim" /\ worker[t].unit \in Unit /\ worker'[t].unit = worker[t].unit
    BY <1>2, ClaimIs
  <2>2. PICK f \in worker[t].modules :
                 /\ f \in File
                 /\ \A g \in File \ {f} : worker'[t].entry[g] = worker[t].entry[g] /\ owners'[g] = owners[g]
                 /\ owners[f] = Nobody => owners'[f] = worker[t].unit /\ worker'[t].entry[f] = Inline
                 /\ owners[f] # Nobody => owners'[f] = owners[f] /\ worker'[t].entry[f] = owners[f]
    BY <1>2, ClaimIs
  <2>3. CASE m # f
    BY <1>0, <2>1, <2>2, <2>3 DEF ClaimInv, Busy
  <2>4. CASE m = f /\ owners[f] = Nobody
    BY <2>2, <2>4, MarkerAssumption
  <2>5. CASE m = f /\ owners[f] # Nobody
    <3>1. worker[t].entry[f] = Nobody
      BY <2>1, <2>2 DEF VisitInv, JobOf, Awaited, Busy
    <3>2. owners[f] # worker[t].unit
      BY <1>0, <2>1, <2>2, <3>1, Markers DEF ClaimInv, Busy
    <3>. QED  BY <2>1, <2>2, <2>5, <3>2
  <2>. QED  BY <2>3, <2>4, <2>5
<1>3. CASE worker'[t].entry = worker[t].entry /\ worker'[t].unit = worker[t].unit /\ worker[t].pc \in Busy
           /\ ~Claim(t)
  <2>1. /\ worker[t].entry[m] \in Unit => owners[m] = worker[t].entry[m]
        /\ owners[m] = worker[t].unit => worker[t].entry[m] = Inline
    BY <1>0, <1>3 DEF ClaimInv
  <2>2. CASE owners'[m] = owners[m]
    BY <1>3, <2>1, <2>2
  <2>3. CASE owners'[m] # owners[m]
    <3>1. PICK v \in Thread : Claim(v)
      BY <1>0, <2>3, OwnersMove
    <3>2. v # t /\ worker[v].pc \in Busy /\ worker[v].unit \in Unit
      BY <1>3, <3>1, ClaimIs DEF Busy
    <3>3. owners[m] = Nobody /\ owners'[m] = worker[v].unit
      BY <2>3, <3>1, ClaimIs
    <3>4. worker[v].unit # worker[t].unit
      BY <1>3, <3>2 DEF VisitInv
    <3>. QED  BY <1>3, <2>1, <3>3, <3>4, MarkerAssumption
  <2>. QED  BY <2>2, <2>3
<1>. QED  BY <1>1, <1>2, <1>3, BusyWorker

\* Every step leaves a reference with an owner to lead to.
LEMMA RefStep ==
    ASSUME StoreTypes, ExportTypes, WorkerInv, RunInv, VisitInv, ClaimInv, RefInv, [Next]_vars
    PROVE  RefInv'
<1>. SUFFICES ASSUME OneProcess' PROVE \E age \in [Unit -> 0..MaxRuns] : AgeInv(age)'
  BY DEF RefInv
<1>0. OneProcess /\ runs \in 1..MaxRuns /\ MaxRuns \in Nat
  BY OneProcessStays, ProjectExportAssumption DEF ExportTypes
<1>1. PICK age \in [Unit -> 0..MaxRuns] : AgeInv(age)
  BY <1>0 DEF RefInv
<1>2. CASE Resume
  <2>1. /\ target' = target /\ \A m \in File : owners'[m] = Nobody
        /\ runs' = runs + 1
    BY <1>2, OneProcessStays DEF Resume
  <2>2. ASSUME NEW u \in Unit, Whole(u)' PROVE age[u] \in 1..runs' /\ age[u] # runs'
    <3>1. age[u] \in 1..runs
      BY <1>1, <2>1, <2>2 DEF AgeInv, Whole
    <3>. QED  BY <1>0, <2>1, <3>1
  <2>3. \A m \in File : \A v \in Unit : owners'[m] # v
    BY <2>1, MarkerAssumption
  <2>4. ASSUME NEW u \in Unit, NEW m \in File, NEW v \in Unit, Whole(u)', target'[u].entry[m] = v
        PROVE  /\ m \in NeededBy(v) /\ age[u] # runs'
               /\ Whole(v)' => age[u] < age[v] \/ target'[v].entry[m] = Inline
    BY <1>1, <2>1, <2>2, <2>4 DEF AgeInv, Whole
  <2>. QED  BY <2>2, <2>3, <2>4 DEF AgeInv
<1>3. ASSUME ~Resume PROVE runs' = runs /\ visited \subseteq visited'
  <2>1. runs' = runs
    BY <1>3, OneProcessStays
  <2>2. ASSUME NEW v \in Thread,
               TakeJob(v) \/ PackageFails(v) \/ LowerFails(v) \/ KeepUnit(v) \/ BeginUnit(v) \/ GroupEnds(v)
        PROVE  visited \subseteq visited'
    BY <2>2 DEF TakeJob, PackageFails, LowerFails, KeepUnit, BeginUnit, GroupEnds, NextUnit
  <2>3. ASSUME NEW v \in Thread,
               ResolveStored(v) \/ ResolveImport(v) \/ Import(v) \/ Imported(v) \/ Claim(v) \/ EmbedFails(v)
        PROVE  visited \subseteq visited'
    BY <2>3 DEF ResolveStored, ResolveImport, Import, exportVars, Imported, Claim, EmbedFails
  <2>4. ASSUME NEW v \in Thread, Create(v) \/ Stream(v) \/ Finish(v) \/ WriteFails(v)
        PROVE  visited \subseteq visited'
    BY <2>4 DEF Create, Stream, Finish, WriteFails
  <2>5. ASSUME Return \/ Crash \/ UNCHANGED vars PROVE visited \subseteq visited'
    BY <2>5 DEF Return, Crash, vars, exportVars
  <2>. QED  BY <1>3, <2>1, <2>2, <2>3, <2>4, <2>5 DEF Next
<1>4. CASE ~Resume /\ target' = target /\ \E t \in Thread : Claim(t)
  <2>1. PICK t \in Thread : Claim(t)
    BY <1>4
  <2>2. /\ worker[t].pc = "claim" /\ worker[t].unit \in Unit
    BY <2>1, ClaimIs
  <2>3. PICK f \in worker[t].modules :
                 /\ f \in File /\ \A g \in File \ {f} : owners'[g] = owners[g]
                 /\ owners[f] = Nobody => owners'[f] = worker[t].unit
                 /\ owners[f] # Nobody => owners'[f] = owners[f]
    BY <2>1, ClaimIs
  <2>4. worker[t].unit \in visited /\ ~Whole(worker[t].unit) /\ f \in NeededBy(worker[t].unit)
    BY <2>2, <2>3 DEF VisitInv, JobOf, Busy
  <2>5. ASSUME NEW m \in File, NEW v \in Unit, owners'[m] = v
        PROVE  /\ v \in visited' /\ m \in NeededBy(v)
               /\ Whole(v) => age[v] = runs /\ target[v].entry[m] = Inline
    <3>1. CASE owners'[m] = owners[m]
      BY <1>1, <1>3, <1>4, <2>5, <3>1 DEF AgeInv
    <3>2. CASE owners'[m] # owners[m]
      <4>1. m = f /\ v = worker[t].unit
        BY <2>3, <2>5, <3>2
      <4>. QED  BY <1>3, <1>4, <2>4, <4>1
    <3>. QED  BY <3>1, <3>2
  <2>6. ASSUME NEW m \in File, NEW v \in Unit, owners[m] = v PROVE owners'[m] = v
    BY <2>3, <2>6, MarkerAssumption
  <2>. QED  BY <1>1, <1>3, <1>4, <2>5, <2>6 DEF AgeInv, Whole
<1>5. CASE ~Resume /\ target' = target /\ owners' = owners
  BY <1>1, <1>3, <1>5 DEF AgeInv, Whole
<1>6. CASE \E t \in Thread : Create(t) \/ Stream(t) \/ Finish(t)
  <2>1. PICK t \in Thread : Create(t) \/ Stream(t) \/ Finish(t)
    BY <1>6
  <2>2. PICK u \in Unit : u = worker[t].unit
    BY <2>1, TargetTypes
  <2>3. owners' = owners /\ visited' = visited /\ runs' = runs /\ worker[t].pc \in Busy
    BY <2>1 DEF Create, Stream, Finish, At, Busy
  <2>4. ~Whole(u) /\ u \in visited
    BY <2>2, <2>3 DEF VisitInv
  <2>5. \A v \in Unit \ {u} : target'[v] = target[v]
    BY <2>1, <2>2, TargetTypes
  <2>6. CASE Create(t) \/ Stream(t)
    <3>1. ~Whole(u)'
      BY <2>2, <2>6, TargetTypes DEF Whole
    <3>2. \A v \in Unit : Whole(v)' => Whole(v) /\ target'[v] = target[v]
      BY <2>5, <3>1 DEF Whole
    <3>. QED  BY <1>1, <2>3, <3>2 DEF AgeInv
  <2>7. CASE Finish(t)
    <3>1. target'[u].entry = worker[t].entry
      BY <2>2, <2>7, TargetTypes
    <3>2. ASSUME NEW m \in File
          PROVE  /\ worker[t].entry[m] \in Unit => owners[m] = worker[t].entry[m]
                 /\ owners[m] = u => worker[t].entry[m] = Inline
      BY <1>0, <2>2, <2>3 DEF ClaimInv
    <3>3. PICK next \in [Unit -> 0..MaxRuns] : next[u] = runs /\ \A v \in Unit \ {u} : next[v] = age[v]
      <4>1. [age EXCEPT ![u] = runs] \in [Unit -> 0..MaxRuns]
        BY <1>0
      <4>2. [age EXCEPT ![u] = runs][u] = runs /\ \A v \in Unit \ {u} : [age EXCEPT ![u] = runs][v] = age[v]
        OBVIOUS
      <4>. QED  BY <4>1, <4>2
    <3>4. \A v \in Unit \ {u} : Whole(v)' <=> Whole(v)
      BY <2>5 DEF Whole
    <3>5. ASSUME NEW v \in Unit, Whole(v)' PROVE next[v] \in 1..runs
      <4>1. v # u => Whole(v)
        BY <3>4, <3>5
      <4>. QED  BY <1>0, <1>1, <3>3, <4>1 DEF AgeInv
    <3>6. ASSUME NEW m \in File, NEW v \in Unit, owners[m] = v
          PROVE  /\ v \in visited /\ m \in NeededBy(v)
                 /\ Whole(v)' => next[v] = runs /\ target'[v].entry[m] = Inline
      <4>1. CASE v = u
        BY <1>1, <3>1, <3>2, <3>3, <3>6, <4>1 DEF AgeInv
      <4>2. CASE v # u
        BY <1>1, <2>5, <3>3, <3>4, <3>6, <4>2 DEF AgeInv
      <4>. QED  BY <4>1, <4>2
    <3>7. ASSUME NEW w \in Unit, NEW m \in File, NEW v \in Unit, Whole(w)', target'[w].entry[m] = v
          PROVE  /\ m \in NeededBy(v)
                 /\ next[w] = runs => owners[m] = v
                 /\ Whole(v)' => next[w] < next[v] \/ target'[v].entry[m] = Inline
      <4>1. CASE w = u
        <5>1. owners[m] = v
          BY <3>1, <3>2, <3>7, <4>1
        <5>. QED  BY <3>6, <5>1
      <4>2. CASE w # u
        <5>1. Whole(w) /\ target[w].entry[m] = v /\ next[w] = age[w]
          BY <2>5, <3>3, <3>4, <3>7, <4>2
        <5>2. /\ m \in NeededBy(v) /\ (age[w] = runs => owners[m] = v)
              /\ Whole(v) => age[w] < age[v] \/ target[v].entry[m] = Inline
          BY <1>1, <5>1 DEF AgeInv
        <5>3. CASE v # u
          BY <2>5, <3>3, <3>4, <5>1, <5>2, <5>3
        <5>4. CASE v = u
          <6>1. CASE age[w] = runs
            <7>1. target'[v].entry[m] = Inline \/ ~Whole(v)'
              BY <3>6, <5>2, <6>1
            <7>. QED  BY <5>1, <5>2, <7>1
          <6>2. CASE age[w] # runs
            <7>1. age[w] \in 1..runs
              BY <1>1, <5>1 DEF AgeInv
            <7>2. age[w] < next[v]
              BY <1>0, <3>3, <5>4, <6>2, <7>1
            <7>. QED  BY <5>1, <5>2, <6>2, <7>2
          <6>. QED  BY <6>1, <6>2
        <5>. QED  BY <5>3, <5>4
      <4>. QED  BY <4>1, <4>2
    <3>8. AgeInv(next)'
      BY <2>3, <3>5, <3>6, <3>7 DEF AgeInv
    <3>. QED  BY <3>3, <3>8
  <2>. QED  BY <2>1, <2>6, <2>7
<1>7. (\E t \in Thread : Claim(t)) => target' = target
  BY DEF Claim
<1>. QED  BY <1>2, <1>4, <1>5, <1>6, <1>7, ExportEffects

\* After a verdict the export can only be started again.
LEMMA AfterVerdict ==
    ASSUME [Next]_vars, verdict # "running"
    PROVE  Resume \/ UNCHANGED vars
<1>1. ASSUME NEW t \in Thread, Alone(t) PROVE FALSE
  BY <1>1, AloneRests
<1>2. ASSUME NEW t \in Thread, ResolveImport(t) \/ Import(t) PROVE FALSE
  BY <1>2 DEF ResolveImport, Import, At
<1>3. ~Return /\ ~Crash
  BY DEF Return, Crash
<1>. QED  BY <1>1, <1>2, <1>3 DEF Next, Alone

\* A worker stays with its directory until all of it is visited or the package fails.
LEMMA GroupStays ==
    ASSUME ExportTypes, [Next]_vars, ~Crash, NEW t \in Thread, worker[t].pc # "job"
    PROVE  \/ PackageFails(t) \/ GroupEnds(t)
           \/ worker'[t].pc # "job" /\ worker'[t].group = worker[t].group
<1>0. worker \in [Thread -> Jobs] /\ worker[t] \in Jobs
  BY DEF ExportTypes
<1>1. ASSUME NEW v \in Thread, TakeJob(v) PROVE worker'[t] = worker[t]
  BY <1>0, <1>1 DEF TakeJob, At
<1>2. ASSUME NEW v \in Thread, v # t, PackageFails(v) \/ GroupEnds(v) PROVE worker'[t] = worker[t]
  BY <1>0, <1>2 DEF PackageFails, GroupEnds
<1>3. ASSUME NEW v \in Thread, LowerFails(v) \/ KeepUnit(v) \/ Import(v) PROVE worker'[t] = worker[t]
  BY <1>3 DEF LowerFails, KeepUnit, Import, exportVars
<1>4. ASSUME NEW v \in Thread, EmbedFails(v) \/ Finish(v) \/ WriteFails(v)
      PROVE  worker'[t].pc # "job" /\ worker'[t].group = worker[t].group
  <2>1. worker' = [worker EXCEPT ![v] = Job("visit", worker[v].group)]
    BY <1>4 DEF EmbedFails, Finish, WriteFails, NextFile
  <2>2. Job("visit", worker[v].group).pc = "visit" /\ Job("visit", worker[v].group).group = worker[v].group
    BY DEF Job
  <2>. QED  BY <1>0, <2>1, <2>2
<1>5. ASSUME NEW v \in Thread, BeginUnit(v) \/ ResolveStored(v) \/ ResolveImport(v)
      PROVE  worker'[t].pc # "job" /\ worker'[t].group = worker[t].group
  <2>1. CASE BeginUnit(v)
    BY <1>0, <2>1 DEF BeginUnit, Jobs
  <2>2. CASE ResolveStored(v)
    BY <1>0, <2>2 DEF ResolveStored, Jobs
  <2>3. CASE ResolveImport(v)
    BY <1>0, <2>3 DEF ResolveImport, Jobs
  <2>. QED  BY <1>5, <2>1, <2>2, <2>3
<1>6. ASSUME NEW v \in Thread, Imported(v) PROVE worker'[t].pc # "job" /\ worker'[t].group = worker[t].group
  <2>1. CASE answer[v] = "ok" /\ Readable(worker[v].pkg) # {}
    BY <1>0, <1>6, <2>1 DEF Imported, Jobs
  <2>2. CASE ~(answer[v] = "ok" /\ Readable(worker[v].pkg) # {})
    BY <1>0, <1>6, <2>2 DEF Imported, Jobs
  <2>. QED  BY <2>1, <2>2
<1>7. ASSUME NEW v \in Thread, Claim(v) PROVE worker'[t].pc # "job" /\ worker'[t].group = worker[t].group
  <2>1. PICK m \in worker[v].modules :
            worker' = [worker EXCEPT ![v].modules = @ \ {m},
                                     ![v].pc = IF worker[v].modules = {m} THEN "resolve" ELSE "claim",
                                     ![v].entry[m] = IF Free(m) THEN Inline ELSE owners[m]]
    BY <1>7 DEF Claim
  <2>. DEFINE pc == IF worker[v].modules = {m} THEN "resolve" ELSE "claim"
              e == [worker[v].entry EXCEPT ![m] = IF Free(m) THEN Inline ELSE owners[m]]
              j == [worker[v] EXCEPT !.modules = @ \ {m}, !.pc = pc, !.entry = e]
  <2>2. worker' = [worker EXCEPT ![v] = j]
    BY <1>0, <2>1 DEF Jobs
  <2>3. pc # "job"
    OBVIOUS
  <2>. HIDE DEF pc, e
  <2>4. j.pc # "job" /\ j.group = worker[v].group
    BY <1>0, <2>3 DEF Jobs
  <2>. HIDE DEF j
  <2>. QED  BY <1>0, <2>2, <2>4
<1>8. ASSUME NEW v \in Thread, Create(v) \/ Stream(v)
      PROVE  worker'[t].pc # "job" /\ worker'[t].group = worker[t].group
  BY <1>0, <1>8 DEF Create, Stream, Go, Jobs
<1>9. ASSUME Return \/ Resume \/ UNCHANGED vars PROVE worker'[t] = worker[t]
  BY <1>9 DEF Return, Resume, vars, exportVars
<1>10. ASSUME NEW v \in Thread, Alone(v) \/ ResolveImport(v) \/ Import(v)
       PROVE  \/ PackageFails(t) \/ GroupEnds(t)
              \/ worker'[t].pc # "job" /\ worker'[t].group = worker[t].group
  <2>1. CASE v = t /\ (PackageFails(v) \/ GroupEnds(v))
    BY <2>1
  <2>2. CASE ~(v = t /\ (PackageFails(v) \/ GroupEnds(v)))
    <3>1. CASE worker'[t] = worker[t]
      BY <3>1
    <3>2. CASE worker'[t] # worker[t]
      BY <1>1, <1>2, <1>3, <1>4, <1>5, <1>6, <1>7, <1>8, <1>10, <2>2, <3>2 DEF Alone
    <3>. QED  BY <3>1, <3>2
  <2>. QED  BY <2>1, <2>2
<1>. QED  BY <1>9, <1>10, ExportSteps

\* A worker at a unit stays there, unless it finishes the unit or the export fails.
LEMMA BusyStays ==
    ASSUME StoreTypes, ExportTypes, WorkerInv, [Next]_vars, ~Crash, NEW t \in Thread, worker[t].pc \in Busy
    PROVE  \/ worker'[t].pc \in Busy /\ worker'[t].unit = worker[t].unit
           \/ Finish(t) \/ failed' = TRUE
<1>1. CASE Alone(t)
  <2>1. CASE TakeJob(t) \/ PackageFails(t) \/ LowerFails(t) \/ KeepUnit(t) \/ BeginUnit(t) \/ GroupEnds(t)
    BY <2>1 DEF TakeJob, PackageFails, LowerFails, KeepUnit, BeginUnit, GroupEnds, NextUnit, At, Busy
  <2>2. CASE EmbedFails(t) \/ WriteFails(t)
    BY <2>2 DEF EmbedFails, WriteFails, CountFailure
  <2>3. CASE ResolveStored(t)
    BY <2>3, StoredWorks DEF Works, Busy
  <2>4. CASE Imported(t)
    <3>1. worker[t].pkg \in Package
      BY <2>4 DEF Imported, At, WorkerInv, WorkerOf
    <3>. QED  BY <2>4, <3>1, ImportedWorks DEF Works, Busy
  <2>5. CASE Claim(t)
    BY <2>5, ClaimIs DEF Busy
  <2>6. CASE Create(t) \/ Stream(t)
    BY <2>6, GoWorks DEF Create, Stream, Works, Busy
  <2>. QED  BY <1>1, <2>1, <2>2, <2>3, <2>4, <2>5, <2>6 DEF Alone
<1>2. CASE ResolveImport(t)
  BY <1>2, ResolveImportWorks DEF Works, Busy
<1>3. ASSUME NEW v \in Thread, v # t, Alone(v) \/ ResolveImport(v) PROVE worker'[t] = worker[t]
  <2>1. CASE Alone(v)
    BY <1>3, <2>1, AloneWorks DEF Works
  <2>2. CASE ResolveImport(v)
    BY <1>3, <2>2, ResolveImportWorks DEF Works
  <2>. QED  BY <1>3, <2>1, <2>2
<1>4. ASSUME NEW v \in Thread, Import(v) PROVE worker'[t] = worker[t]
  BY <1>4 DEF Import, exportVars
<1>5. CASE Return \/ Resume \/ UNCHANGED vars
  BY <1>5 DEF Return, Resume, vars, exportVars
<1>. QED  BY <1>1, <1>2, <1>3, <1>4, <1>5, ExportSteps

\* What a step of the first run does to the units it has visited and the directories it
\* has sent.
LEMMA FirstRunMoves ==
    ASSUME StoreTypes, ExportTypes, WorkerInv, RunInv, [Next]_vars, ~Resume, ~Crash
    PROVE  /\ failed' = failed \/ failed' = TRUE
           /\ \/ visited' = visited
              \/ \E t \in Thread : LowerFails(t) /\ failed' = TRUE /\ visited \subseteq visited'
              \/ \E t \in Thread : \E u \in Unit \ visited :
                    visited' = visited \cup {u} /\ (Keep(u) \/ (worker'[t].pc \in Busy /\ worker'[t].unit = u))
           /\ \/ nextGroup' = nextGroup
              \/ \E t \in Thread : TakeJob(t)
<1>1. ASSUME NEW t \in Thread, TakeJob(t) PROVE UNCHANGED <<failed, visited>>
  BY <1>1 DEF TakeJob
<1>2. ASSUME NEW t \in Thread, LowerFails(t)
      PROVE  UNCHANGED nextGroup /\ failed' = TRUE /\ visited \subseteq visited'
  BY <1>2 DEF LowerFails, CountFailure, NextUnit
<1>3. ASSUME NEW t \in Thread, PackageFails(t) PROVE UNCHANGED <<nextGroup, visited>> /\ failed' = TRUE
  BY <1>3 DEF PackageFails, CountFailure
<1>4. ASSUME NEW t \in Thread, KeepUnit(t)
      PROVE  /\ UNCHANGED <<nextGroup, failed>>
             /\ \E u \in Unit \ visited : visited' = visited \cup {u} /\ Keep(u)
  BY <1>4 DEF KeepUnit, NextUnit
<1>5. ASSUME NEW t \in Thread, BeginUnit(t)
      PROVE  /\ UNCHANGED <<nextGroup, failed>>
             /\ \E u \in Unit \ visited : visited' = visited \cup {u} /\ worker'[t].pc \in Busy /\ worker'[t].unit = u
  <2>1. UNCHANGED <<nextGroup, failed>>
    BY <1>5 DEF BeginUnit
  <2>. QED  BY <1>5, <2>1, BeginWorks DEF Works, Busy
<1>6. ASSUME NEW t \in Thread, GroupEnds(t) \/ ResolveStored(t) \/ ResolveImport(t) \/ Import(t) \/ Imported(t)
      PROVE  UNCHANGED <<nextGroup, failed, visited>>
  BY <1>6 DEF GroupEnds, ResolveStored, ResolveImport, Import, exportVars, Imported
<1>7. ASSUME NEW t \in Thread, Claim(t) \/ Create(t) \/ Stream(t) \/ Finish(t)
      PROVE  UNCHANGED <<nextGroup, failed, visited>>
  BY <1>7 DEF Claim, Create, Stream, Finish
<1>8. ASSUME NEW t \in Thread, EmbedFails(t) \/ WriteFails(t)
      PROVE  UNCHANGED <<nextGroup, visited>> /\ failed' = TRUE
  BY <1>8 DEF EmbedFails, WriteFails, CountFailure
<1>9. CASE Return \/ UNCHANGED vars
  BY <1>9 DEF Return, vars, exportVars
<1>. QED  BY <1>1, <1>2, <1>3, <1>4, <1>5, <1>6, <1>7, <1>8, <1>9 DEF Next

\* Every step of the first run leaves no unit behind.
LEMMA FirstRunStep ==
    ASSUME StoreTypes, ExportTypes, WorkerInv, RunInv, VisitInv, FirstRunInv, [Next]_vars
    PROVE  FirstRunInv'
<1>. SUFFICES ASSUME runs' = 1, verdict' # "killed"
              PROVE  /\ \A u \in Unit \ visited' : target'[u].state = "absent"
                     /\ \/ failed'
                        \/ \A u \in visited' : \/ target'[u].state = "whole"
                                               \/ \E t \in Thread : worker'[t].pc \in Busy /\ worker'[t].unit = u
                     /\ \/ failed'
                        \/ \A u \in Unit \ visited' : GroupOf[u] < nextGroup' =>
                              \E t \in Thread : worker'[t].pc # "job" /\ worker'[t].group = GroupOf[u]
  BY DEF FirstRunInv, At1, Whole
<1>1. runs = 1 /\ verdict # "killed" /\ ~Resume /\ ~Crash
  <2>1. MaxRuns \in Nat /\ runs \in 1..MaxRuns /\ (runs' = runs \/ runs' = runs + 1)
    BY ExportEffects, ProjectExportAssumption DEF ExportTypes
  <2>2. ~Resume /\ ~Crash
    <3>1. Resume => runs' = runs + 1
      BY DEF Resume
    <3>2. ~Crash
      BY DEF Crash
    <3>. QED  BY <2>1, <3>1, <3>2
  <2>3. ASSUME verdict = "killed" PROVE FALSE
    BY <2>2, <2>3, AfterVerdict DEF vars, exportVars
  <2>. QED  BY <2>1, <2>2, <2>3
<1>2. /\ \A u \in Unit \ visited : target[u].state = "absent"
      /\ failed \/ \A u \in visited : Whole(u) \/ \E t \in Thread : worker[t].pc \in Busy /\ worker[t].unit = u
      /\ failed \/ \A u \in Unit \ visited : GroupOf[u] < nextGroup =>
                      \E t \in Thread : worker[t].pc # "job" /\ worker[t].group = GroupOf[u]
  BY <1>1 DEF FirstRunInv, At1
<1>3. visited \subseteq visited' /\ visited' \subseteq Unit
  BY <1>1, FirstRunMoves, ExportTypesStep DEF ExportTypes
<1>4. ASSUME NEW u \in Unit, target'[u] # target[u]
      PROVE  u \in visited /\ ~Whole(u) /\ \E t \in Thread : /\ Create(t) \/ Stream(t) \/ Finish(t)
                                                            /\ worker[t].unit = u /\ worker[t].pc \in Busy
  BY <1>4, TargetMoves DEF VisitInv
<1>5. \A u \in Unit \ visited' : target'[u].state = "absent"
  BY <1>2, <1>3, <1>4
<1>6. ASSUME ~failed', NEW u \in visited'
      PROVE  \/ target'[u].state = "whole"
             \/ \E t \in Thread : worker'[t].pc \in Busy /\ worker'[t].unit = u
  <2>0. ~failed
    BY <1>1, <1>6, FirstRunMoves
  <2>1. CASE u \in visited
    <3>1. CASE Whole(u)
      BY <1>3, <1>4, <3>1 DEF Whole
    <3>2. CASE ~Whole(u)
      <4>1. PICK t \in Thread : worker[t].pc \in Busy /\ worker[t].unit = u
        BY <1>2, <2>0, <2>1, <3>2
      <4>2. CASE Finish(t)
        <5>1. target' = [target EXCEPT ![worker[t].unit] =
                  [state |-> "whole", entry |-> worker[t].entry, external |-> worker[t].external]]
          BY <4>2 DEF Finish
        <5>. QED  BY <1>3, <4>1, <5>1 DEF ExportTypes
      <4>. QED  BY <1>1, <1>6, <4>1, <4>2, BusyStays
    <3>. QED  BY <3>1, <3>2
  <2>2. CASE u \notin visited
    <3>1. PICK v \in Unit \ visited, t \in Thread :
              /\ visited' = visited \cup {v}
              /\ Keep(v) \/ (worker'[t].pc \in Busy /\ worker'[t].unit = v)
      BY <1>1, <1>6, <2>2, FirstRunMoves
    <3>2. ~Keep(v)
      BY <1>2 DEF Keep
    <3>. QED  BY <2>2, <3>1, <3>2
  <2>. QED  BY <2>1, <2>2
<1>7. ASSUME ~failed', NEW u \in Unit \ visited', GroupOf[u] < nextGroup'
      PROVE  \E t \in Thread : worker'[t].pc # "job" /\ worker'[t].group = GroupOf[u]
  <2>0. ~failed /\ u \notin visited
    <3>1. ~failed
      BY <1>1, <1>7, FirstRunMoves
    <3>2. u \notin visited
      BY <1>3, <1>7
    <3>. QED  BY <3>1, <3>2
  <2>1. CASE GroupOf[u] < nextGroup
    <3>1. PICK t \in Thread : worker[t].pc # "job" /\ worker[t].group = GroupOf[u]
      BY <1>2, <2>0, <2>1
    <3>2. ~PackageFails(t)
      BY <1>7 DEF PackageFails, CountFailure
    <3>3. ~GroupEnds(t)
      BY <2>0, <3>1 DEF GroupEnds
    <3>. QED  BY <1>1, <3>1, <3>2, <3>3, GroupStays
  <2>2. CASE ~(GroupOf[u] < nextGroup)
    <3>1. PICK t \in Thread : TakeJob(t)
      BY <1>1, <1>7, <2>2, FirstRunMoves
    <3>2. nextGroup' = nextGroup + 1 /\ worker' = [worker EXCEPT ![t] = Job("visit", nextGroup)]
      BY <3>1 DEF TakeJob
    <3>3. GroupOf[u] \in Nat /\ nextGroup \in Nat
      BY ProjectExportAssumption DEF ExportTypes
    <3>4. GroupOf[u] = nextGroup
      BY <1>7, <2>2, <3>2, <3>3
    <3>5. worker'[t] = Job("visit", nextGroup)
      BY <3>2 DEF ExportTypes
    <3>6. worker'[t].pc = "visit" /\ worker'[t].group = nextGroup
      BY <3>5 DEF Job
    <3>. QED  BY <3>4, <3>6
  <2>. QED  BY <2>1, <2>2
<1>. QED  BY <1>5, <1>6, <1>7

\* An export that reports success counted no failure and sent every directory.
LEMMA OkStep ==
    ASSUME ExportTypes, OkInv, [Next]_vars
    PROVE  OkInv'
<1>1. nextGroup' >= 1
  <2>1. nextGroup' = nextGroup \/ nextGroup' = 1 \/ nextGroup' = nextGroup + 1
    BY ExportEffects
  <2>. QED  BY <2>1 DEF OkInv, ExportTypes
<1>2. ASSUME verdict' = "ok" PROVE ~failed' /\ ~JobsOpen'
  <2>1. CASE verdict # "running"
    <3>1. ~Resume
      BY <1>2 DEF Resume
    <3>. QED  BY <1>2, <2>1, <3>1, AfterVerdict DEF OkInv, vars, exportVars, JobsOpen
  <2>2. CASE verdict = "running"
    <3>1. ASSUME NEW t \in Thread, Alone(t) \/ ResolveImport(t) \/ Import(t) PROVE verdict' = verdict
      BY <3>1, AloneRests DEF ResolveImport, Import, exportVars
    <3>2. Return
      BY <1>2, <2>2, <3>1, ExportSteps DEF Crash, Resume, vars, exportVars
    <3>. QED  BY <1>2, <3>2 DEF Return, JobsOpen
  <2>. QED  BY <2>1, <2>2
<1>. QED  BY <1>1, <1>2 DEF OkInv

\* An export begins with nobody at a unit and no owner.
LEMMA LinkInit == Init => LinkInv
<1>. SUFFICES ASSUME Init PROVE LinkInv
  OBVIOUS
<1>1. \A t \in Thread : worker[t].pc = "job" /\ worker[t].pc \notin Busy
  BY DEF Init, Job, Busy
<1>2. \A u \in Unit : target[u].state = "absent" /\ ~Whole(u)
  BY Markers DEF Init, Whole
<1>3. \A m \in File : owners[m] = Nobody
  BY Markers DEF Init
<1>4. VisitInv /\ ClaimInv
  BY <1>1 DEF VisitInv, ClaimInv
<1>5. RefInv
  <2>1. [u \in Unit |-> 0] \in [Unit -> 0..MaxRuns]
    BY ProjectExportAssumption
  <2>2. AgeInv([u \in Unit |-> 0])
    BY <1>2, <1>3, MarkerAssumption DEF AgeInv
  <2>. QED  BY <2>1, <2>2 DEF RefInv
<1>6. FirstRunInv
  <2>1. \A u \in Unit : ~(GroupOf[u] < nextGroup)
    BY ProjectExportAssumption DEF Init
  <2>2. visited = {}
    BY DEF Init
  <2>. QED  BY <1>2, <2>1, <2>2 DEF FirstRunInv
<1>7. OkInv
  BY DEF Init, OkInv
<1>. QED  BY <1>4, <1>5, <1>6, <1>7 DEF LinkInv

\* What the linkers rest on, beside the invariant of the export.
THEOREM LinksAreInvariant == Spec => []LinkInv
<1>1. ExportInv /\ LinkInv /\ [Next]_vars => LinkInv'
  BY VisitStep, ClaimStep, RefStep, FirstRunStep, OkStep DEF LinkInv, ExportInv
<1>. QED  BY <1>1, LinkInit, ExportIsInvariant, PTL DEF Spec

-----------------------------------------------------------------------------
(* Where references lead *)

\* A first run that reports success has finished every unit.
LEMMA OkIsWhole ==
    ASSUME ExportInv, LinkInv, verdict = "ok", runs = 1, NEW u \in Unit
    PROVE  Whole(u)
<1>1. \A t \in Thread : worker[t].pc = "job" /\ worker[t].pc \notin Busy
  BY DEF ExportInv, RunInv, Busy
<1>2. ~failed /\ ~JobsOpen /\ nextGroup >= 1 /\ nextGroup \in Nat
  BY DEF LinkInv, OkInv, ExportInv, ExportTypes
<1>3. GroupOf[u] < nextGroup
  <2>1. SUFFICES ASSUME ~(GroupOf[u] < nextGroup) PROVE FALSE
    OBVIOUS
  <2>2. nextGroup \in 1..GroupOf[u]
    BY <1>2, <2>1, ProjectExportAssumption
  <2>3. PICK v \in Unit : GroupOf[v] = nextGroup
    BY <2>2, ProjectExportAssumption
  <2>. QED  BY <1>2, <2>3 DEF JobsOpen, Groups
<1>4. u \in visited
  BY <1>1, <1>2, <1>3 DEF LinkInv, FirstRunInv, At1
<1>. QED  BY <1>1, <1>2, <1>4 DEF LinkInv, FirstRunInv

\* Of the units of a set that name a module, one was finished last.
LEMMA LastUnit ==
    ASSUME NEW age \in [Unit -> 0..MaxRuns], NEW T \in SUBSET Unit, T # {}
    PROVE  \E v \in T : \A w \in T : ~(age[v] < age[w])
<1>. DEFINE size == [u \in Unit |-> MaxRuns - age[u]]
<1>0. MaxRuns \in Nat
  BY ProjectExportAssumption
<1>1. size \in [Unit -> Nat] /\ \A u \in Unit : size[u] = MaxRuns - age[u]
  BY <1>0
<1>. HIDE DEF size
<1>2. PICK v \in T : \A w \in T : size[v] <= size[w]
  BY <1>1, LeastMember
<1>3. ASSUME NEW w \in T PROVE ~(age[v] < age[w])
  <2>1. size[v] <= size[w] /\ size[v] = MaxRuns - age[v] /\ size[w] = MaxRuns - age[w]
    BY <1>1, <1>2
  <2>. QED  BY <1>0, <2>1
<1>. QED  BY <1>3

\* An entry carries its module, or leads to a unit that names it too, and carries it or
\* was finished in a later run.
Excused(m) == runs # 1 /\ \E p \in clashed \cup unavailable : m \in FilesOf[p]
Names(u, m) == m \in EntriesOf(u) /\ ~Excused(m)
LEMMA EntryLeads ==
    ASSUME ExportInv, \A u \in Unit : Whole(u), NEW age \in [Unit -> 0..MaxRuns], AgeInv(age),
           NEW u \in Unit, NEW m \in File, Names(u, m), target[u].entry[m] # Inline
    PROVE  \E v \in Unit : /\ target[u].entry[m] = v /\ Names(v, m)
                           /\ age[u] < age[v] \/ target[v].entry[m] = Inline
<1>1. target[u] \in Targets /\ target[u].entry[m] # Nobody
  BY DEF ExportInv, ExportTypes, Names, EntriesOf
<1>2. PICK v \in Unit : v = target[u].entry[m]
  BY <1>1 DEF Targets, Entries
<1>3. m \in NeededBy(v) /\ (age[u] < age[v] \/ target[v].entry[m] = Inline)
  BY <1>2 DEF AgeInv
<1>4. target[v].entry[m] # Nobody
  <2>1. CASE target[v].entry[m] = Inline
    BY <2>1, Markers
  <2>2. CASE runs = 1
    <3>1. age[u] = 1 /\ age[v] = 1
      BY <2>2 DEF AgeInv
    <3>. QED  BY <1>3, <3>1, Markers
  <2>3. CASE runs # 1
    <3>1. PICK p \in Needs[v] : m \in FilesOf[p]
      BY <1>3 DEF NeededBy
    <3>2. p \notin clashed \cup unavailable
      BY <2>3, <3>1 DEF Names, Excused
    <3>. QED  BY <3>1, <3>2 DEF ExportInv, EntryInv, Lost
  <2>. QED  BY <2>1, <2>2, <2>3
<1>. QED  BY <1>2, <1>3, <1>4 DEF Names, EntriesOf

\* Whatever units a project is compiled from, the unit that carries a module they name
\* becomes one of them.
LEMMA ProjectsHaveModules ==
    ASSUME ExportInv, \A u \in Unit : Whole(u), NEW age \in [Unit -> 0..MaxRuns], AgeInv(age),
           NEW S \in SUBSET Unit, NEW u \in S, NEW m \in File, Names(u, m)
    PROVE  m \in ProjectModules(S)
<1>. DEFINE P == ProjectUnits(S)
            T == {v \in P : Names(v, m)}
<1>1. S \subseteq P /\ P \subseteq Unit /\ \A v \in P : OwnersIn(v) \subseteq P
  BY ProjectUnitsClosed
<1>. HIDE DEF P
<1>2. PICK v \in T : \A w \in T : ~(age[v] < age[w])
  <2>1. T \in SUBSET Unit /\ T # {}
    BY <1>1
  <2>. HIDE DEF T
  <2>. QED  BY <2>1, LastUnit
<1>3. \E w \in P : target[w].entry[m] = Inline
  <2>1. CASE target[v].entry[m] = Inline
    BY <2>1
  <2>2. CASE target[v].entry[m] # Inline
    <3>1. PICK w \in Unit : /\ target[v].entry[m] = w /\ Names(w, m)
                            /\ age[v] < age[w] \/ target[w].entry[m] = Inline
      BY <1>1, <2>2, EntryLeads
    <3>2. w \in P
      BY <1>1, <3>1 DEF OwnersIn, Names
    <3>. QED  BY <1>2, <3>1, <3>2
  <2>. QED  BY <2>1, <2>2
<1>. QED  BY <1>1, <1>3 DEF ProjectModules, Carriers, P

\* The linker that merges a unit with its owners merges every module the unit names.
LEMMA LinkerMerges ==
    ASSUME ExportInv, \A u \in Unit : Whole(u), NEW age \in [Unit -> 0..MaxRuns], AgeInv(age),
           NEW u \in Unit
    PROVE  LinkEmbedded(u).ok /\ \A m \in File : Names(u, m) => m \in LinkEmbedded(u).merged
<1>. DEFINE r == LinkEmbedded(u)
<1>1. /\ r.ok /\ \A f \in EntriesOf(u) : EntryKey(u, f) \in r.seen
      /\ \A k \in r.seen : Settled(k, r)
  BY LinkEmbeddedClosed DEF ExportInv
<1>. HIDE DEF r
<1>2. ASSUME NEW m \in File, Names(u, m) PROVE m \in r.merged
  <2>. DEFINE T == {v \in Unit : Names(v, m) /\ EntryKey(v, m) \in r.seen}
  <2>1. PICK v \in T : \A w \in T : ~(age[v] < age[w])
    <3>1. T \in SUBSET Unit /\ T # {}
      BY <1>1, <1>2 DEF Names
    <3>. HIDE DEF T
    <3>. QED  BY <3>1, LastUnit
  <2>2. ASSUME NEW w \in T, target[w].entry[m] = Inline PROVE m \in r.merged
    <3>1. EntryKey(w, m) = <<m, w, 0>> /\ EntryKey(w, m) \in r.seen
      BY <2>2 DEF EntryKey
    <3>2. Settled(<<m, w, 0>>, r)
      BY <1>1, <3>1
    <3>. QED  BY <3>2 DEF Settled
  <2>3. CASE target[v].entry[m] # Inline
    <3>1. PICK w \in Unit : /\ target[v].entry[m] = w /\ Names(w, m)
                            /\ age[v] < age[w] \/ target[w].entry[m] = Inline
      BY <2>3, EntryLeads
    <3>2. EntryKey(v, m) = <<m, w, GroupOf[v]>> /\ EntryKey(v, m) \in r.seen
      BY <2>3, <3>1 DEF EntryKey
    <3>3. GroupOf[v] # 0
      BY ProjectExportAssumption
    <3>4. Settled(<<m, w, GroupOf[v]>>, r)
      BY <1>1, <3>2
    <3>5. \A f \in EntriesOf(w) : EntryKey(w, f) \in r.seen
      BY <3>3, <3>4 DEF Settled
    <3>6. w \in T
      BY <3>1, <3>5 DEF Names
    <3>. QED  BY <2>1, <2>2, <3>1, <3>6
  <2>. QED  BY <2>2, <2>3
<1>. QED  BY <1>1, <1>2 DEF r

\* An export that reports success links: every selection of its units becomes a project
\* that has every module its units name, and so does every unit merged alone.
THEOREM ModulesLink == Spec => []EveryModuleLinks
<1>1. ExportInv /\ LinkInv => EveryModuleLinks
  <2>. DEFINE lost == IF runs = 1 THEN {} ELSE UNION {FilesOf[p] : p \in clashed \cup unavailable}
  <2>. SUFFICES ASSUME ExportInv, LinkInv, verdict = "ok",
                       runs = 1 \/ (~persisted /\ \A u \in Unit : Whole(u))
                PROVE  /\ \A S \in (SUBSET Unit) \ {{}} :
                             Expands(S) /\ \A u \in S : EntriesOf(u) \ lost \subseteq ProjectModules(S)
                       /\ \A u \in Unit : LinkEmbedded(u).ok /\ EntriesOf(u) \ lost \subseteq LinkEmbedded(u).merged
    BY DEF EveryModuleLinks
  <2>1. \A u \in Unit : Whole(u)
    BY OkIsWhole
  <2>2. PICK age \in [Unit -> 0..MaxRuns] : AgeInv(age)
    BY DEF LinkInv, RefInv, OneProcess
  <2>3. ASSUME NEW u \in Unit, NEW m \in EntriesOf(u) \ lost PROVE m \in File /\ Names(u, m)
    BY DEF Names, Excused, EntriesOf
  <2>. HIDE DEF lost
  <2>4. ASSUME NEW S \in (SUBSET Unit) \ {{}} PROVE Expands(S)
    BY <2>1, ProjectUnitsClosed DEF Expands
  <2>5. ASSUME NEW S \in (SUBSET Unit) \ {{}}, NEW u \in S, NEW m \in EntriesOf(u) \ lost
        PROVE  m \in ProjectModules(S)
    BY <2>1, <2>2, <2>3, ProjectsHaveModules
  <2>6. ASSUME NEW u \in Unit, NEW m \in EntriesOf(u) \ lost PROVE m \in LinkEmbedded(u).merged
    BY <2>1, <2>2, <2>3, LinkerMerges
  <2>7. \A u \in Unit : LinkEmbedded(u).ok
    BY <2>1, <2>2, LinkerMerges
  <2>. QED  BY <2>4, <2>5, <2>6, <2>7
<1>. QED  BY <1>1, ExportIsInvariant, LinksAreInvariant, PTL
=============================================================================
