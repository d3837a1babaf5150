------------------------------ MODULE ModuleStore ------------------------------
(****************************************************************************)
(* The durable module store (internal/backend/semantic_module.go) under the *)
(* imports that fill it (semantic_module_resolver.go): importDirectory,     *)
(* ImportTarget of a file, Put and RemoveModule, run by the goroutines of   *)
(* several processes on one store root, while the source is edited,         *)
(* processes die and the file system refuses a call.  The store has no lock: what protects it is the name of   *)
(* the temporary directory and the order of the steps of Put.               *)
(*                                                                          *)
(* One source directory is imported.  A version stands for its contents, a  *)
(* module is keyed by the version its SourceHash was computed from and the  *)
(* version its program was lowered from.                                    *)
(****************************************************************************)
EXTENDS Integers, Sequences, FiniteSets

CONSTANTS
    Thread,      \* goroutines that use the store
    Process,     \* operating system processes, one pid each
    Version,     \* contents the imported source can have
    MaxWrites,   \* bound on calls that put or remove
    MaxEdits,    \* bound on edits of the source
    MaxCrashes   \* bound on processes that die

ASSUME ModuleStoreAssumption ==
    /\ Thread # {} /\ Process # {} /\ Version # {}
    /\ MaxWrites \in Nat /\ MaxEdits \in Nat /\ MaxCrashes \in Nat

Key == [hash : Version, prog : Version]

\* module.se, module.spz and module.meta, in the order Put writes them.
WriteOrderNoMeta == <<"se", "spz">>                                 \* mutant
WriteOrder       == <<"se", "spz", "meta">>
File == {"se", "spz", "meta"}

Missing == {"no such directory"}

VARIABLES
    process,     \* the process each goroutine runs in
    source,      \* contents of the source directory
    dir,         \* modules/<key>: the files in it, or Missing
    tmp,         \* modules/<key>.tmp-<pid>: the files in it, or Missing
    at,          \* [pc, key, written] of each goroutine
    writes, edits, crashes,
    \* history
    stored,      \* keys whose last finished operation is a successful Put
    collided,    \* keys two goroutines of one process were putting at once
    torn,        \* keys whose replacing or removing broke off, by a death or an error,
                 \* until the next call for them that succeeds
    raced,       \* the source was edited between lowering and hashing it
    stale        \* an import was answered from the store with old contents

vars == <<process, source, dir, tmp, at, writes, edits, crashes, stored, collided, torn, raced, stale>>
history == <<stored, collided, torn, raced, stale>>

Put_pc    == {"clear", "write", "publish", "replace", "rename"}
NoKey     == [hash |-> "none", prog |-> "none"]
Idle      == [pc |-> "idle", key |-> NoKey, written |-> 0]
Putting(t, k)   == at[t].pc \in Put_pc /\ at[t].key = k
Emptying(t, k)  == at[t].pc \in {"replace", "rename", "remove"} /\ at[t].key = k

Init ==
    /\ process \in [Thread -> Process]
    /\ source \in Version
    /\ dir = [k \in Key |-> Missing]
    /\ tmp = [x \in Process \X Key |-> Missing]
    /\ at = [t \in Thread |-> Idle]
    /\ writes = 0 /\ edits = 0 /\ crashes = 0
    /\ stored = {} /\ collided = {} /\ torn = {}
    /\ raced = FALSE /\ stale = FALSE

-----------------------------------------------------------------------------
(* Import *)

\* One more call that may write (bounded by MaxWrites).
Begin(t) == at[t].pc = "idle" /\ writes < MaxWrites /\ writes' = writes + 1

\* Goroutine t enters Put(k): the first step is RemoveAll of its temporary name.
EnterPut(t, k) ==
    /\ at' = [at EXCEPT ![t] = [pc |-> "clear", key |-> k, written |-> 0]]
    /\ collided' = IF \E u \in Thread \ {t} : process[u] = process[t] /\ Putting(u, k)
                   THEN collided \cup {k} ELSE collided

\* openDirectoryCache: a module whose SourceHash is that of the present contents
\* and whose payload opens.
MatchesAny(k) == {"spz", "meta"} \subseteq dir[k]                    \* mutant
Matches(k)    == k.hash = source /\ {"spz", "meta"} \subseteq dir[k]

ImportHit(t) ==
    /\ at[t].pc = "idle"
    /\ \E k \in Key :
          /\ Matches(k)
          /\ stale' = (stale \/ k.prog # source)
    /\ UNCHANGED <<process, source, dir, tmp, at, writes, edits, crashes, stored, collided, torn, raced>>

\* A miss, or a payload above 16 MiB, which the lookup ignores: every unit is
\* lowered from what is read now ...
ImportMiss(t) ==
    /\ Begin(t)
    /\ at' = [at EXCEPT ![t] = [pc |-> "lowered", key |-> [hash |-> source, prog |-> source], written |-> 0]]
    /\ UNCHANGED <<process, source, dir, tmp, edits, crashes, history>>

\* ... and the files are read again for SourceHash.
ImportHash(t) ==
    /\ at[t].pc = "lowered"
    /\ EnterPut(t, [at[t].key EXCEPT !.hash = source])
    /\ UNCHANGED <<process, source, dir, tmp, writes, edits, crashes, stored, torn, raced, stale>>

\* ImportTarget of a file reads it once, looks nothing up and always puts.
ImportFile(t) ==
    /\ Begin(t)
    /\ EnterPut(t, [hash |-> source, prog |-> source])
    /\ UNCHANGED <<process, source, dir, tmp, edits, crashes, stored, torn, raced, stale>>

-----------------------------------------------------------------------------
(* Put *)

TmpOfNobody(t) == <<CHOOSE p \in Process : TRUE, at[t].key>>         \* mutant
TmpOf(t)       == <<process[t], at[t].key>>
Step(t, pc)    == at' = [at EXCEPT ![t].pc = pc]
Return(t)      == at' = [at EXCEPT ![t] = Idle]

ClearTmp(t) ==
    /\ at[t].pc = "clear"
    /\ tmp' = [tmp EXCEPT ![TmpOf(t)] = {}]
    /\ Step(t, "write")
    /\ UNCHANGED <<process, source, dir, writes, edits, crashes, history>>

\* os.WriteFile fails when the temporary directory has gone.
ErrorIgnored(t) == FALSE                                             \* mutant
TmpGone(t)      == tmp[TmpOf(t)] = Missing

WriteFile(t) ==
    /\ at[t].pc = "write"
    /\ IF TmpGone(t)
       THEN Return(t) /\ UNCHANGED tmp
       ELSE LET n == at[t].written + 1 IN
            /\ tmp' = [tmp EXCEPT ![TmpOf(t)] = @ \cup {WriteOrder[n]}]
            /\ at' = [at EXCEPT ![t].written = n,
                                ![t].pc = IF n = Len(WriteOrder) THEN "publish" ELSE "write"]
    /\ UNCHANGED <<process, source, dir, writes, edits, crashes, history>>

\* os.Stat(dir) decides whether there is something to remove first.
Publish(t) ==
    /\ at[t].pc = "publish"
    /\ Step(t, IF dir[at[t].key] = Missing THEN "rename" ELSE "replace")
    /\ UNCHANGED <<process, source, dir, tmp, writes, edits, crashes, history>>

\* os.RemoveAll takes the files one by one, in the order of the listing.
RemoveSome(t) ==
    LET k == at[t].key IN
    /\ at[t].pc \in {"replace", "remove"}
    /\ dir[k] \notin {Missing, {}}
    /\ \E f \in dir[k] : dir' = [dir EXCEPT ![k] = @ \ {f}]
    /\ UNCHANGED <<process, source, tmp, at, writes, edits, crashes, history>>

RemoveDone(t) ==
    LET k == at[t].key IN
    /\ at[t].pc \in {"replace", "remove"}
    /\ dir[k] \in {Missing, {}}
    /\ dir' = [dir EXCEPT ![k] = Missing]
    /\ IF at[t].pc = "replace"
       THEN Step(t, "rename") /\ UNCHANGED <<stored, torn>>
       ELSE Return(t) /\ stored' = stored \ {k} /\ torn' = torn \ {k}
    /\ UNCHANGED <<process, source, tmp, writes, edits, crashes, collided, raced, stale>>

\* A file that cannot be removed, one held open on Windows say, leaves what is not
\* removed yet: Put drops the error and goes on, RemoveModule returns it.
RemoveFails(t) ==
    LET k == at[t].key IN
    /\ at[t].pc \in {"replace", "remove"}
    /\ dir[k] # Missing
    /\ torn' = torn \cup {k}
    /\ IF at[t].pc = "replace" THEN Step(t, "rename") ELSE Return(t)
    /\ UNCHANGED <<process, source, dir, tmp, writes, edits, crashes, stored, collided, raced, stale>>

\* os.Rename fails without a source, and onto a directory that is not empty.
CanRenameTo(k) == dir[k] \in {Missing, {}}

Rename(t) ==
    LET k == at[t].key IN
    /\ at[t].pc = "rename"
    /\ IF ~TmpGone(t) /\ CanRenameTo(k)
       THEN /\ dir' = [dir EXCEPT ![k] = tmp[TmpOf(t)]]
            /\ tmp' = [tmp EXCEPT ![TmpOf(t)] = Missing]
            /\ stored' = stored \cup {k}
            /\ torn' = torn \ {k}
       ELSE UNCHANGED <<dir, tmp, stored, torn>>
    /\ Return(t)
    /\ UNCHANGED <<process, source, writes, edits, crashes, collided, raced, stale>>

\* MkdirAll, os.WriteFile or os.Rename fails of itself: Put returns the error and
\* clears nothing away; at the rename it has already emptied the name.
PutFails(t) ==
    /\ at[t].pc \in {"clear", "write", "rename"}
    /\ Return(t)
    /\ torn' = IF at[t].pc = "rename" THEN torn \cup {at[t].key} ELSE torn
    /\ UNCHANGED <<process, source, dir, tmp, writes, edits, crashes, stored, collided, raced, stale>>

-----------------------------------------------------------------------------
(* RemoveModule, edits and crashes *)

RemoveModule(t) ==
    /\ Begin(t)
    /\ \E k \in Key :
          /\ dir[k] # Missing
          /\ at' = [at EXCEPT ![t] = [pc |-> "remove", key |-> k, written |-> 0]]
    /\ UNCHANGED <<process, source, dir, tmp, edits, crashes, history>>

Edit ==
    /\ edits < MaxEdits
    /\ \E v \in Version \ {source} : source' = v
    /\ edits' = edits + 1
    /\ raced' = (raced \/ \E t \in Thread : at[t].pc = "lowered")
    /\ UNCHANGED <<process, dir, tmp, at, writes, crashes, stored, collided, torn, stale>>

Crash(p) ==
    /\ crashes < MaxCrashes
    /\ \E t \in Thread : process[t] = p /\ at[t].pc # "idle"
    /\ crashes' = crashes + 1
    /\ at' = [t \in Thread |-> IF process[t] = p THEN Idle ELSE at[t]]
    /\ torn' = torn \cup {k \in Key : \E t \in Thread : process[t] = p /\ Emptying(t, k)}
    /\ UNCHANGED <<process, source, dir, tmp, writes, edits, stored, collided, raced, stale>>

Next ==
    \/ \E t \in Thread :
          \/ ImportHit(t) \/ ImportMiss(t) \/ ImportHash(t) \/ ImportFile(t)
          \/ ClearTmp(t) \/ WriteFile(t) \/ Publish(t)
          \/ RemoveSome(t) \/ RemoveDone(t) \/ RemoveFails(t)
          \/ Rename(t) \/ PutFails(t) \/ RemoveModule(t)
    \/ Edit
    \/ \E p \in Process : Crash(p)

Spec == Init /\ [][Next]_vars

-----------------------------------------------------------------------------
(* Properties *)

TypeOK ==
    /\ process \in [Thread -> Process]
    /\ source \in Version
    /\ dir \in [Key -> (SUBSET File) \cup {Missing}]
    /\ tmp \in [Process \X Key -> (SUBSET File) \cup {Missing}]
    /\ at \in [Thread -> [pc : {"idle", "lowered", "remove"} \cup Put_pc,
                          key : Key \cup {NoKey}, written : 0..Len(WriteOrder)]]
    /\ writes \in 0..MaxWrites /\ edits \in 0..MaxEdits /\ crashes \in 0..MaxCrashes
    /\ stored \subseteq Key /\ collided \subseteq Key /\ torn \subseteq Key
    /\ raced \in BOOLEAN /\ stale \in BOOLEAN

\* The store is what its calls have left: modules/<key> holds all three files after a
\* Put that returned nil and is gone after a RemoveModule that did, however processes
\* interleave in Put, wherever they die and whatever the file system refuses.  Three
\* things excepted, each of which can lose what an earlier Put has stored: someone is
\* emptying the name; somebody who did died in the middle, could not remove a file or
\* could not rename, and no call for the key has succeeded since; two goroutines of one
\* process, which share the temporary name, put the key.
\* (docs/SEMANTIC_MODULE_SYSTEM.md:8, "Modules are stored atomically", has no
\* exceptions.)
StoreIsWhole ==
    \A k \in Key :
        \/ dir[k] = IF k \in stored THEN File ELSE Missing
        \/ k \in torn \cup collided
        \/ \E t \in Thread : Emptying(t, k)

\* "stale semantic data can never be reused" (semantic_module_resolver.go:728)
\* holds of every answer from the store unless an edit fell between the lowering of
\* the files and the second reading of them for SourceHash.
StaleNeedsRacingEdit == stale => raced
=============================================================================
