----------------------------- MODULE ViewCache -----------------------------
(***************************************************************************)
(* One view of a ViewEngine (packages/views/src/view-engine.ts): its file, *)
(* the compiled template in memory and the one in the directory of the     *)
(* compiled views (compiled-cache.ts), while renders load it, the file is  *)
(* edited and view:cache compiles it in the worker pool                    *)
(* (parallel-compile.ts).  A step is one access to a file, with the code   *)
(* up to the next.  Each edit gives the file a new time of modification,   *)
(* and both are the number `edition`.                                      *)
(***************************************************************************)
EXTENDS Naturals

CONSTANTS
    Load,           \* calls of loadTemplate() or preloadCompiledCache()
    Warmer,         \* calls of warmCompiledCache() with the worker pool
    MaxChanges,     \* bound: edits of the file and directives registered
    NoEntry, Torn

ASSUME ViewAssumption ==
    /\ Load \cap Warmer = {}
    /\ MaxChanges \in Nat

VARIABLES
    engine,         \* its settings: onDisk, trusts and requires; never change
    edition,        \* what the file holds
    directives,     \* compileVersion of the registry
    memory,         \* cached entry of the process
    disk,           \* cached entry in the directory; Torn while it is written
    writers,        \* who is writing the cache file
    mixed,          \* two of them have been at once
    clearing,       \* clearCompiledCache() has still to remove the file
    at,             \* where each call is
    version,        \* its registryVersion
    seen,           \* its memoryCached
    found,          \* its diskEntry, then the entry it makes
    noted,          \* what it read of the file first: the time, or the text
    since,          \* history: the edition it began with
    outdated        \* history: a call returned a template it should not have

viewLocals == <<version, seen, found, noted, since>>
viewVars == <<engine, edition, directives, memory, disk, writers, mixed, clearing, at,
              viewLocals, outdated>>

ViewCaller == Load \cup Warmer
ViewEntry == [mtime : 0 .. MaxChanges, version : 0 .. MaxChanges,
              source : 0 .. MaxChanges, warmed : BOOLEAN]

ASSUME EntryAssumption == NoEntry \notin ViewEntry

ViewTypeOK ==
    /\ edition \in 0 .. MaxChanges /\ directives \in 0 .. MaxChanges
    /\ memory \in ViewEntry \cup {NoEntry}
    /\ disk \in ViewEntry \cup {NoEntry, Torn}
    /\ writers \subseteq ViewCaller
    /\ mixed \in BOOLEAN /\ clearing \in BOOLEAN
    /\ at \in [ViewCaller -> {"idle", "preload", "disk", "compare", "recheck", "stat",
                              "read", "open", "write", "over"}]
    /\ seen \in [ViewCaller -> ViewEntry \cup {NoEntry}]
    /\ found \in [ViewCaller -> ViewEntry \cup {NoEntry}]

ViewInit ==
    /\ engine \in [onDisk : BOOLEAN, trusts : BOOLEAN, requires : BOOLEAN]
    /\ engine.requires => engine.trusts
    /\ engine.trusts => engine.onDisk
    /\ edition = 0 /\ directives = 0
    /\ memory = NoEntry /\ disk = NoEntry
    /\ writers = {} /\ mixed = FALSE /\ clearing = FALSE
    /\ at = [c \in ViewCaller |-> "idle"]
    /\ version = [c \in ViewCaller |-> 0]
    /\ seen = [c \in ViewCaller |-> NoEntry] /\ found = [c \in ViewCaller |-> NoEntry]
    /\ noted = [c \in ViewCaller |-> 0] /\ since = [c \in ViewCaller |-> 0]
    /\ outdated = FALSE

AllFixed == UNCHANGED <<engine, edition, directives>>
FilesFixed == AllFixed /\ UNCHANGED <<disk, writers, mixed, clearing>>
ViewMoves(c, from, to) == at[c] = from /\ at' = [at EXCEPT ![c] = to] /\ UNCHANGED outdated

\* An engine that compares times is to give a render the view as it was when
\* the call began, or newer, compiled with the directives of that moment; an
\* entry of the worker pool may be older than it claims to be.
Timely(l, entry) ==
    /\ entry.version = version[l]
    /\ \/ engine.trusts
       \/ entry.source >= since[l]
       \/ entry.warmed /\ entry.mtime >= since[l]

\* The call is over, with an entry or with an error.
Leaves(c) ==
    /\ at' = [at EXCEPT ![c] = "over"]
    /\ version' = [version EXCEPT ![c] = 0]
    /\ seen' = [seen EXCEPT ![c] = NoEntry] /\ found' = [found EXCEPT ![c] = NoEntry]
    /\ noted' = [noted EXCEPT ![c] = 0] /\ since' = [since EXCEPT ![c] = 0]

Serve(l, entry) ==
    /\ Leaves(l)
    /\ outdated' = (outdated \/ ~Timely(l, entry))
-----------------------------------------------------------------------------
\* An entry counts only if it was compiled with the directives of now.
Current(entry) == IF entry # NoEntry /\ entry.version = directives THEN entry ELSE NoEntry

\* loadTemplate() up to its first access to a file.  An engine that trusts
\* its caches needs none where memory has the view.
BeginLoad(l) ==
    /\ ~(engine.trusts /\ Current(memory) # NoEntry)
    /\ \A c \in Load : at[c] # "preload"
    /\ ViewMoves(l, "idle", IF engine.onDisk THEN "disk"
                            ELSE IF Current(memory) # NoEntry THEN "recheck" ELSE "stat")
    /\ version' = [version EXCEPT ![l] = directives]
    /\ seen' = [seen EXCEPT ![l] = Current(memory)]
    /\ since' = [since EXCEPT ![l] = edition]
    /\ UNCHANGED <<memory, found, noted>>
    /\ FilesFixed

\* readCompiledCache() gives nothing where the file is missing or half written.
OnDisk(l) == disk # NoEntry /\ disk # Torn /\ disk.version = version[l]

\* Where a call goes on that found nothing on disk.
Missed(l) == IF seen[l] # NoEntry THEN "recheck" ELSE "stat"

ReadDisk(l) ==
    /\ ViewMoves(l, "disk", IF OnDisk(l) THEN "compare" ELSE Missed(l))
    /\ IF OnDisk(l) THEN ~engine.trusts ELSE ~engine.requires
    /\ found' = [found EXCEPT ![l] = IF OnDisk(l) THEN disk ELSE NoEntry]
    /\ UNCHANGED <<memory, version, seen, noted, since>>
    /\ FilesFixed

\* An engine that trusts its caches takes what is on disk as it is.
TrustDisk(l) ==
    /\ at[l] = "disk" /\ engine.trusts /\ OnDisk(l)
    /\ memory' = disk
    /\ Serve(l, disk)
    /\ FilesFixed

\* CompiledViewCacheMissError.
MissCompiled(l) ==
    /\ at[l] = "disk" /\ engine.requires /\ ~OnDisk(l)
    /\ Leaves(l)
    /\ UNCHANGED <<memory, outdated>>
    /\ FilesFixed

\* stat(): the entry on disk is good if the file has not been edited since.
Compare(l) ==
    /\ at[l] = "compare" /\ found[l].mtime = edition
    /\ memory' = found[l]
    /\ Serve(l, found[l])
    /\ FilesFixed

CompareFails(l) ==
    /\ found[l] # NoEntry /\ found[l].mtime # edition
    /\ ViewMoves(l, "compare", Missed(l))
    /\ UNCHANGED <<memory, viewLocals>>
    /\ FilesFixed

\* stat(): so is the one the call saw in memory when it began.
RecheckMemory(l) ==
    /\ at[l] = "recheck"
    /\ seen[l].mtime = edition
    /\ Serve(l, seen[l])
    /\ UNCHANGED memory
    /\ FilesFixed

RecheckFails(l) ==
    /\ seen[l] # NoEntry /\ seen[l].mtime # edition
    /\ ViewMoves(l, "recheck", "stat")
    /\ UNCHANGED <<memory, viewLocals>>
    /\ FilesFixed

StatView(l) ==
    /\ ViewMoves(l, "stat", "read")
    /\ noted' = [noted EXCEPT ![l] = edition]
    /\ UNCHANGED <<memory, version, seen, found, since>>
    /\ FilesFixed

\* The text is read now, under the time that was taken before.
CompileView(l) ==
    [mtime |-> noted[l], version |-> version[l], source |-> edition, warmed |-> FALSE]

ReadView(l) ==
    /\ at[l] = "read"
    /\ memory' = CompileView(l)
    /\ IF engine.onDisk
       THEN /\ ViewMoves(l, "read", "open")
            /\ found' = [found EXCEPT ![l] = CompileView(l)]
            /\ UNCHANGED <<version, seen, noted, since>>
       ELSE Serve(l, CompileView(l))
    /\ FilesFixed

\* writeFile() in writeCompiledCache(): the file is emptied, then written.
OpenCacheFile(c) ==
    /\ ViewMoves(c, "open", "write")
    /\ disk' = Torn
    /\ writers' = writers \cup {c}
    /\ mixed' = (writers # {})
    /\ UNCHANGED <<memory, clearing, viewLocals>>
    /\ AllFixed

\* Two texts in one file are the later one, or no JSON.  A file that was
\* removed in the meantime is written to no avail.
WriteCacheFile(c) ==
    /\ at[c] = "write"
    /\ writers' = writers \ {c}
    /\ mixed' = (mixed /\ writers # {c})
    /\ \/ c \in writers /\ disk' = found[c]
       \/ c \in writers /\ mixed /\ disk' = Torn
       \/ c \notin writers /\ UNCHANGED disk
    /\ IF c \in Load THEN Serve(c, found[c]) /\ UNCHANGED memory
       ELSE /\ Leaves(c) /\ UNCHANGED outdated
            /\ memory' \in {memory, NoEntry}
    /\ UNCHANGED clearing
    /\ AllFixed

\* preloadCompiledCache(), while the application boots: it trusts what it
\* finds.
BeginPreload(l) ==
    /\ engine.onDisk /\ memory = NoEntry
    /\ \A c \in Load : at[c] = "idle"
    /\ ViewMoves(l, "idle", "preload")
    /\ version' = [version EXCEPT ![l] = directives]
    /\ UNCHANGED <<memory, seen, found, noted, since>>
    /\ FilesFixed

Preload(l) ==
    /\ at[l] = "preload"
    /\ memory' = IF OnDisk(l) THEN disk ELSE memory
    /\ Leaves(l) /\ UNCHANGED outdated
    /\ FilesFixed
-----------------------------------------------------------------------------
\* The worker pool reads the file first and takes its time afterwards; at
\* its end the engine that ran it, this one or another, empties its memory.
WarmRead(w) ==
    /\ engine.onDisk
    /\ ViewMoves(w, "idle", "stat")
    /\ version' = [version EXCEPT ![w] = directives]
    /\ noted' = [noted EXCEPT ![w] = edition]
    /\ UNCHANGED <<memory, seen, found, since>>
    /\ FilesFixed

WarmStat(w) ==
    /\ ViewMoves(w, "stat", "open")
    /\ found' = [found EXCEPT ![w] = [mtime |-> edition, version |-> version[w],
                                      source |-> noted[w], warmed |-> TRUE]]
    /\ UNCHANGED <<memory, version, seen, noted, since>>
    /\ FilesFixed
-----------------------------------------------------------------------------
EditView ==
    /\ edition + directives < MaxChanges
    /\ edition' = edition + 1
    /\ UNCHANGED <<engine, directives, memory, disk, writers, mixed, clearing, at,
                   viewLocals, outdated>>

\* directive(): what was compiled before no longer counts.
AddDirective ==
    /\ edition + directives < MaxChanges
    /\ directives' = directives + 1
    /\ UNCHANGED <<engine, edition, memory, disk, writers, mixed, clearing, at, viewLocals,
                   outdated>>

\* invalidateTemplate(), by which recompileTemplate() begins; a load follows.
InvalidateTemplate ==
    /\ memory # NoEntry
    /\ memory' = NoEntry
    /\ UNCHANGED <<engine, edition, directives, disk, writers, mixed, clearing, at,
                   viewLocals, outdated>>

\* clearCompiledCache(): memory at once, the file later.
ClearMemory ==
    /\ engine.onDisk /\ ~clearing /\ disk # NoEntry
    /\ memory' = NoEntry
    /\ clearing' = TRUE
    /\ UNCHANGED <<engine, edition, directives, disk, writers, mixed, at, viewLocals,
                   outdated>>

RemoveCacheFile ==
    /\ clearing
    /\ clearing' = FALSE
    /\ disk' = NoEntry
    /\ writers' = {} /\ mixed' = FALSE
    /\ UNCHANGED <<engine, edition, directives, memory, at, viewLocals, outdated>>

ViewNext ==
    \/ \E l \in Load : \/ BeginLoad(l) \/ ReadDisk(l) \/ TrustDisk(l) \/ MissCompiled(l)
                       \/ Compare(l) \/ CompareFails(l) \/ RecheckMemory(l)
                       \/ RecheckFails(l) \/ StatView(l) \/ ReadView(l)
                       \/ BeginPreload(l) \/ Preload(l)
    \/ \E w \in Warmer : WarmRead(w) \/ WarmStat(w)
    \/ \E c \in ViewCaller : OpenCacheFile(c) \/ WriteCacheFile(c)
    \/ EditView \/ AddDirective \/ InvalidateTemplate \/ ClearMemory \/ RemoveCacheFile

ViewSpec == ViewInit /\ [][ViewNext]_viewVars
-----------------------------------------------------------------------------
\* No entry in either cache claims a later time than its text has, whatever
\* was edited, cleared or overwritten on the way, but for one that the worker
\* pool compiled while the file was edited.
EntriesAreHonest ==
    \A entry \in {memory, disk} \ {NoEntry, Torn} :
        entry.mtime <= entry.source \/ entry.warmed

\* No render is given an older view than it may: by the times that are
\* compared, entries of either cache are taken only while they are good.
ViewsAreFresh == ~outdated

\* What renders get of a view.
ViewInv == ViewTypeOK /\ EntriesAreHonest /\ ViewsAreFresh
=============================================================================
