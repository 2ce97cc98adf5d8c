----------------------------- MODULE DebugTrail -----------------------------
(***************************************************************************)
(* The entries of the debug bar: a process keeps the newest in memory and  *)
(* writes all of them to a file after each request without waiting for it  *)
(* (packages/debug/src/store.ts), and debug:watch reads the file whenever  *)
(* it changes (watch.ts).  A write is mkdir(), then open and truncate,     *)
(* then the text; writes of several requests overlap.                      *)
(***************************************************************************)
EXTENDS Naturals, Sequences, SequencesExt

CONSTANTS
    Entry,          \* each is pushed once
    Clearing,       \* the write of a clear()
    maxEntries,
    Empty, Torn     \* a file that is just truncated; one that is no JSON

ASSUME TrailAssumption ==
    /\ maxEntries \in Nat \ {0}
    /\ Clearing \notin Entry

VARIABLES
    entries,        \* in memory, the newest first
    trailFile,      \* a sequence of entries, Empty or Torn
    writing,        \* where the write of each push or clear is
    text,           \* what it writes
    mixed,          \* history: two writes have been under way at once
    changed,        \* the watcher's callback has still to be called
    reading, readAgain, \* where readEntries() is, and its `pending`
    saw,            \* what it has read
    shown           \* the entries the watcher has printed

trailVars == <<entries, trailFile, writing, text, mixed, changed, reading, readAgain, saw,
               shown>>

TrailWrite == Entry \cup {Clearing}

TrailTypeOK ==
    /\ entries \in BoundedSeq(Entry, maxEntries)
    /\ trailFile \in BoundedSeq(Entry, maxEntries) \cup {Empty, Torn}
    /\ writing \in [TrailWrite -> {"idle", "mkdir", "open", "write", "done"}]
    /\ {mixed, changed, readAgain} \subseteq BOOLEAN
    /\ reading \in {"no", "reads", "has read"}
    /\ shown \subseteq Entry

TrailInit ==
    /\ entries = <<>> /\ trailFile = <<>>
    /\ writing = [w \in TrailWrite |-> "idle"]
    /\ text = [w \in TrailWrite |-> <<>>]
    /\ mixed = FALSE
    /\ changed = FALSE /\ reading = "reads" /\ readAgain = FALSE
    /\ saw = <<>> /\ shown = {}

UnderWay(w) == writing[w] \in {"mkdir", "open", "write"}
WatcherFixed == UNCHANGED <<reading, readAgain, saw, shown>>
StoreFixed == UNCHANGED <<entries, trailFile, writing, text, mixed>>
Newest(s) == IF Len(s) > maxEntries THEN SubSeq(s, 1, maxEntries) ELSE s
-----------------------------------------------------------------------------
BeginWrite(w) ==
    /\ writing[w] = "idle"
    /\ writing' = [writing EXCEPT ![w] = "mkdir"]
    /\ mixed' = (mixed \/ \E other \in TrailWrite : UnderWay(other))
    /\ UNCHANGED <<trailFile, text, changed>>
    /\ WatcherFixed

\* push(): the oldest entry may have to go.
Push(e) ==
    /\ BeginWrite(e)
    /\ entries' = Newest(<<e>> \o entries)

ClearTrail ==
    /\ BeginWrite(Clearing)
    /\ entries' = <<>>

\* After mkdir() the text is made of the entries of this moment.
Directory(w) ==
    /\ writing[w] = "mkdir"
    /\ writing' = [writing EXCEPT ![w] = "open"]
    /\ text' = [text EXCEPT ![w] = IF w = Clearing THEN <<>> ELSE entries]
    /\ UNCHANGED <<entries, trailFile, mixed, changed>>
    /\ WatcherFixed

OpenTrail(w) ==
    /\ writing[w] = "open"
    /\ writing' = [writing EXCEPT ![w] = "write"]
    /\ trailFile' = Empty
    /\ changed' = TRUE
    /\ UNCHANGED <<entries, text, mixed>>
    /\ WatcherFixed

\* Over the text of another write that was opened before, the end of that may
\* be left.
WriteTrail(w) ==
    /\ writing[w] = "write"
    /\ writing' = [writing EXCEPT ![w] = "done"]
    /\ trailFile' \in IF trailFile = Empty THEN {text[w]} ELSE {text[w], Torn}
    /\ changed' = TRUE
    /\ text' = [text EXCEPT ![w] = <<>>]
    /\ UNCHANGED <<entries, mixed>>
    /\ WatcherFixed
-----------------------------------------------------------------------------
\* Mutant: a change that comes while the file is read is forgotten.
PendingForgets == readAgain

\* A change while the file is read is kept for later.
PendingKeeps == reading # "no"

\* The watcher's callback: readEntries() begins, or will again.
Refresh ==
    /\ changed
    /\ changed' = FALSE
    /\ reading' = IF reading = "no" THEN "reads" ELSE reading
    /\ readAgain' = PendingKeeps
    /\ UNCHANGED <<saw, shown>>
    /\ StoreFixed

ReadTrail ==
    /\ reading = "reads"
    /\ reading' = "has read"
    /\ saw' = trailFile
    /\ UNCHANGED <<readAgain, shown, changed>>
    /\ StoreFixed

\* What is no JSON shows nothing.
ShowEntries ==
    /\ reading = "has read"
    /\ shown' = IF saw \in {Empty, Torn} THEN shown ELSE shown \cup ToSet(saw)
    /\ reading' = IF readAgain THEN "reads" ELSE "no"
    /\ readAgain' = FALSE
    /\ saw' = <<>>
    /\ UNCHANGED changed
    /\ StoreFixed

TrailStep ==
    \/ Refresh \/ ReadTrail \/ ShowEntries
    \/ \E w \in TrailWrite : Directory(w) \/ OpenTrail(w) \/ WriteTrail(w)

TrailNext == TrailStep \/ ClearTrail \/ \E e \in Entry : Push(e)

\* What has begun goes on, and the system tells the watcher of changes.
TrailSpec == TrailInit /\ [][TrailNext]_trailVars /\ WF_trailVars(TrailStep)
-----------------------------------------------------------------------------
\* As long as no two writes overlap, the file holds what memory does
\* whenever none is under way.
FileFollows ==
    ~mixed /\ (\A w \in TrailWrite : ~UnderWay(w)) => trailFile = entries

TrailInv == TrailTypeOK /\ FileFollows

\* debug:watch shows in the end all that the file holds in the end, however
\* many changes come while it reads and though it may read half a write.
WatcherCatchesUp ==
    <>[](trailFile \notin {Empty, Torn} => ToSet(trailFile) \subseteq shown)
=============================================================================
