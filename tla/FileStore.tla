------------------------------ MODULE FileStore ------------------------------
(***************************************************************************)
(* packages/cache/src/file-store.ts: the file of one key, for any number   *)
(* of processes.  A step is one request to the file system; a write to a   *)
(* file is two, since opening it empties it, and goes to the file that was *)
(* opened even when its name is gone.                                      *)
(***************************************************************************)
EXTENDS Naturals

CONSTANTS
    FileUser,       \* calls of get(), put(), forget() and flush()
    NoFile, Garbled

ASSUME FileAssumption == NoFile \notin FileUser /\ Garbled \notin FileUser

VARIABLES
    file,           \* the put() the file holds the value of, or what else
    expired,        \* its expiresAt has passed
    doing,          \* where each call is
    linked,         \* calls whose open file is the one of that name
    answer,         \* history: the put() whose value the cache owes its users
    shaky,          \* history: calls met that may undo it
    flushed         \* history: a flush() ran, and no put() was or got under way

fileVars == <<file, expired, doing, linked, answer, shaky, flushed>>

FileTypeOK ==
    /\ file \in FileUser \cup {NoFile, Garbled}
    /\ {expired, shaky, flushed} \subseteq BOOLEAN
    /\ doing \in [FileUser -> {"idle", "remove", "open", "write"}]
    /\ linked \subseteq FileUser
    /\ answer \in FileUser \cup {NoFile}

FileInit ==
    /\ file = NoFile
    /\ expired = FALSE /\ shaky = FALSE /\ flushed = FALSE
    /\ doing = [c \in FileUser |-> "idle"]
    /\ linked = {}
    /\ answer = NoFile

Turn(c, to) == doing' = [doing EXCEPT ![c] = to]
Others(c, at) == \E d \in FileUser \ {c} : doing[d] \in at
Unlinks == file' = NoFile /\ linked' = {} /\ expired' = FALSE
-----------------------------------------------------------------------------
\* Mutant: get() removes what it cannot parse, too.
GetGarbled(c) ==
    /\ doing[c] = "idle"
    /\ file = Garbled \/ (file \in FileUser /\ expired)
    /\ Turn(c, "remove")
    /\ UNCHANGED <<file, expired, linked, answer, shaky, flushed>>

\* get() of a file that has expired: it is to be removed.  Any other is
\* answered at once, what cannot be parsed with null.
GetExpired(c) ==
    /\ doing[c] = "idle"
    /\ file \in FileUser /\ expired
    /\ Turn(c, "remove")
    /\ UNCHANGED <<file, expired, linked, answer, shaky, flushed>>

\* The file goes, whatever it holds by now.
RemoveFile(c) ==
    /\ doing[c] = "remove"
    /\ Unlinks
    /\ Turn(c, "idle")
    /\ UNCHANGED <<answer, shaky, flushed>>

\* put(), alone or after the has() of add() found nothing.
StartPut(c, adds) ==
    /\ doing[c] = "idle"
    /\ adds => file \in {NoFile, Garbled}
    /\ Turn(c, "open")
    /\ flushed' = FALSE
    /\ UNCHANGED <<file, expired, linked, answer, shaky>>

Open(c) ==
    /\ doing[c] = "open"
    /\ file' = Garbled /\ expired' = FALSE
    /\ linked' = linked \cup {c}
    /\ Turn(c, "write")
    /\ shaky' = Others(c, {"remove", "write"})
    /\ answer' = NoFile
    /\ UNCHANGED flushed

\* The bytes of two writers may be left mixed.
WriteFile(c) ==
    /\ doing[c] = "write"
    /\ IF c \notin linked THEN UNCHANGED <<file, expired>>
       ELSE /\ file' \in {c} \cup (IF file = Garbled THEN {} ELSE {Garbled})
            /\ expired' = FALSE
    /\ linked' = linked \ {c}
    /\ Turn(c, "idle")
    /\ answer' = c
    /\ shaky' = (shaky \/ Others(c, {"remove", "write"}))
    /\ UNCHANGED flushed

ForgetFile(c) ==
    /\ doing[c] = "idle"
    /\ Unlinks
    /\ answer' = NoFile
    /\ shaky' = Others(c, {"write"})
    /\ UNCHANGED <<doing, flushed>>

\* flush(): the directory holds the directories the files are in, and rm()
\* without recursive throws and removes none of them.
FlushFiles ==
    /\ flushed' = \A c \in FileUser : doing[c] \notin {"open", "write"}
    /\ answer' = NoFile
    /\ UNCHANGED <<file, expired, doing, linked, shaky>>

PassTime ==
    /\ file \in FileUser /\ ~expired
    /\ expired' = TRUE
    /\ answer' = NoFile
    /\ UNCHANGED <<file, doing, linked, shaky, flushed>>

\* The process dies, perhaps in the middle of a write.
KillFileUser(c) ==
    /\ doing[c] # "idle"
    /\ Turn(c, "idle")
    /\ linked' = linked \ {c}
    /\ UNCHANGED <<file, expired, answer, shaky, flushed>>

FileNext ==
    \/ \E c \in FileUser :
          \/ GetExpired(c) \/ RemoveFile(c) \/ Open(c) \/ WriteFile(c)
          \/ ForgetFile(c) \/ KillFileUser(c)
          \/ \E adds \in BOOLEAN : StartPut(c, adds)
    \/ FlushFiles \/ PassTime

FileSpec == FileInit /\ [][FileNext]_fileVars
-----------------------------------------------------------------------------
\* What put() acknowledged stays until it expires, is put over, forgotten or
\* flushed, unless it met a get() about to remove the file or another put().
PutsStay == answer # NoFile /\ ~shaky => file = answer

\* What a reader of the file store may rely on.
FileInv == FileTypeOK /\ PutsStay

\* What docs/guide/cache.md says of flush(), "Clear the entire cache": after
\* one that met no put() the file is gone until the next put().
FlushClears == flushed => file = NoFile
=============================================================================
