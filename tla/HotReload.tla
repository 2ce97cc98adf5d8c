----------------------------- MODULE HotReload -----------------------------
(***************************************************************************)
(* The reload of routes while a developer edits them                       *)
(* (packages/core/src/dev-hot-reload.ts): each change of a route module    *)
(* starts a timer anew, and the timer a reload, which lists the modules,   *)
(* empties the router and imports one module after the other.  Each step   *)
(* runs up to the next await.                                              *)
(***************************************************************************)
EXTENDS Naturals

CONSTANTS
    RouteModule,    \* files of src/routes
    ReloadTask,     \* runs of reloadRoutes() that may overlap
    MaxEdits,       \* bound: changes of the files
    Missing, Broken \* a file that is not there; one whose import throws

ASSUME ReloadAssumption ==
    /\ MaxEdits \in Nat
    /\ Missing \notin Nat /\ Broken \notin Nat

VARIABLES
    files,          \* what each module holds: the number of the edit, or worse
    edits,
    notices,        \* fs.watch has a change to tell of
    reloadTimer,    \* of createDebounced
    runningReload,
    reload,         \* where each run of reloadRoutes() is
    todo,           \* the modules it has still to import
    loaded,         \* routes in the router: of which module, text and run
    listed,         \* history: the modules the last run found
    failed          \* history: the last run has thrown

reloadVars == <<files, edits, notices, reloadTimer, runningReload, reload, todo, loaded,
                listed, failed>>

Text == 0 .. MaxEdits

ReloadTypeOK ==
    /\ files \in [RouteModule -> Text \cup {Missing, Broken}]
    /\ edits \in 0 .. MaxEdits
    /\ {notices, reloadTimer, runningReload, failed} \subseteq BOOLEAN
    /\ reload \in [ReloadTask -> {"idle", "listing", "importing"}]
    /\ todo \in [ReloadTask -> SUBSET RouteModule]
    /\ loaded \subseteq [from : RouteModule, text : Text, by : ReloadTask \cup {"boot"}]

ReloadInit ==
    /\ files = [m \in RouteModule |-> 0] /\ edits = 0
    /\ notices = FALSE /\ reloadTimer = FALSE /\ runningReload = FALSE
    /\ reload = [t \in ReloadTask |-> "idle"] /\ todo = [t \in ReloadTask |-> {}]
    /\ loaded = {[from |-> m, text |-> 0, by |-> "boot"] : m \in RouteModule}
    /\ listed = RouteModule /\ failed = FALSE
-----------------------------------------------------------------------------
\* A module is written, removed, or left with an error in it.
Edit(m, text) ==
    /\ edits < MaxEdits
    /\ edits' = edits + 1
    /\ files' = [files EXCEPT ![m] = text]
    /\ notices' = TRUE
    /\ UNCHANGED <<reloadTimer, runningReload, reload, todo, loaded, listed, failed>>

\* The watcher's callback: the timer begins anew.
Debounce ==
    /\ notices
    /\ notices' = FALSE
    /\ reloadTimer' = TRUE
    /\ UNCHANGED <<files, edits, runningReload, reload, todo, loaded, listed, failed>>

\* Mutant: a run starts although another is under way.
MayRunAlways == TRUE

MayRun == ~runningReload

Fire(t) ==
    /\ reloadTimer /\ MayRun
    /\ reload[t] = "idle"
    /\ reloadTimer' = FALSE
    /\ runningReload' = TRUE
    /\ reload' = [reload EXCEPT ![t] = "listing"]
    /\ UNCHANGED <<files, edits, notices, todo, loaded, listed, failed>>

\* The timer is over and nothing starts it again: the change is not loaded.
FireInVain ==
    /\ reloadTimer /\ ~MayRun
    /\ reloadTimer' = FALSE
    /\ UNCHANGED <<files, edits, notices, runningReload, reload, todo, loaded, listed, failed>>

\* readdir() returns, and resetRoutes() leaves no route; requests that come
\* before the last import find what there is.
ListModules(t) ==
    /\ reload[t] = "listing"
    /\ todo' = [todo EXCEPT ![t] = {m \in RouteModule : files[m] # Missing}]
    /\ listed' = todo'[t]
    /\ loaded' = {}
    /\ reload' = [reload EXCEPT ![t] = "importing"]
    /\ UNCHANGED <<files, edits, notices, reloadTimer, runningReload, failed>>

\* One import(), in the order of the names, of which any may be the order
\* here; the modules register their routes on the router.
Import(t, m) ==
    /\ reload[t] = "importing" /\ m \in todo[t]
    /\ files[m] \in Text
    /\ loaded' = loaded \cup {[from |-> m, text |-> files[m], by |-> t]}
    /\ todo' = [todo EXCEPT ![t] = @ \ {m}]
    /\ UNCHANGED <<files, edits, notices, reloadTimer, runningReload, reload, listed, failed>>

\* An import throws: the modules after it are not imported.
ImportFails(t, m) ==
    /\ reload[t] = "importing" /\ m \in todo[t]
    /\ files[m] \notin Text
    /\ todo' = [todo EXCEPT ![t] = {}]
    /\ reload' = [reload EXCEPT ![t] = "idle"]
    /\ runningReload' = FALSE
    /\ failed' = TRUE
    /\ UNCHANGED <<files, edits, notices, reloadTimer, loaded, listed>>

Reloaded(t) ==
    /\ reload[t] = "importing" /\ todo[t] = {}
    /\ reload' = [reload EXCEPT ![t] = "idle"]
    /\ runningReload' = FALSE
    /\ failed' = FALSE
    /\ UNCHANGED <<files, edits, notices, reloadTimer, todo, loaded, listed>>

ReloadStep ==
    \/ Debounce \/ FireInVain
    \/ \E t \in ReloadTask :
        \/ Fire(t) \/ ListModules(t) \/ Reloaded(t)
        \/ \E m \in RouteModule : Import(t, m) \/ ImportFails(t, m)

ReloadNext ==
    \/ ReloadStep
    \/ \E m \in RouteModule, text \in {edits + 1, Missing, Broken} : Edit(m, text)

\* Watchers tell of changes, timers fire, and files are read.
ReloadSpec == ReloadInit /\ [][ReloadNext]_reloadVars /\ WF_reloadVars(ReloadStep)
-----------------------------------------------------------------------------
\* Between two reloads no module's routes are there twice, and after one that
\* did not fail each has the modules that were there when it began and no
\* other: reloads never mix, however their timers fire.
RoutesAreWhole ==
    (\A t \in ReloadTask : reload[t] = "idle") =>
        /\ \A a, b \in loaded : a.from = b.from => a = b
        /\ ~failed => {r.from : r \in loaded} = listed

ReloadInv == ReloadTypeOK /\ RoutesAreWhole

\* src/ROADMAP.md:628 "reload `config/*.ts` and route files on change": in
\* the end the router has what the files hold, unless a file is at fault.
\* A change whose timer fires while a reload runs (dev-hot-reload.ts:27) is not
\* loaded until another change comes.
EveryChangeIsLoaded ==
    <>[](\/ failed \/ \E m \in RouteModule : files[m] = Broken
         \/ {<<r.from, r.text>> : r \in loaded} =
                {<<m, files[m]>> : m \in {m \in RouteModule : files[m] # Missing}})
=============================================================================
