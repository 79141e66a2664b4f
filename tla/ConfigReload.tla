----------------------------- MODULE ConfigReload -----------------------------
(***************************************************************************)
(* The reload of the configuration in watch mode: ConfigReloadManager over *)
(* the reloader of load.ts, the ConfigService both keep up to date, and    *)
(* the listeners, which may call back into the manager.                    *)
(*                                                                         *)
(* The code is synchronous: while `thread' is not "idle" it holds the      *)
(* thread, and only the env file, which others edit, changes meanwhile.  A *)
(* content of the file is the number of edits that led to it, so no        *)
(* content ever comes back; a hash identifies the content.                 *)
(***************************************************************************)
EXTENDS Naturals

CONSTANTS MaxEdits,      \* edits of the env file
          MaxQueued      \* reload() calls by listeners during one reload

ASSUME ConfigAssumption == MaxEdits \in Nat /\ MaxQueued \in Nat

VARIABLES
    file,              \* the content of the env files
    snapshot,          \* the values of the ConfigService
    reloader,          \* the manager has its reloader
    isClosed,          \* the manager is closed
    current,           \* state.current of the reloader
    watchedHash,       \* state.watchedEnvFileHash
    watching,          \* the watchers run
    notice,            \* a notification of the watchers is still to come
    debounce,          \* state.watchReloadTimer
    thread,            \* where the code that holds the thread is
    caller,            \* what it was called by
    nextHash, previous, previousConfig,      \* its locals
    pendingReload,     \* state.pendingReloadReason
    queued,            \* reload() calls by listeners since the thread was idle
    told, seen, asked, committed             \* history

configVars == <<file, snapshot, reloader, isClosed, current, watchedHash, watching,
                notice, debounce, thread, caller, nextHash, previous, previousConfig,
                pendingReload, queued, told, seen, asked, committed>>

reloadLocals == <<nextHash, previous, previousConfig>>
watchVars == <<file, notice, debounce, watching, seen>>

Content == 0 .. MaxEdits
Never == MaxEdits + 1

\* The ConfigService was loaded when the module was registered, or by the
\* create() of a standalone manager, which goes on to ensureReloader().
ConfigInit ==
    /\ file = 0 /\ snapshot = 0 /\ reloader = FALSE /\ isClosed = FALSE
    /\ current = 0 /\ watchedHash = 0 /\ watching = FALSE
    /\ notice = FALSE /\ debounce = FALSE
    /\ \/ thread = "idle" /\ caller = "manual"
       \/ thread = "create" /\ caller = "standalone"
    /\ nextHash = 0 /\ previous = 0 /\ previousConfig = 0
    /\ pendingReload = FALSE /\ queued = 0
    /\ told = Never /\ seen = FALSE /\ asked = 0 /\ committed = 0

\* Somebody edits the file, at any time.
Edit ==
    /\ file < MaxEdits
    /\ file' = file + 1
    /\ notice' = (notice \/ watching) /\ seen' = watching
    /\ UNCHANGED <<snapshot, reloader, isClosed, current, watchedHash, watching,
                   debounce, thread, caller, reloadLocals, pendingReload, queued,
                   told, asked, committed>>

-----------------------------------------------------------------------------
(* ensureReloader() and ConfigReloadCore.create() *)

Open == thread = "idle" /\ ~isClosed

\* onApplicationBootstrap()
OnApplicationBootstrap ==
    /\ Open /\ caller' = "bootstrap"
    /\ IF reloader
       THEN snapshot' = current /\ committed' = current /\ UNCHANGED thread
       ELSE thread' = "create" /\ UNCHANGED <<snapshot, committed>>
    /\ UNCHANGED <<watchVars, reloader, isClosed, current, watchedHash,
                   reloadLocals, pendingReload, queued, told, asked>>

\* reload()
Reload ==
    /\ Open /\ caller' = "manual"
    /\ thread' = IF reloader THEN "load" ELSE "create"
    /\ UNCHANGED <<watchVars, snapshot, reloader, isClosed, current, watchedHash,
                   reloadLocals, pendingReload, queued, told, asked, committed>>

\* The initial snapshot: read again at the bootstrap, otherwise the service's.
InitialSnapshot ==
    /\ thread = "create" /\ thread' = "hash"
    /\ current' = IF caller = "bootstrap" THEN file ELSE snapshot
    /\ UNCHANGED <<watchVars, snapshot, reloader, isClosed, watchedHash, caller,
                   reloadLocals, pendingReload, queued, told, asked, committed>>

InitialHash ==
    /\ thread = "hash" /\ thread' = "watch"
    /\ watchedHash' = file
    /\ UNCHANGED <<watchVars, snapshot, reloader, isClosed, current, caller,
                   reloadLocals, pendingReload, queued, told, asked, committed>>

\* The watchers start, and the operation that needed the reloader goes on.
StartWatchers ==
    /\ thread = "watch"
    /\ watching' = TRUE /\ reloader' = TRUE
    /\ IF caller \in {"bootstrap", "standalone"}
       THEN thread' = "idle" /\ snapshot' = current /\ committed' = current
       ELSE thread' = "load" /\ UNCHANGED <<snapshot, committed>>
    /\ UNCHANGED <<file, notice, debounce, seen, isClosed, current, watchedHash,
                   caller, reloadLocals, pendingReload, queued, told, asked>>

\* A read, the validation or fs.watch() throws: there is no reloader, and of a
\* standalone manager nothing remains.
CreateFails ==
    /\ thread \in {"create", "hash", "watch"}
    /\ thread = "create" => caller = "bootstrap"
    /\ thread' = "idle" /\ isClosed' = (caller = "standalone")
    /\ UNCHANGED <<watchVars, snapshot, reloader, current, watchedHash, caller,
                   reloadLocals, pendingReload, queued, told, asked, committed>>

-----------------------------------------------------------------------------
(* The watchers *)

\* scheduleWatchReload(): the timer starts, or starts again.
Notify ==
    /\ notice /\ thread = "idle"
    /\ notice' = FALSE /\ debounce' = TRUE
    /\ UNCHANGED <<file, watching, seen, snapshot, reloader, isClosed, current,
                   watchedHash, thread, caller, reloadLocals, pendingReload, queued,
                   told, asked, committed>>

\* The timer fires; the content is compared with the last one that a watch
\* reload has committed.
DebounceOver ==
    /\ debounce /\ thread = "idle"
    /\ debounce' = FALSE
    /\ IF file = watchedHash
       THEN UNCHANGED <<thread, caller, nextHash>>
       ELSE thread' = "load" /\ caller' = "watch" /\ nextHash' = file
    /\ UNCHANGED <<file, notice, watching, seen, snapshot, reloader, isClosed,
                   current, watchedHash, previous, previousConfig, pendingReload,
                   queued, told, asked, committed>>

\* The file cannot be read; the error listeners are told.
DebounceFails ==
    /\ debounce /\ thread = "idle"
    /\ debounce' = FALSE /\ told' = file
    /\ UNCHANGED <<file, notice, watching, seen, snapshot, reloader, isClosed,
                   current, watchedHash, thread, caller, reloadLocals,
                   pendingReload, queued, asked, committed>>

-----------------------------------------------------------------------------
(* applyReload() and applyReloadNow() *)

\* The content is read, valid, and in force for the reloader and, through the
\* forwarder, for the service.  A manager that a listener has closed in an
\* earlier pass has no forwarder any more.
Load ==
    /\ thread = "load"
    /\ current' = file /\ previous' = current
    /\ IF isClosed
       THEN thread' = "return" /\ UNCHANGED <<snapshot, previousConfig>>
       ELSE thread' = "notify" /\ snapshot' = file /\ previousConfig' = snapshot
    /\ UNCHANGED <<watchVars, reloader, isClosed, watchedHash, caller, nextHash,
                   pendingReload, queued, told, asked, committed>>

\* The exception reaches the caller of reload() or the error listeners, and
\* the queued reload is dropped.
Fails(content) ==
    /\ thread' = "idle" /\ pendingReload' = FALSE
    /\ told' = content /\ queued' = 0 /\ asked' = 0
    /\ UNCHANGED <<watchVars, reloader, isClosed, watchedHash, caller, reloadLocals,
                   committed>>

\* The content cannot be read or is not valid.
LoadFails == thread = "load" /\ Fails(file) /\ UNCHANGED <<snapshot, current>>

\* A listener throws: both snapshots are restored.
ListenerThrows ==
    /\ thread = "notify" /\ Fails(current)
    /\ snapshot' = previousConfig /\ current' = previous

\* A listener calls reload(), which queues.
ListenerReloads ==
    /\ thread = "notify" /\ ~isClosed /\ queued < MaxQueued
    /\ pendingReload' = TRUE /\ queued' = queued + 1 /\ asked' = file
    /\ UNCHANGED <<watchVars, snapshot, reloader, isClosed, current, watchedHash,
                   thread, caller, reloadLocals, told, committed>>

\* A mutated form: the hash is taken when the reload is over.
HashAfterwards == file

\* The hash that was compared before the reload.
CommittedHash == nextHash

\* The listeners have been called: the queued reload, or the return.
Returns ==
    /\ thread \in {"notify", "return"}
    /\ committed' = IF thread = "notify" THEN snapshot ELSE committed
    /\ pendingReload' = FALSE
    /\ IF pendingReload
       THEN thread' = "load" /\ UNCHANGED <<watchedHash, queued>>
       ELSE /\ thread' = "idle" /\ queued' = 0
            /\ watchedHash' = IF caller = "watch" THEN CommittedHash ELSE watchedHash
    /\ UNCHANGED <<watchVars, snapshot, reloader, isClosed, current, caller,
                   reloadLocals, told, asked>>

-----------------------------------------------------------------------------
\* close() and onModuleDestroy(), also called by a listener.
Close ==
    /\ thread \in {"idle", "notify"} /\ ~isClosed
    /\ isClosed' = TRUE /\ reloader' = FALSE
    /\ watching' = FALSE /\ notice' = FALSE /\ debounce' = FALSE
    /\ UNCHANGED <<file, seen, snapshot, current, watchedHash, thread, caller,
                   reloadLocals, pendingReload, queued, told, asked, committed>>

ConfigNext ==
    \/ Edit \/ OnApplicationBootstrap \/ Reload
    \/ InitialSnapshot \/ InitialHash \/ StartWatchers \/ CreateFails
    \/ Notify \/ DebounceOver \/ DebounceFails
    \/ Load \/ LoadFails \/ ListenerThrows \/ ListenerReloads \/ Returns \/ Close

ConfigSpec == ConfigInit /\ [][ConfigNext]_configVars

-----------------------------------------------------------------------------
(* Properties *)

ConfigTypeOK ==
    /\ {file, snapshot, current, watchedHash, nextHash, previous, previousConfig, asked,
        committed} \subseteq Content
    /\ {reloader, isClosed, watching, notice, debounce, pendingReload, seen} \subseteq BOOLEAN
    /\ thread \in {"idle", "create", "hash", "watch", "load", "notify", "return"}
    /\ caller \in {"standalone", "bootstrap", "manual", "watch"}
    /\ queued \in 0 .. MaxQueued /\ told \in Content \cup {Never}

\* Between reloads the service shows the last content that every listener has
\* accepted, and so does the reloader, whatever listeners queue, throw or close
\* (applyReloadNow() and the forwarder of ensureReloader(), which each roll
\* their own snapshot back).
LastCommitted ==
    thread = "idle" =>
        /\ snapshot = committed
        /\ reloader => current = snapshot

\* When the watchers have nothing more to say of an edit that was made while
\* they ran, the service shows the file as it is, or somebody was told why not:
\* no edit slips between the comparison of the hashes and the reload
\* (scheduleWatchReload()).
EditsNotMissed ==
    thread = "idle" /\ watching /\ seen /\ ~notice /\ ~debounce => file \in {snapshot, told}

\* A reload() that a listener queues is served before the outer reload returns:
\* what the service then shows is not older than the request (applyReload()).
QueuedReloadServed == Open => asked <= snapshot

\* The three together.
ConfigInForce == ConfigTypeOK /\ LastCommitted /\ EditsNotMissed /\ QueuedReloadServed
=============================================================================
