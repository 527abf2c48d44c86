-------------------------- MODULE StylesheetLoading --------------------------
(***************************************************************************)
(* AlacarteServerApp, StylesheetManager, the directory monitor and         *)
(* Stylesheet::Load: how the table of stylesheets follows the files.       *)
(*                                                                         *)
(* The main thread scans the folder and watches it then.  The monitor's    *)
(* thread takes one event at a time and waits for its handler, which runs  *)
(* on the StylesheetManager's thread and asks for the next event at its    *)
(* end.  A file is parsed by a thread of its own that is waited for with a *)
(* timeout and left to itself when it is late.  Authors edit meanwhile.    *)
(*                                                                         *)
(* The tiles that a change drops and the prerendering that it starts are   *)
(* in Rendering and RequestManager; the grammar is in MapCss.              *)
(***************************************************************************)
EXTENDS Integers, Sequences, FiniteSets

CONSTANTS
    Names,     \* the stylesheet names: stems of .mapcss files
    Hidden,    \* those that begin with a dot; one is ".fallback"
    Fallback,
    Absent,
    MaxEdits   \* bound: how often the files change

\* What a file holds, numbered by age.  A slow one takes longer than the timeout.
Kinds    == {"good", "bad", "slow"}
Versions == [age : 0..MaxEdits, kind : Kinds]

ASSUME StylesheetAssumption ==
    /\ Hidden \subseteq Names /\ Fallback \in Hidden
    /\ MaxEdits \in Nat
    /\ Absent \notin Names \cup Versions

BuiltIn  == [age |-> -1, kind |-> "good"]   \* makeFallbackStylesheet

VARIABLES
    files,    \* name -> the version in the folder, or Absent
    edits,    \* how often the files have changed
    history,  \* the kinds of changes there have been
    missed,   \* names whose last change the StylesheetManager does not see
    watching, \* the folder is watched
    events,   \* inotify's queue and dir_monitor_impl::events_
    main,     \* where the main thread is
    todo,     \* the files that the scan has yet to come to
    monitor,  \* the monitor operation: "none", "pending", "posted", "run", "end"
    ev,       \* the event it is for; type "aborted" when the monitor is closed
    service,  \* monitorService is not null
    load,     \* the running Load: who waits for it, what it reads
    late,     \* parsing threads that nobody waits for
    table,    \* parsedStylesheets
    ended     \* "no", or what terminated the process

fileVars    == <<files, edits, history, missed>>
monitorVars == <<watching, events, monitor, ev, service>>
vars == <<fileVars, monitorVars, main, todo, load, late, table, ended>>

Types == {"added", "removed", "modified", "renamed"}
Event(t, n) == [type |-> t, name |-> n]
NoEvent == Event("aborted", Absent)
\* by: who waits; read: the file that was opened last and what it held.
NoLoad == [by |-> "nobody", name |-> Absent, step |-> "none",
           read |-> [name |-> Absent, content |-> Absent]]
Source == load.read.content

Init ==
    /\ files \in [Names -> {Absent, [age |-> 0, kind |-> "good"]}]
    /\ edits = 0 /\ history = {} /\ missed = {}
    /\ watching = FALSE /\ events = << >>
    /\ main = "configure" /\ todo = {}
    /\ monitor = "none" /\ ev = NoEvent /\ service = TRUE
    /\ load = NoLoad /\ late = {}
    /\ table = [n \in Names |-> Absent]
    /\ ended = "no"

Up == ended = "no"
Loading == load.by # "nobody"
-----------------------------------------------------------------------------
(* Authors of stylesheets, and the operating system.                       *)

\* Whether a change of n now goes unseen: its file was listed or read already, and
\* the folder is not watched yet.
Unseen(n) ==
    /\ ~watching
    /\ main \in {"scan", "watch"}
    /\ n \notin todo
    /\ ~(load.name = n /\ load.step = "open")

Changed(n, content, what) ==
    /\ files' = [files EXCEPT ![n] = content]
    /\ edits' = edits + 1
    /\ history' = history \cup {what}
    /\ missed' = IF (what = "renamed" /\ watching) \/ Unseen(n)
                 THEN missed \cup {n} ELSE missed \ {n}
    /\ events' = IF watching THEN Append(events, Event(what, n)) ELSE events
    /\ UNCHANGED <<watching, main, todo, monitor, ev, service, load, late, table,
                   ended>>

CanEdit == Up /\ edits < MaxEdits
Fresh(kind) == [age |-> edits + 1, kind |-> kind]

\* A file that is created is empty at first, which is a good stylesheet.
CreateFile(n) ==
    CanEdit /\ files[n] = Absent /\ Changed(n, Fresh("good"), "added")
WriteFile(n) ==
    CanEdit /\ files[n] # Absent /\ \E k \in Kinds : Changed(n, Fresh(k), "modified")
DeleteFile(n) ==
    CanEdit /\ files[n] # Absent /\ Changed(n, Absent, "removed")
\* Another file is moved over it, or to where it was not.
ReplaceFile(n) ==
    CanEdit /\ Changed(n, Fresh("good"), "renamed")

\* Subdirectories are watched too, and their files are reported with their stem.
\* (A version of the folder's own file is not made by this.)
EditNested(n) ==
    /\ CanEdit /\ watching
    /\ \E t \in {"added", "removed"} :
         /\ events' = Append(events, Event(t, n))
         /\ missed' = IF t = "removed" THEN missed \cup {n} ELSE missed
    /\ edits' = edits + 1
    /\ history' = history \cup {"nested"}
    /\ UNCHANGED <<files, watching, main, todo, monitor, ev, service, load, late,
                   table, ended>>
-----------------------------------------------------------------------------
(* The main thread: Application::start to onRun.                           *)

MainGoto(from, to) == Up /\ main = from /\ main' = to

\* Options that do not parse, --help, or a configuration file that is not there.
Configure ==
    /\ MainGoto("configure", "diagnose") \/ MainGoto("configure", "exited")
    /\ UNCHANGED <<fileVars, monitorVars, todo, load, late, table, ended>>

\* startupDiagnostic: limits below their minimum, files that do not exist.
Diagnose ==
    /\ MainGoto("diagnose", "geodata") \/ MainGoto("diagnose", "exited")
    /\ UNCHANGED <<fileVars, monitorVars, todo, load, late, table, ended>>

LoadGeodata ==
    /\ MainGoto("geodata", "start") \/ MainGoto("geodata", "exited")
    /\ UNCHANGED <<fileVars, monitorVars, todo, load, late, table, ended>>

\* startStylesheetObserving.  The files are listed here at once.
StartScan ==
    /\ MainGoto("start", "scan")
    /\ table' = [table EXCEPT ![Fallback] = BuiltIn]
    /\ todo' = {n \in Names : files[n] # Absent}
    /\ UNCHANGED <<fileVars, monitorVars, load, late, ended>>

Begin(who, n) ==
    load' = [load EXCEPT !.by = who, !.name = n, !.step = "open"]

ScanAll(n) ==     \* mutant: what is listed is loaded, whatever it is
    /\ Up /\ main = "scan" /\ ~Loading /\ n \in Names
    /\ todo' = todo \ {n}
    /\ Begin("main", n)
    /\ UNCHANGED <<fileVars, monitorVars, main, late, table, ended>>
Scan(n) ==
    /\ Up /\ main = "scan" /\ ~Loading /\ n \in todo
    /\ todo' = todo \ {n}
    /\ IF files[n] # Absent THEN Begin("main", n) ELSE UNCHANGED load
    /\ UNCHANGED <<fileVars, monitorVars, main, late, table, ended>>

\* The write lock is kept until watching has begun.
ScanEndsEarly ==   \* mutant: the last file is not waited for
    /\ MainGoto("scan", "watch") /\ todo = {}
    /\ UNCHANGED <<fileVars, monitorVars, todo, load, late, table, ended>>
ScanEnds ==
    /\ MainGoto("scan", "watch") /\ ~Loading /\ todo = {}
    /\ UNCHANGED <<fileVars, monitorVars, todo, load, late, table, ended>>

Watch ==
    /\ MainGoto("watch", "listen")
    /\ watching' = TRUE
    /\ monitor' = "pending"
    /\ UNCHANGED <<fileVars, events, ev, service, todo, load, late, table, ended>>

\* listen returns after a signal, and RequestManager::stop.
ListenReturns ==
    /\ MainGoto("listen", "stop")
    /\ UNCHANGED <<fileVars, monitorVars, todo, load, late, table, ended>>

\* monitorService.reset(): the pointer is null from now on; destroy then wakes the
\* thread that waits for an event.
ResetMonitorUnwoken ==   \* mutant: run_ is not cleared, and nothing is notified
    /\ MainGoto("stop", "join")
    /\ service' = FALSE
    /\ UNCHANGED <<fileVars, watching, events, monitor, ev, todo, load, late, table,
                   ended>>
ResetMonitor ==
    /\ MainGoto("stop", "join")
    /\ service' = FALSE /\ watching' = FALSE /\ events' = << >>
    /\ UNCHANGED <<fileVars, monitor, ev, todo, load, late, table, ended>>

\* The StylesheetManager's io_service returns when no operation is left.
JoinMonitor ==
    /\ MainGoto("join", "exited") /\ monitor = "none"
    /\ UNCHANGED <<fileVars, monitorVars, todo, load, late, table, ended>>
-----------------------------------------------------------------------------
(* The monitor: popfront_event, PostAndWait and onFileSystemEvent.         *)

MonitorGoto(from, to) == Up /\ monitor = from /\ monitor' = to

PopEvent ==
    /\ MonitorGoto("pending", "posted")
    /\ IF ~watching
       THEN ev' = NoEvent /\ UNCHANGED events
       ELSE /\ events # << >>
            /\ ev' = Head(events)
            /\ events' = Tail(events)
    /\ UNCHANGED <<fileVars, watching, service, main, todo, load, late, table, ended>>

HandlerAborted ==
    /\ MonitorGoto("posted", "none") /\ ev.type = "aborted"
    /\ UNCHANGED <<fileVars, watching, events, ev, service, main, todo, load, late,
                   table, ended>>

ActedUpon == ev.name \notin Hidden /\ ev.type # "renamed"

HandlerIgnores ==
    /\ MonitorGoto("posted", "end") /\ ev.type # "aborted" /\ ~ActedUpon
    /\ UNCHANGED <<fileVars, watching, events, ev, service, main, todo, load, late,
                   table, ended>>

HandleRemoved ==
    /\ MonitorGoto("posted", "end") /\ ActedUpon /\ ev.type = "removed"
    /\ table' = [table EXCEPT ![ev.name] = Absent]
    /\ UNCHANGED <<fileVars, watching, events, ev, service, main, todo, load, late,
                   ended>>

\* The end of start keeps the lock that a handler waits for.
HandleChangedOnlyAdds ==   \* mutant: only new files are loaded
    /\ MonitorGoto("posted", IF ev.type = "added" THEN "run" ELSE "end")
    /\ ActedUpon /\ ev.type \in {"added", "modified"}
    /\ IF ev.type = "added" THEN Begin("monitor", ev.name) ELSE UNCHANGED load
    /\ UNCHANGED <<fileVars, watching, events, ev, service, main, todo, late, table,
                   ended>>
HandleChanged ==
    /\ MonitorGoto("posted", "run") /\ ActedUpon /\ ev.type \in {"added", "modified"}
    /\ table' = IF ev.type = "modified" THEN [table EXCEPT ![ev.name] = Absent]
                                        ELSE table
    /\ Begin("monitor", ev.name)
    /\ UNCHANGED <<fileVars, watching, events, ev, service, main, todo, late, ended>>

\* The handler's end: async_monitor on the pointer that stop may have reset.
MonitorAgain ==
    /\ IF service
       THEN MonitorGoto("end", "pending") /\ UNCHANGED ended
       ELSE Up /\ monitor = "end" /\ ended' = "no monitor" /\ UNCHANGED monitor
    /\ UNCHANGED <<fileVars, watching, events, ev, service, main, todo, load, late,
                   table>>
-----------------------------------------------------------------------------
(* Stylesheet::Load and the parsing thread, MapCssParser::load.            *)

\* The exception for a file that is not there leaves the thread: std::terminate.
OpenFile ==
    /\ Up /\ load.step = "open"
    /\ IF files[load.name] = Absent
       THEN ended' = "no file" /\ UNCHANGED load
       ELSE /\ load' = [load EXCEPT !.step = "parse",
                           !.read = [name |-> load.name, content |-> files[load.name]]]
            /\ UNCHANGED ended
    /\ UNCHANGED <<fileVars, monitorVars, main, todo, late, table>>

ParseEnds ==
    /\ Up /\ load.step = "parse" /\ Source.kind # "slow"
    /\ load' = [load EXCEPT !.step = "done"]
    /\ UNCHANGED <<fileVars, monitorVars, main, todo, late, table, ended>>

\* Load returns to onNewStylesheet, and that to the scan or the handler.
Return ==
    /\ load' = [NoLoad EXCEPT !.read = load.read]
    /\ monitor' = IF load.by = "monitor" THEN "end" ELSE monitor

\* A stylesheet that does not parse is logged and leaves the table as it is.
Loaded ==
    /\ Up /\ load.step = "done"
    /\ table' = IF Source.kind = "good" THEN [table EXCEPT ![load.name] = Source]
                                          ELSE table
    /\ Return
    /\ UNCHANGED <<fileVars, watching, events, ev, service, main, todo, late, ended>>

TimeoutNever ==   \* mutant: join instead of timed_join
    /\ FALSE /\ UNCHANGED vars
Timeout ==
    /\ Up /\ load.step = "parse" /\ Source.kind = "slow"
    /\ late' = late \cup {load.read}
    /\ Return
    /\ UNCHANGED <<fileVars, watching, events, ev, service, main, todo, table, ended>>

\* A late thread sets the stylesheet of its own parser, which nobody looks at.
LateEndsShared(l) ==   \* mutant: one parser, whose stylesheet the next Load takes
    /\ Up /\ l \in late
    /\ late' = late \ {l}
    /\ load' = IF load.step = "parse"
               THEN [load EXCEPT !.read.content = [l.content EXCEPT !.kind = "good"],
                                 !.step = "done"]
               ELSE load
    /\ UNCHANGED <<fileVars, monitorVars, main, todo, table, ended>>
LateEnds(l) ==
    /\ Up /\ l \in late
    /\ late' = late \ {l}
    /\ UNCHANGED <<fileVars, monitorVars, main, todo, load, table, ended>>
-----------------------------------------------------------------------------
Authors ==
    \E n \in Names : CreateFile(n) \/ WriteFile(n) \/ DeleteFile(n) \/ ReplaceFile(n)
                     \/ EditNested(n)

Main ==
    \/ Configure \/ Diagnose \/ LoadGeodata \/ StartScan \/ ScanEnds \/ Watch
    \/ ResetMonitor \/ JoinMonitor
    \/ \E n \in Names : Scan(n)

Monitor ==
    \/ PopEvent \/ HandlerAborted \/ HandlerIgnores \/ HandleRemoved \/ HandleChanged
    \/ MonitorAgain

Load == OpenFile \/ ParseEnds \/ Loaded \/ Timeout

Over == (~Up \/ main = "exited") /\ UNCHANGED vars

Next == Authors \/ Main \/ ListenReturns \/ Monitor \/ Load \/ Over
        \/ \E l \in late : LateEnds(l)

\* The process's threads run.  Authors and the operator's signal may never come, and a
\* late thread may never end.
Spec == Init /\ [][Next]_vars /\ WF_vars(Main) /\ WF_vars(Monitor) /\ WF_vars(Load)
-----------------------------------------------------------------------------
(* Properties.                                                             *)

\* The variables keep their types.  The parsing thread is waited for by the main thread
\* while it scans or by the handler while it runs, never by both: one write lock.
TypeOK ==
    /\ files \in [Names -> Versions \cup {Absent}]
    /\ table \in [Names -> Versions \cup {Absent, BuiltIn}]
    /\ \A i \in DOMAIN events : events[i] \in [type : Types, name : Names]
    /\ monitor \in {"none", "pending", "posted", "run", "end"}
    /\ load.by = "main" => main = "scan"
    /\ load.by = "monitor" <=> monitor = "run"
    /\ Loading <=> load.step # "none"
    /\ Loading => load.name \in Names

\* StylesheetManager keeps the promise of StylesheetTable: what enters the table is
\* what the running Load has read, never the result of one that came too late.
Promise == INSTANCE StylesheetTable
           WITH files <- files, table <- table,
                reader <- load.read
KeepsPromise == Promise!Spec

\* The process ends without being told to only for files that are deleted, or made in
\* subdirectories, while they are being loaded, and by the handler that is still running
\* when the monitor is closed.  Writing and replacing files is safe at any time.
DiesForCause ==
    /\ ended = "no file" => history \cap {"removed", "nested"} # {}
    /\ ended = "no monitor" => main = "join"

\* Workers that ask for a stylesheet wait while one is loaded; the timeout lets them go
\* on, whatever is in the file.
LockReleased == Loading ~> (~Loading \/ ~Up)

\* stopStylesheetObserving returns: the thread that waits for an event is woken.
StopEnds == main = "stop" ~> (main = "exited" \/ ~Up)

\* What tiles should be drawn with when the authors have finished.
Expected(n) ==
    IF files[n] # Absent /\ files[n].kind = "good" THEN files[n] ELSE Absent

\* When nothing is edited any more, the table has what is in the folder: for every name
\* whose last change was not a renaming, nor between the scan and the watch, nor the
\* removal of a file of the same name in a subdirectory.
Converges ==
    \A n \in Names \ Hidden :
        <>[](Up /\ main = "listen" /\ n \notin missed => table[n] = Expected(n))
=============================================================================
