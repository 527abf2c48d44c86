----------------------- MODULE StylesheetLoadingProofs -----------------------
(***************************************************************************)
(* Theorems about StylesheetLoading for any set of stylesheets and any     *)
(* number of edits: the types, the refinement of StylesheetTable, and what *)
(* may end the process.                                                    *)
(*                                                                         *)
(* TypeOK is not inductive: that there is one load at a time rests on when *)
(* each thread runs, and what is installed on what the load has read.      *)
(***************************************************************************)
EXTENDS StylesheetLoading, TLAPS

MainSteps == {"configure", "diagnose", "geodata", "start", "scan", "watch", "listen",
              "stop", "join", "exited"}
Events == [type : Types, name : Names]
Readers == [name : Names, content : Versions]

\* The types that TypeOK leaves out.
Typed ==
    /\ edits \in 0..MaxEdits
    /\ history \in SUBSET (Types \cup {"nested"})
    /\ events \in Seq(Events)
    /\ ev \in Events \cup {NoEvent}
    /\ main \in MainSteps
    /\ todo \in SUBSET Names
    /\ watching \in BOOLEAN
    /\ service \in BOOLEAN
    /\ load \in [by : {"nobody", "main", "monitor"}, name : Names \cup {Absent},
                 step : {"none", "open", "parse", "done"},
                 read : Readers \cup {NoLoad.read}]
    /\ late \in SUBSET Readers

\* The monitor has an operation only after the scan and before the end, and the pointer to
\* it is null only then.  A load that has opened its file has read that file.
Control ==
    /\ monitor # "none" => main \in {"listen", "stop", "join"}
    /\ ~service => main \in {"join", "exited"}
    /\ monitor = "run" => ev \in Events
    /\ load.step \in {"parse", "done"} => load.read \in Readers /\ load.read.name = load.name

\* As long as no file was removed, those that are reported or loaded are there.
FilesStay ==
    history \cap {"removed", "nested"} = {} =>
      /\ \A i \in DOMAIN events : files[events[i].name] # Absent
      /\ monitor = "posted" /\ ev \in Events => files[ev.name] # Absent
      /\ load.step = "open" => files[load.name] # Absent

IInv == TypeOK /\ Typed /\ Control /\ FilesStay /\ DiesForCause
-----------------------------------------------------------------------------
(* Edits.                                                                  *)

\* An edit writes a version.
LEMMA FreshVersion ==
    ASSUME NEW kind \in Kinds, edits \in 0..MaxEdits, edits < MaxEdits
    PROVE  Fresh(kind) \in Versions /\ edits + 1 \in 0..MaxEdits
BY StylesheetAssumption DEF Fresh, Versions


\* An edit of a file, with the event the directory monitor queues for it.
LEMMA ChangedStep ==
    ASSUME IInv, NEW n \in Names, NEW content \in Versions \cup {Absent}, NEW what \in Types,
           CanEdit, Changed(n, content, what), content = Absent <=> what = "removed"
    PROVE  IInv'
<1>1. edits' \in 0..MaxEdits
  BY StylesheetAssumption DEF IInv, Typed, CanEdit, Changed
<1>2. Event(what, n) \in Events
  BY DEF Event, Events
<1>3. events' \in Seq(Events)
  BY <1>2 DEF IInv, Typed, Changed
<1>4. TypeOK'
  <2>1. files' \in [Names -> Versions \cup {Absent}]
    BY DEF IInv, TypeOK, Changed
  <2>2. \A i \in DOMAIN events' : events'[i] \in Events
    BY <1>3
  <2> QED
    BY <2>1, <2>2 DEF IInv, TypeOK, Changed, Loading, Events
<1>5. Typed'
  BY <1>1, <1>3 DEF IInv, Typed, Changed
<1>6. Control'
  BY DEF IInv, Control, Changed
<1>7. FilesStay'
  <2> SUFFICES ASSUME history' \cap {"removed", "nested"} = {}
               PROVE  /\ \A i \in DOMAIN events' : files'[events'[i].name] # Absent
                      /\ monitor' = "posted" /\ ev' \in Events => files'[ev'.name] # Absent
                      /\ load'.step = "open" => files'[load'.name] # Absent
    BY DEF FilesStay
  <2>1. history \cap {"removed", "nested"} = {} /\ what # "removed"
    BY DEF Changed
  <2>2. \A m \in Names : files[m] # Absent => files'[m] # Absent
    BY <2>1 DEF IInv, TypeOK, Changed
  <2>3. files'[n] # Absent
    BY <2>1 DEF IInv, TypeOK, Changed
  <2>4. \A i \in DOMAIN events' : files'[events'[i].name] # Absent
    <3>1. \A i \in DOMAIN events : events[i].name \in Names /\ files[events[i].name] # Absent
      BY <2>1 DEF IInv, FilesStay, TypeOK
    <3>2. CASE ~watching
      BY <3>1, <3>2, <2>2 DEF Changed
    <3>3. CASE watching
      BY <3>1, <3>3, <2>2, <2>3 DEF IInv, Typed, Changed, Event
    <3> QED
      BY <3>2, <3>3
  <2>5. monitor' = "posted" /\ ev' \in Events => files'[ev'.name] # Absent
    BY <2>1, <2>2 DEF IInv, FilesStay, Changed, Events
  <2>6. load'.step = "open" => files'[load'.name] # Absent
    BY <2>1, <2>2 DEF IInv, FilesStay, TypeOK, Loading, Changed
  <2> QED
    BY <2>4, <2>5, <2>6
<1>8. DiesForCause'
  BY DEF IInv, DiesForCause, Changed
<1> QED
  BY <1>4, <1>5, <1>6, <1>7, <1>8 DEF IInv

\* Whatever is done to the folder.
LEMMA AuthorsStep ==
    ASSUME IInv, Authors
    PROVE  IInv'
<1> PICK n \in Names : \/ CreateFile(n) \/ WriteFile(n) \/ DeleteFile(n) \/ ReplaceFile(n)
                       \/ EditNested(n)
  BY DEF Authors
<1>1. CASE CreateFile(n)
  BY <1>1, FreshVersion, ChangedStep, StylesheetAssumption
     DEF CreateFile, Kinds, Types, CanEdit, IInv, Typed
<1>2. CASE WriteFile(n)
  BY <1>2, FreshVersion, ChangedStep, StylesheetAssumption
     DEF WriteFile, Kinds, Types, CanEdit, IInv, Typed
<1>3. CASE DeleteFile(n)
  BY <1>3, ChangedStep DEF DeleteFile, Types
<1>4. CASE ReplaceFile(n)
  BY <1>4, FreshVersion, ChangedStep, StylesheetAssumption
     DEF ReplaceFile, Kinds, Types, CanEdit, IInv, Typed
<1>5. CASE EditNested(n)
  <2>1. PICK t \in {"added", "removed"} : events' = Append(events, Event(t, n))
    BY <1>5 DEF EditNested
  <2>2. events' \in Seq(Events)
    BY <2>1 DEF Event, Events, Types, IInv, Typed
  <2>3. edits' \in 0..MaxEdits
    BY <1>5, StylesheetAssumption DEF EditNested, CanEdit, IInv, Typed
  <2>4. TypeOK'
    BY <1>5, <2>2 DEF EditNested, IInv, TypeOK, Events, Loading
  <2>5. Typed'
    BY <1>5, <2>2, <2>3 DEF EditNested, IInv, Typed
  <2>6. Control' /\ FilesStay' /\ DiesForCause'
    BY <1>5 DEF EditNested, IInv, Control, FilesStay, DiesForCause
  <2> QED
    BY <2>4, <2>5, <2>6 DEF IInv
<1> QED
  BY <1>1, <1>2, <1>3, <1>4, <1>5
-----------------------------------------------------------------------------
(* The threads of the process.                                             *)

\* What main does, up to the end of the first scan.
LEMMA MainStep ==
    ASSUME IInv, Main
    PROVE  IInv'
<1>1. CASE Configure \/ Diagnose \/ LoadGeodata \/ ScanEnds
  BY <1>1 DEF Configure, Diagnose, LoadGeodata, ScanEnds, MainGoto, Up, Loading, fileVars,
              monitorVars, IInv, TypeOK, Typed, Control, FilesStay, DiesForCause, MainSteps
<1>2. CASE StartScan
  <2>1. table' \in [Names -> Versions \cup {Absent, BuiltIn}]
    BY <1>2 DEF StartScan, IInv, TypeOK
  <2>2. monitor = "none" /\ load.by # "main" /\ todo' \in SUBSET Names
    BY <1>2 DEF StartScan, MainGoto, IInv, TypeOK, Control
  <2> QED
    BY <1>2, <2>1, <2>2 DEF StartScan, MainGoto, Up, Loading, fileVars, monitorVars, IInv,
              TypeOK, Typed, Control, FilesStay, DiesForCause, MainSteps
<1>3. CASE \E n \in Names : Scan(n)
  <2> PICK n \in Names : Scan(n)
    BY <1>3
  <2>1. UNCHANGED <<fileVars, monitorVars, main, late, table, ended>> /\ todo' \in SUBSET Names
    BY DEF Scan, IInv, Typed
  <2>2. CASE load' = load
    BY <2>1, <2>2, ZenonT(40) DEF fileVars, monitorVars, IInv, TypeOK, Typed, Control,
                      FilesStay, DiesForCause, Loading
  <2>3. CASE Begin("main", n) /\ files[n] # Absent
    <3>1. /\ load'.by = "main" /\ load'.name = n /\ load'.step = "open"
          /\ load'.read = load.read
          /\ load' \in [by : {"nobody", "main", "monitor"}, name : Names \cup {Absent},
                        step : {"none", "open", "parse", "done"},
                        read : Readers \cup {NoLoad.read}]
      BY <2>3 DEF Begin, IInv, Typed
    <3>2. main = "scan" /\ monitor # "run"
      BY DEF Scan, IInv, Control
    <3> QED
      BY <2>1, <2>3, <3>1, <3>2 DEF fileVars, monitorVars, IInv, TypeOK, Typed, Control,
                      FilesStay, DiesForCause, Loading
  <2> QED
    BY <2>2, <2>3 DEF Scan
<1>4. CASE Watch
  BY <1>4 DEF Watch, MainGoto, Up, Loading, fileVars, IInv, TypeOK, Typed, Control, FilesStay,
              DiesForCause, MainSteps
<1>5. CASE ResetMonitor
  <2>1. events' \in Seq(Events) /\ DOMAIN events' = {}
    BY <1>5 DEF ResetMonitor
  <2> QED
    BY <1>5, <2>1 DEF ResetMonitor, MainGoto, Up, Loading, fileVars, IInv, TypeOK, Typed,
              Control, FilesStay, DiesForCause, MainSteps
<1>6. CASE JoinMonitor
  BY <1>6 DEF JoinMonitor, MainGoto, Up, Loading, fileVars, monitorVars, IInv, TypeOK, Typed,
              Control, FilesStay, DiesForCause, MainSteps
<1> QED
  BY <1>1, <1>2, <1>3, <1>4, <1>5, <1>6 DEF Main

\* What the monitor thread does with an event.
LEMMA MonitorStep ==
    ASSUME IInv, Monitor
    PROVE  IInv'
<1>1. CASE PopEvent
  <2>1. CASE ~watching
    BY <1>1, <2>1 DEF PopEvent, MonitorGoto, Up, Loading, fileVars, IInv, TypeOK, Typed,
              Control, FilesStay, DiesForCause, NoEvent, Event, Events, Types
  <2>2. CASE watching
    <3>1. events # << >> /\ ev' = events[1] /\ events' = Tail(events)
      BY <1>1, <2>2 DEF PopEvent
    <3>2. /\ 1 \in DOMAIN events /\ ev' \in Events /\ events' \in Seq(Events)
          /\ \A i \in DOMAIN events' : i + 1 \in DOMAIN events /\ events'[i] = events[i + 1]
      BY <3>1 DEF IInv, Typed
    <3>3. \A i \in DOMAIN events' : events'[i] \in Events
      BY <3>2
    <3>4. TypeOK' /\ Typed' /\ Control' /\ DiesForCause'
      BY <1>1, <3>2, <3>3 DEF PopEvent, MonitorGoto, Up, Loading, fileVars, IInv, TypeOK,
              Typed, Control, DiesForCause, Events
    <3>5. FilesStay'
      BY <1>1, <3>1, <3>2 DEF PopEvent, MonitorGoto, fileVars, IInv, FilesStay
    <3> QED
      BY <3>4, <3>5 DEF IInv
  <2> QED
    BY <2>1, <2>2 DEF IInv, Typed
<1>2. CASE HandlerAborted \/ HandlerIgnores
  BY <1>2 DEF HandlerAborted, HandlerIgnores, MonitorGoto, Up, Loading, fileVars, IInv,
              TypeOK, Typed, Control, FilesStay, DiesForCause
<1>3. CASE HandleRemoved
  <2>1. table' \in [Names -> Versions \cup {Absent, BuiltIn}]
    BY <1>3 DEF HandleRemoved, IInv, TypeOK
  <2> QED
    BY <1>3, <2>1 DEF HandleRemoved, MonitorGoto, Up, Loading, fileVars, IInv, TypeOK, Typed,
              Control, FilesStay, DiesForCause
<1>4. CASE HandleChanged
  <2>1. table' \in [Names -> Versions \cup {Absent, BuiltIn}]
    BY <1>4 DEF HandleChanged, IInv, TypeOK
  <2>2. ev \in Events /\ ev.name \in Names
    BY <1>4 DEF HandleChanged, IInv, Typed, NoEvent, Event, Events
  <2>3. /\ load'.by = "monitor" /\ load'.name = ev.name /\ load'.step = "open"
        /\ load' \in [by : {"nobody", "main", "monitor"}, name : Names \cup {Absent},
                      step : {"none", "open", "parse", "done"},
                      read : Readers \cup {NoLoad.read}]
    BY <1>4, <2>2 DEF HandleChanged, Begin, IInv, Typed
  <2>4. load.by # "main"
    BY <1>4 DEF HandleChanged, MonitorGoto, IInv, TypeOK, Control
  <2> QED
    BY <1>4, <2>1, <2>2, <2>3, <2>4 DEF HandleChanged, MonitorGoto, Up, Loading, fileVars,
              IInv, TypeOK, Typed, Control, FilesStay, DiesForCause
<1>5. CASE MonitorAgain
  BY <1>5 DEF MonitorAgain, MonitorGoto, Up, Loading, fileVars, IInv, TypeOK, Typed, Control,
              FilesStay, DiesForCause
<1> QED
  BY <1>1, <1>2, <1>3, <1>4, <1>5 DEF Monitor

\* The end of a load leaves what was read, and lets the handler go on.
LEMMA Returns ==
    ASSUME IInv, Return, Loading
    PROVE  /\ load'.by = "nobody" /\ load'.step = "none" /\ load'.read = load.read
           /\ load' \in [by : {"nobody", "main", "monitor"}, name : Names \cup {Absent},
                         step : {"none", "open", "parse", "done"},
                         read : Readers \cup {NoLoad.read}]
           /\ monitor' # "run" /\ monitor' \in {"none", "pending", "posted", "run", "end"}
           /\ monitor' = "none" <=> monitor = "none"
           /\ monitor' = "posted" <=> monitor = "posted"
BY DEF Return, IInv, TypeOK, Typed, NoLoad, Loading

\* A load, by either thread, from opening the file to its result.
LEMMA LoadStep ==
    ASSUME IInv, Load
    PROVE  IInv'
<1>1. CASE OpenFile
  <2>1. Loading /\ load.name \in Names
    BY <1>1 DEF OpenFile, IInv, TypeOK
  <2>2. CASE files[load.name] = Absent
    BY <1>1, <2>1, <2>2 DEF OpenFile, Up, Loading, fileVars, monitorVars, IInv, TypeOK, Typed,
              Control, FilesStay, DiesForCause
  <2>3. CASE files[load.name] # Absent
    <3>1. files[load.name] \in Versions
      BY <2>1, <2>3 DEF IInv, TypeOK
    <3>2. /\ load'.by = load.by /\ load'.name = load.name /\ load'.step = "parse"
          /\ load'.read \in Readers /\ load'.read.name = load.name
          /\ load' \in [by : {"nobody", "main", "monitor"}, name : Names \cup {Absent},
                        step : {"none", "open", "parse", "done"},
                        read : Readers \cup {NoLoad.read}]
      <4>1. load' = [load EXCEPT !.step = "parse",
                       !.read = [name |-> load.name, content |-> files[load.name]]]
        BY <1>1, <2>3 DEF OpenFile
      <4>2. [name |-> load.name, content |-> files[load.name]] \in Readers
        BY <2>1, <3>1 DEF Readers
      <4> QED
        BY <4>1, <4>2 DEF IInv, Typed
    <3> QED
      BY <1>1, <2>1, <2>3, <3>2 DEF OpenFile, Up, Loading, fileVars, monitorVars, IInv, TypeOK,
              Typed, Control, FilesStay, DiesForCause
  <2> QED
    BY <2>2, <2>3
<1>2. CASE ParseEnds
  <2>1. /\ load'.by = load.by /\ load'.name = load.name /\ load'.step = "done"
        /\ load'.read = load.read
        /\ load' \in [by : {"nobody", "main", "monitor"}, name : Names \cup {Absent},
                      step : {"none", "open", "parse", "done"},
                      read : Readers \cup {NoLoad.read}]
    BY <1>2 DEF ParseEnds, IInv, Typed
  <2> QED
    BY <1>2, <2>1 DEF ParseEnds, Up, Loading, fileVars, monitorVars, IInv, TypeOK, Typed,
              Control, FilesStay, DiesForCause
<1>3. CASE Loaded
  <2>1. Loading /\ load.read \in Readers
    BY <1>3 DEF Loaded, IInv, TypeOK, Control
  <2>2. table' \in [Names -> Versions \cup {Absent, BuiltIn}]
    BY <1>3, <2>1 DEF Loaded, Source, Readers, IInv, TypeOK
  <2> QED
    BY <1>3, <2>1, <2>2, Returns DEF Loaded, Up, Loading, fileVars, IInv, TypeOK, Typed,
              Control, FilesStay, DiesForCause
<1>4. CASE Timeout
  <2>1. Loading /\ load.read \in Readers
    BY <1>4 DEF Timeout, IInv, TypeOK, Control
  <2> QED
    BY <1>4, <2>1, Returns DEF Timeout, Up, Loading, fileVars, IInv, TypeOK, Typed, Control,
              FilesStay, DiesForCause
<1> QED
  BY <1>1, <1>2, <1>3, <1>4 DEF Load

\* The end of a late load, of the monitor, and stuttering.
LEMMA OtherSteps ==
    ASSUME IInv, UNCHANGED vars \/ ListenReturns \/ \E l \in late : LateEnds(l)
    PROVE  IInv'
<1>1. CASE UNCHANGED vars
  BY <1>1, ZenonT(40) DEF vars, Loading, fileVars, monitorVars, IInv, TypeOK, Typed, Control,
              FilesStay, DiesForCause
<1>2. CASE ListenReturns
  BY <1>2 DEF ListenReturns, MainGoto, Up, Loading, fileVars, monitorVars, IInv, TypeOK,
              Typed, Control, FilesStay, DiesForCause, MainSteps
<1>3. CASE \E l \in late : LateEnds(l)
  <2>1. late' \in SUBSET Readers /\ UNCHANGED <<fileVars, monitorVars, main, todo, load, table,
                                                ended>>
    BY <1>3 DEF LateEnds, IInv, Typed
  <2> QED
    BY <2>1, ZenonT(40) DEF Loading, fileVars, monitorVars, IInv, TypeOK, Typed, Control,
                FilesStay, DiesForCause
<1> QED
  BY <1>1, <1>2, <1>3
-----------------------------------------------------------------------------
\* The initial state.
LEMMA Initially == Init => IInv
<1> SUFFICES ASSUME Init PROVE IInv
  OBVIOUS
<1>1. [age |-> 0, kind |-> "good"] \in Versions
  BY StylesheetAssumption DEF Versions, Kinds
<1>2. TypeOK
  BY <1>1 DEF Init, TypeOK, NoLoad, Loading
<1>3. Typed
  <2>1. NoLoad \in [by : {"nobody", "main", "monitor"}, name : Names \cup {Absent},
                    step : {"none", "open", "parse", "done"}, read : Readers \cup {NoLoad.read}]
    BY DEF NoLoad
  <2>2. events \in Seq(Events) /\ late \in SUBSET Readers /\ todo \in SUBSET Names
    BY DEF Init
  <2>3. edits \in 0..MaxEdits /\ history \in SUBSET (Types \cup {"nested"})
    BY StylesheetAssumption DEF Init
  <2>4. main \in MainSteps /\ watching \in BOOLEAN /\ service \in BOOLEAN
    BY DEF Init, MainSteps
  <2>5. ev \in Events \cup {NoEvent} /\ load = NoLoad
    BY DEF Init
  <2> QED
    BY <2>1, <2>2, <2>3, <2>4, <2>5 DEF Typed
<1> QED
  BY <1>2, <1>3 DEF Init, IInv, Control, FilesStay, DiesForCause, NoLoad

\* The strengthened invariant holds throughout.
THEOREM Invariance == Spec => []IInv
<1>1. IInv /\ [Next]_vars => IInv'
  BY AuthorsStep, MainStep, MonitorStep, LoadStep, OtherSteps DEF Next, Over
<1> QED
  BY Initially, <1>1, PTL DEF Spec

\* There is one load at a time, of the main thread while it scans or of the handler.
THEOREM TypeCorrect == Spec => []TypeOK
<1>1. IInv => TypeOK
  BY DEF IInv
<1> QED
  BY Invariance, <1>1, PTL

\* Only files that are removed or nested, and the monitor's reset, end the process.
THEOREM DeathHasCause == Spec => []DiesForCause
<1>1. IInv => DiesForCause
  BY DEF IInv
<1> QED
  BY Invariance, <1>1, PTL
-----------------------------------------------------------------------------
(* StylesheetLoading implements StylesheetTable: each step is one of the   *)
(* table's or leaves all of it alone.                                      *)

tableVars == <<files, load.read, table>>

\* The initial state is one of the table.
LEMMA InitialTable == Init => Promise!Init
BY DEF Init, Promise!Init, NoLoad

\* An edit is one of the table, too, or none of its steps.
LEMMA AuthorsEdit ==
    ASSUME Authors
    PROVE  Promise!Edit \/ UNCHANGED tableVars
BY DEF Authors, CreateFile, WriteFile, DeleteFile, ReplaceFile, EditNested, Changed,
       Promise!Edit, tableVars

\* What main does to the table.
LEMMA MainKeepsPromise ==
    ASSUME IInv, Main
    PROVE  Promise!Provide \/ UNCHANGED tableVars
<1>1. CASE StartScan
  BY <1>1 DEF StartScan, fileVars, Promise!Provide
<1>2. CASE \E n \in Names : Scan(n)
  BY <1>2 DEF Scan, Begin, fileVars, tableVars, IInv, Typed
<1> QED
  BY <1>1, <1>2 DEF Main, Configure, Diagnose, LoadGeodata, ScanEnds, Watch, ResetMonitor,
                    JoinMonitor, fileVars, tableVars

\* What an event does to the table.
LEMMA MonitorKeepsPromise ==
    ASSUME IInv, Monitor
    PROVE  (\E n \in Names : Promise!Drop(n)) \/ UNCHANGED tableVars
<1>1. CASE HandleRemoved \/ HandleChanged
  <2>1. ev.name \in Names
    BY <1>1 DEF HandleRemoved, HandleChanged, IInv, Typed, NoEvent, Event, Events
  <2>2. UNCHANGED files /\ load'.read = load.read
    BY <1>1 DEF HandleRemoved, HandleChanged, Begin, fileVars, IInv, Typed
  <2>3. table' = [table EXCEPT ![ev.name] = Absent] \/ UNCHANGED table
    BY <1>1 DEF HandleRemoved, HandleChanged
  <2> QED
    BY <2>1, <2>2, <2>3 DEF Promise!Drop, tableVars
<1> QED
  BY <1>1 DEF Monitor, PopEvent, HandlerAborted, HandlerIgnores, MonitorAgain, fileVars,
              tableVars

\* What a load does to the table.
LEMMA LoadKeepsPromise ==
    ASSUME IInv, Load
    PROVE  (\E n \in Names : Promise!Open(n)) \/ Promise!Install \/ UNCHANGED tableVars
<1>1. CASE OpenFile
  <2>1. load.name \in Names
    BY <1>1 DEF OpenFile, IInv, TypeOK
  <2>2. UNCHANGED <<files, table>>
    BY <1>1 DEF OpenFile, fileVars
  <2>3. CASE files[load.name] = Absent
    BY <1>1, <2>2, <2>3 DEF OpenFile, tableVars
  <2>4. CASE files[load.name] # Absent
    <3>1. load'.read = [name |-> load.name, content |-> files[load.name]]
      BY <1>1, <2>4 DEF OpenFile, IInv, Typed
    <3> QED
      BY <2>1, <2>2, <2>4, <3>1 DEF Promise!Open
  <2> QED
    BY <2>3, <2>4
<1>2. CASE ParseEnds
  BY <1>2 DEF ParseEnds, fileVars, tableVars, IInv, Typed
<1>3. CASE Loaded
  <2>1. load.read \in Readers /\ load.read.name = load.name
    BY <1>3 DEF Loaded, IInv, Control
  <2>2. load.read.name # Absent
    BY <2>1, StylesheetAssumption DEF Readers
  <2>3. UNCHANGED files /\ load'.read = load.read
    BY <1>3 DEF Loaded, Return, NoLoad, fileVars
  <2> QED
    BY <1>3, <2>1, <2>2, <2>3 DEF Loaded, Source, Promise!Install, tableVars
<1>4. CASE Timeout
  BY <1>4 DEF Timeout, Return, NoLoad, fileVars, tableVars
<1> QED
  BY <1>1, <1>2, <1>3, <1>4 DEF Load

\* What enters the table is what its file held when the running load opened it.
THEOREM ImplementsTable == Spec => KeepsPromise
<1>1. IInv /\ [Next]_vars => [Promise!Next]_tableVars
  <2> SUFFICES ASSUME IInv, Next \/ UNCHANGED vars
               PROVE  Promise!Next \/ UNCHANGED tableVars
    BY DEF tableVars
  <2>1. CASE UNCHANGED vars \/ Over \/ ListenReturns \/ \E l \in late : LateEnds(l)
    BY <2>1 DEF vars, Over, ListenReturns, LateEnds, fileVars, tableVars
  <2> QED
    BY <2>1, AuthorsEdit, MainKeepsPromise, MonitorKeepsPromise, LoadKeepsPromise
       DEF Next, Promise!Next
<1> QED
  BY <1>1, InitialTable, Invariance, PTL DEF Spec, KeepsPromise, Promise!Spec, tableVars
=============================================================================
