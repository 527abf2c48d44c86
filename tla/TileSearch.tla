----------------------------- MODULE TileSearch -----------------------------
(***************************************************************************)
(* The objects of a tile, from the entities of a document to what a job    *)
(* finds: the importer parses the entities, builds the indices and saves   *)
(* them to a file; the server loads the file; and when a request has named *)
(* its tile, the job looks up what is on the tile's meta tile.             *)
(*                                                                         *)
(* It has its turns in MapPipeline, among those of TileRequest and before  *)
(* those of the stylesheet and the renderer.                               *)
(***************************************************************************)
EXTENDS TileRequest, OsmImport, GeoStore

ASSUME DocumentAssumption ==
    \A s \in Scenarios : \A i \in DOMAIN s.doc : IsEntity(s.doc[i])

VARIABLES
    parser,   \* the importer
    archive,  \* the file of the geodata
    data,     \* Geodata of the server
    found     \* the ids that the job has found

searched == <<parser, archive, data, found>>

MI == INSTANCE MetaTiles WITH MetaSize <- MetaTileLength, Styles <- {}, Formats <- {}

\* The meta tile of the tile, as a Job has it, and the rectangle it asks for.
MetaOfTile(t) ==
    LET m == MI!MetaOf([x |-> t.x, y |-> t.y, z |-> t.zoom, style |-> t.style,
                        fmt |-> t.format])
    IN  [x |-> m.x, y |-> m.y, zoom |-> m.z, width |-> MI!Width(m), height |-> MI!Height(m)]
Meta == MetaOfTile(tile)
JobRect(meta) == computeRect(meta.x, meta.y, meta.width, meta.height, meta.zoom)

NothingFound == [nodes |-> << >>, ways |-> << >>, relations |-> << >>]
Look(geodata, rect) == [o \in DOMAIN NothingFound |-> getIDs(geodata, o, rect)]

NothingLoaded == parser = EmptyParser /\ archive = << >> /\ data = << >> /\ found = NothingFound

\* parseEntities, one of them.
Imports(entity) ==
    /\ stage = "import"
    /\ parser' = ParseEntity(parser, entity, sc.bounds, sc.check)
    /\ TurnOf("import", IF parser'.error = "none" THEN "import" ELSE "import failed")
    /\ UNCHANGED <<archive, data, found>>

\* AlacarteImporterApp::onRun, after the import.
SaveObjects ==
    /\ TurnOf("import", "load")
    /\ archive' = save([nodes |-> parser.nodes, ways |-> parser.ways,
                        relations |-> parser.relations])
    /\ at' = 0
    /\ UNCHANGED <<parser, data, found>>

\* AlacarteServerApp::onRun.
LoadObjects ==
    /\ TurnOf("load", "parse sheet")
    /\ data' = load(archive)
    /\ UNCHANGED <<at, parser, archive, found>>

\* Job::process, up to the match.
FindObjects ==
    /\ TurnOf("query", IF containsData(data, JobRect(Meta)) THEN "match" ELSE "empty")
    /\ found' = IF containsData(data, JobRect(Meta)) THEN Look(data, JobRect(Meta))
                                                     ELSE NothingFound
    /\ at' = 0
    /\ UNCHANGED <<parser, archive, data>>

\* The turns of the others: the importer between two entities, when the text is refused, or
\* the xml parser does not come back; ...
ReadsText ==
    /\ \/ \E next \in {"import", "hangs"} : TurnOf("import", next) /\ UNCHANGED parser
       \/ TurnOf("import", "import failed") /\ parser' = Throw(parser, "InputFormatException")
    /\ UNCHANGED <<archive, data, found>>
\* ... the stylesheet; ...
ReadsSheet ==
    /\ \E next \in {"read", "no sheet", "killed"} : TurnOf("parse sheet", next)
    /\ UNCHANGED <<at, searched>>
\* ... the request; ...
ReadsRequest == (ReadPiece \/ Quiet \/ IdentifyTile) /\ UNCHANGED searched
\* ... and the renderer, which has the job's objects from the match on.
RenderStages == JobStages \ {"query", "empty"}
Renders ==
    /\ \E now, next \in RenderStages : TurnOf(now, next)
    /\ UNCHANGED searched

SearchNext ==
    \/ \E entity : IsEntity(entity) /\ Imports(entity)
    \/ SaveObjects \/ LoadObjects \/ FindObjects
    \/ ReadsText \/ ReadsSheet \/ ReadsRequest \/ Renders
SearchSpec ==
    /\ \E scenario \in Scenarios : BeginsWith(scenario)
    /\ NothingLoaded
    /\ [][SearchNext]_<<turn, asked, searched>>
-----------------------------------------------------------------------------
\* The objects a job finds are those that touch its rectangle, each once, and the tile is
\* taken for empty when there are none.
SearchExact ==
    /\ stage = "match" /\ at = 0 =>
         \A o \in DOMAIN found :
           /\ ToSet(found[o]) = Touching(data.objects, o, JobRect(Meta))
           /\ Len(found[o]) = Cardinality(ToSet(found[o]))
    /\ stage \in {"match", "empty"} =>
         (stage = "empty" <=> \A o \in DOMAIN NothingFound :
                                Touching(data.objects, o, JobRect(Meta)) = {})
=============================================================================
