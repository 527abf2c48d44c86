----------------------------- MODULE TileRequest -----------------------------
(***************************************************************************)
(* A request, from its first character to the tile that its url names:     *)
(* HttpRequest reads what the network delivers into its parser, and when   *)
(* the request is whole, TileIdentifier::Create reads the url.             *)
(*                                                                         *)
(* It has its turn in MapPipeline, after the import and the load of the    *)
(* geodata and the stylesheet, and before the job that renders.            *)
(***************************************************************************)
EXTENDS RequestParser, TileUrl

CONSTANT Scenarios

ASSUME ScenarioAssumption ==
    \A s \in Scenarios : /\ s.pieces \in Seq(Seq(Chars))
                         /\ s.url \in Seq(Seq(Seq(STRING)))

VARIABLES
    sc,       \* the scenario
    stage,    \* what comes next
    at,       \* how much of the document, of the request, of the rules or tiles is done
    http,     \* the parser of the request
    tile      \* the tile that the url names

turn  == <<sc, stage, at>>
asked == <<http, tile>>

Stages == {"import", "load", "parse sheet", "read", "identify", "query", "match", "finish",
           "draw", "write", "slice", "sent", "empty", "refused", "unanswered",
           "import failed", "hangs", "no sheet", "killed"}

BeginsWith(scenario) ==
    /\ sc = scenario
    /\ stage = "import" /\ at = 0
    /\ http = Start /\ tile = << >>

\* The turn of another part goes on, or is over.
TurnOf(now, next) == stage = now /\ stage' = next /\ UNCHANGED <<sc, asked>>

\* HttpRequest::handleRead.
ReadPiece ==
    /\ stage = "read" /\ at < Len(sc.pieces)
    /\ http' = Parse(http, sc.pieces[at + 1])
    /\ stage' = CASE http'.state = "true"  -> "identify"
                  [] http'.state = "false" -> "refused"
                  [] OTHER -> stage
    /\ at' = at + 1
    /\ UNCHANGED <<sc, tile>>

\* No more comes, and the client waits for nothing.
Quiet ==
    /\ stage = "read" /\ at = Len(sc.pieces)
    /\ stage' = "unanswered"
    /\ UNCHANGED <<sc, at, asked>>

\* RequestManager::enqueue, TileIdentifier::Create.
IdentifyTile ==
    /\ stage = "identify"
    /\ LET made == Create(sc.url, sc.styles, sc.default)
       IN  IF made \in UrlErrors THEN stage' = "refused" /\ UNCHANGED tile
           ELSE stage' = "query" /\ tile' = made
    /\ UNCHANGED <<sc, at, http>>

\* The turns of the others: the importer and the start of the server, which come first, ...
Prepared == {"import", "load", "import failed", "hangs"}
Prepares ==
    \/ \E next \in Prepared : TurnOf("import", next) /\ (next = "load" => at' = 0)
    \/ TurnOf("load", "parse sheet") /\ UNCHANGED at
    \/ \E next \in {"read", "no sheet", "killed"} : TurnOf("parse sheet", next) /\ UNCHANGED at
\* ... and the job that the tile is for.
JobStages == {"query", "match", "finish", "draw", "write", "slice", "sent", "empty"}
JobGoesOn == \E now, next \in JobStages : TurnOf(now, next)

RequestNext == Prepares \/ ReadPiece \/ Quiet \/ IdentifyTile \/ JobGoesOn
RequestSpec ==
    (\E scenario \in Scenarios : BeginsWith(scenario)) /\ [][RequestNext]_<<turn, asked>>
-----------------------------------------------------------------------------
\* However a request is cut into pieces, it is read as one when it begins with one, and
\* refused only when it does not.
ParsesRequests ==
    stage \in {"read", "identify", "unanswered"} \/ (stage = "refused" /\ tile = << >>) =>
      LET sofar == FlattenSeq(SubSeq(sc.pieces, 1, at))
      IN  /\ http.state = "true" <=> \E text \in Prefixes(sofar) : Request(text)
          /\ http.state = "false" => \A text \in Prefixes(FlattenSeq(sc.pieces)) : ~Request(text)

\* A url whose numbers fit into an int names the tile that is made of it, and one that is
\* refused names none.
UrlNamesTile ==
    NumbersFit(sc.url) =>
      /\ tile # << >> => Spells(sc.url, tile)
      /\ stage = "refused" /\ http.state = "true" =>
           \A t \in Tiles : ~Spells(sc.url, t)
=============================================================================
