----------------------------- MODULE MapPipeline -----------------------------
(***************************************************************************)
(* From an osm document to the image of a tile: the importer reads and     *)
(* saves the document; the server loads the file and a stylesheet, reads a *)
(* request, identifies the tile, and its job looks the objects up, matches *)
(* the rules against them, draws them, places the labels and cuts the      *)
(* tiles.  Each step is a function of a module of its own; this one is the *)
(* order in which the programs call them.                                  *)
(*                                                                         *)
(* A scenario is a document, a stylesheet and a request.  The document is  *)
(* read from its text when the scenario has one, and from the entities     *)
(* that the text stands for otherwise.                                     *)
(***************************************************************************)
EXTENDS TileSearch, OsmReader, Drawing

VARIABLES
    reader,   \* the xml parser and what the importer wants of it
    sheet,    \* Stylesheet
    map,      \* RenderAttributes
    drawn,    \* the canvas, with the labels that wait for a place
    images    \* the slice, at each tile of the meta tile

vars == <<turn, asked, searched, reader, sheet, map, drawn, images>>
pictures == <<map, drawn, images>>

\* getIdentifiers, column by column.
TilesOf(meta) ==
    [i \in 1..meta.width * meta.height |->
       [x |-> meta.x + (i - 1) \div meta.height, y |-> meta.y + ((i - 1) % meta.height)]]

NoStyles == [styles |-> << >>, failed |-> << >>]
Init ==
    /\ \E scenario \in Scenarios : BeginsWith(scenario)
    /\ NothingLoaded
    /\ reader = NotOpened /\ sheet = << >>
    /\ map = NoStyles /\ drawn = NothingDrawn /\ images = << >>

\* Importer::importXML: the next element of the text, or, without one, the next entity.
Steps(step) ==
    /\ TurnOf("import", CASE step.reader.next = "failed" -> "import failed"
                          [] step.reader.next = "hangs"  -> "hangs"
                          [] OTHER -> "import")
    /\ reader' = step.reader
    /\ parser' = step.parser
ReadElement ==
    /\ stage = "import" /\ sc.text # << >> /\ reader.next # "done"
    /\ Steps(ReadNext(reader, parser, sc.text, sc.buffer, sc.segment, sc.bounds, sc.check))
    /\ UNCHANGED <<at, archive, data, found, sheet, pictures>>

ImportEntity ==
    /\ sc.text = << >> /\ at < Len(sc.doc)
    /\ Imports(sc.doc[at + 1])
    /\ at' = at + 1
    /\ UNCHANGED <<reader, sheet, pictures>>

\* The import is over, and the server starts.
Save ==
    /\ IF sc.text = << >> THEN at = Len(sc.doc) ELSE reader.next = "done"
    /\ SaveObjects
    /\ UNCHANGED <<reader, sheet, pictures>>
Load == LoadObjects /\ UNCHANGED <<reader, sheet, pictures>>

\* MapCssParser::load.  (What becomes of a sheet that does not parse is StylesheetLoading's.)
ParseSheet ==
    /\ stage = "parse sheet"
    /\ sheet' = LoadSheet(sc.tokens)
    /\ TurnOf("parse sheet", CASE sheet'.outcome = "parsed" -> "read"
                               [] sheet'.outcome = "killed" -> "killed"
                               [] OTHER -> "no sheet")
    /\ UNCHANGED <<at, searched, reader, pictures>>

\* The request is read and its tile identified.
ReadSome  == ReadPiece /\ UNCHANGED <<searched, reader, sheet, pictures>>
GoesQuiet == Quiet /\ UNCHANGED <<searched, reader, sheet, pictures>>
Identify  == IdentifyTile /\ UNCHANGED <<searched, reader, sheet, pictures>>

\* Job::process, up to the match.
Query ==
    /\ FindObjects
    /\ images' = IF stage' = "empty"
                 THEN <<renderEmptyTile(CanvasStyle(sheet.canvas, sc.unset))>> ELSE images
    /\ map' = [NoStyles EXCEPT !.failed = [i \in 1..sheet.number |-> {}]]
    /\ UNCHANGED <<reader, sheet, drawn>>

\* Stylesheet::match, a rule at a time ...
MatchRule ==
    /\ TurnOf("match", "match") /\ at < Len(sheet.rules)
    /\ map' = RuleMatch(map, data.objects, sheet.rules[at + 1], found, tile.zoom, sc.unset)
    /\ at' = at + 1
    /\ UNCHANGED <<searched, reader, sheet, drawn, images>>

\* ... which is over with the last rule.
Matched ==
    /\ TurnOf("match", "finish") /\ at = Len(sheet.rules)
    /\ UNCHANGED <<at, searched, reader, sheet, pictures>>

Finish ==
    /\ TurnOf("finish", "draw")
    /\ map' = [map EXCEPT !.styles = FinishAll(data.objects, @, sc.unset)]
    /\ UNCHANGED <<at, searched, reader, sheet, drawn, images>>

\* Renderer::renderArea, the objects ...
Draws ==
    /\ TurnOf("draw", "write")
    /\ drawn' = DrawObjects(data.objects, map.styles, CanvasStyle(sheet.canvas, sc.unset), Meta)
    /\ UNCHANGED <<at, searched, reader, sheet, map, images>>

\* ... and the shields and labels.
Write ==
    /\ TurnOf("write", "slice")
    /\ drawn' = DrawTexts(drawn)
    /\ at' = 0
    /\ UNCHANGED <<searched, reader, sheet, map, images>>

\* Job::deliver.
Slice ==
    /\ stage = "slice" /\ at < Len(TilesOf(Meta))
    /\ TurnOf("slice", IF at + 1 = Len(TilesOf(Meta)) THEN "sent" ELSE "slice")
    /\ images' = Append(images, sliceTile(IF at = 0 THEN << >> ELSE images[at], Meta,
                                          TilesOf(Meta)[at + 1]))
    /\ at' = at + 1
    /\ UNCHANGED <<searched, reader, sheet, map, drawn>>

Next == \/ ReadElement \/ ImportEntity \/ Save \/ Load \/ ParseSheet
        \/ ReadSome \/ GoesQuiet \/ Identify \/ Query \/ MatchRule \/ Matched \/ Finish
        \/ Draws \/ Write \/ Slice

Spec == Init /\ [][Next]_vars
-----------------------------------------------------------------------------
(* What the program should do, said of documents, stylesheets and requests *)
(* as wholes.                                                              *)

TypeOK ==
    /\ stage \in Stages
    /\ at \in 0..Len(sc.doc) + Len(sc.pieces) + Len(sc.tokens) + MetaTileLength^2
    /\ \A i \in DOMAIN parser.ways : ToSet(parser.ways[i].nodeIDs)
                                       \subseteq 0..Len(parser.nodes) - 1
    /\ tile # << >> => /\ tile.zoom \in 0..MaxZoom
                       /\ {tile.x, tile.y} \subseteq 0..2^tile.zoom - 1
    /\ \A o \in DOMAIN found : found[o] # << >> =>
         ToSet(found[o]) \subseteq 0..Len(data.objects[o]) - 1

\* What the server loads is what the document says; it is refused only for a flaw in it.
Flawed(entity) ==
    \/ entity.name \notin {"bounds", "node", "way", "relation"}
    \/ NoValue \in {entity.id, entity.loc}
    \/ \E i \in DOMAIN entity.props :
         LET p == entity.props[i]
         IN  \/ NoValue \in {p.k, p.v}
             \/ p.name = "member" /\ p.type \notin {"node", "way", "relation"}
ImportsDocument ==
    /\ stage = "parse sheet" /\ sc.written = "whole" => Says(data.objects, sc.doc, sc.bounds)
    /\ stage = "import failed" /\ sc.written = "whole" =>
         \E i \in DOMAIN sc.doc : Flawed(sc.doc[i])

\* Wherever the segments of the stream end, and however small the buffer is, what the
\* importer is given of an entity is what is written of it; a document that is cut off
\* before its last tag is refused; and only a declaration that is not known may hang it.
SameProperty(p, q) ==
    /\ p.name = q.name
    /\ p.name \in {"tag", "nd", "member"} => p = q
ReadsAsWritten ==
    sc.text # << >> =>
      /\ stage \in {"import", "import failed"} /\ reader.entity # << >> =>
           LET e == reader.entity  w == sc.doc[reader.n]
           IN  /\ reader.n <= Len(sc.doc)
               /\ e.name = w.name /\ Len(e.props) <= Len(w.props)
               /\ e.name \in {"node", "way", "relation"} => e.id = w.id /\ e.loc = w.loc
               /\ \A i \in DOMAIN e.props : SameProperty(e.props[i], w.props[i])
      /\ sc.written = "cut off" => stage \in {"import", "import failed"}
      /\ stage = "hangs" => sc.written = "unrecognized"

\* An attribute of an object is what the last rule says that means the object and the
\* zoom level, and says something of the attribute; an object has a style when one does.
\* A sheet without a flaw is not refused.
FoundObjects == UNION {{<<o, id>> : id \in ToSet(found[o])} : o \in DOMAIN found}
SelectorMeans(items, obj) ==
    /\ \A i \in DOMAIN items : tile.zoom \in items[i].zoom.bottom..items[i].zoom.top
    /\ Means(data.objects, items, obj, FoundObjects, sc.unset)
RulesFor(obj) ==
    SelectSeq(sc.rules, LAMBDA rule : \E i \in DOMAIN rule.selectors :
                                        SelectorMeans(rule.selectors[i], obj))
Saying(rule, attr) ==
    SelectSeq(rule.declarations,
              LAMBDA d : d.name = attr /\ NewEval(attr, d.spec) # Failed)
LastWord(rules, attr) ==
    LET saying == SelectSeq(rules, LAMBDA rule : Saying(rule, attr) # << >>)
    IN  IF saying = << >> THEN << >>
        ELSE NewEval(attr, Last(Saying(Last(saying), attr)).spec)
Has(style, attr, said, tags) ==
    LET value == Conv(attr, Eval(said[1].node, tags, sc.unset), style[attr])
    IN  CASE said = << >> -> style[attr] = Style(sc.unset)[attr]
          [] said # << >> /\ said[1].fixed -> style[attr] = said[1].value
          [] OTHER -> value.ok => style[attr] = value.out
StylesMatch ==
    /\ stage \in {"no sheet", "killed"} => sc.flawed
    /\ stage = "finish" =>
      \A o \in DOMAIN found : \A i \in DOMAIN data.objects[o] :
        LET obj == <<o, i - 1>>
            rules == RulesFor(obj)
        IN  /\ obj \in DOMAIN map.styles <=> rules # << >>
            /\ obj \in DOMAIN map.styles =>
                 \A attr \in AttributeTypes \ Lists :
                   Has(map.styles[obj], attr, LastWord(rules, attr),
                       Get(data.objects, obj).tags)

\* An expression with two operators means what it means everywhere, where the grammar,
\* which groups operators of one level from the right, does not say otherwise.
EvaluatesAsWritten ==
    stage = "finish" /\ sc.expression # << >> =>
      LET e == sc.expression
      IN  GroupsAlike(e[2], e[4], {e[1], e[3], e[5]}) =>
            \A obj \in DOMAIN map.styles :
              map.styles[obj]["font-family"] = AsWritten(e[1], e[2], e[3], e[4], e[5], sc.unset)

\* On the finished picture everything that a style lets see is seen once, the layers one
\* above the other, and within a layer areas, casings, lines and icons by their z-index.
DrawnInOrder ==
    stage = "write" =>
      LET picture == compositeLayers(drawn).layers[1]
          marks == SelectSeq(picture, LAMBDA m : m[1] \in {"fill", "casing", "stroke", "icon"})
      IN  /\ Head(picture)[1] = "background"
          /\ ToSet(marks) = Seen(data.objects, map.styles)
          /\ \A i, j \in DOMAIN marks :
               i < j => Deeper(Depth(map.styles, marks[i]), Depth(map.styles, marks[j]))

\* Of two labels with a place, the later one is covered by less than a tenth; and no label
\* was moved out of the meta tile.
LabelsApart ==
    stage = "write" =>
      LET placed == PlacedLabels(drawn)
      IN  /\ \A i, j \in DOMAIN placed :
               i < j => LabelOverlap * getArea(getIntersection(placed[i].box, placed[j].box))
                        < getArea(placed[j].box)
          /\ \A i \in DOMAIN placed :
               contains(bounds, placed[i].box) \/ placed[i] \in ToSet(drawn.labels)

\* Every way of a relation is drawn once: in one ring, where the way before it ends; what is
\* not closed goes on with no way that a later ring has; and ways that form rings, in
\* whatever order and direction they are, are drawn as closed ones.
Joints(geo, ids) ==
    {<<i, s>> \in (DOMAIN ids) \X {"front", "back"} :
       Ends(geo, ids[i]).front # Ends(geo, ids[i]).back}
FormRings(geo, ids) ==
    /\ \A j \in Joints(geo, ids) :
         Cardinality({k \in Joints(geo, ids) :
                        Ends(geo, ids[k[1]])[k[2]] = Ends(geo, ids[j[1]])[j[2]]}) = 2
    /\ \A i, j \in DOMAIN ids :
         i # j /\ Ends(geo, ids[i]).front = Ends(geo, ids[i]).back =>
           Ends(geo, ids[i]).front \notin {Ends(geo, ids[j]).front, Ends(geo, ids[j]).back}
From(geo, ids, step) ==
    LET e == Ends(geo, ids[step.i]) IN IF step.reverse THEN e.back ELSE e.front
To(geo, ids, step) ==
    LET e == Ends(geo, ids[step.i]) IN IF step.reverse THEN e.front ELSE e.back
RingsClosed ==
    stage = "draw" =>
      \A r \in DOMAIN data.objects.relations :
        LET geo == data.objects
            ids == geo.relations[r].wayIDs
            rings == Rings(geo, ids, << >>)
            steps == {<<k, n>> \in (DOMAIN rings) \X (DOMAIN ids) : n \in DOMAIN rings[k]}
            begin(k) == From(geo, ids, Head(rings[k]))
            end(k)   == To(geo, ids, Last(rings[k]))
        IN  /\ \A i \in DOMAIN ids : Cardinality({s \in steps : rings[s[1]][s[2]].i = i}) = 1
            /\ \A s \in steps : s[2] > 1 =>
                 To(geo, ids, rings[s[1]][s[2] - 1]) = From(geo, ids, rings[s[1]][s[2]])
            /\ \A k \in DOMAIN rings : begin(k) # end(k) =>
                 \A s \in steps : s[1] > k =>
                   end(k) \notin {From(geo, ids, rings[s[1]][s[2]]),
                                 To(geo, ids, rings[s[1]][s[2]])}
            /\ FormRings(geo, ids) => \A k \in DOMAIN rings : begin(k) = end(k)

\* With an opaque background, the image of a tile shows the nodes of that tile and no others.
ShowsThrough == ~Background(CanvasStyle(sheet.canvas, sc.unset))[2]
SlicesShowTile ==
    stage \in {"slice", "sent"} /\ ~ShowsThrough =>
      \A i \in DOMAIN images, n \in DOMAIN data.objects.nodes :
        LET loc == data.objects.nodes[n].loc
            p == Transform(Area(Meta), loc)
            c == Last(images[i])
            shown == /\ c.x <= p.x /\ p.x < c.x + TileLength
                     /\ c.y <= p.y /\ p.y < c.y + TileLength
        IN  shown <=> mercatorToTile(loc, tile.zoom) = Point(TilesOf(Meta)[i].x,
                                                             TilesOf(Meta)[i].y)

\* A label alone on the map that reaches into another meta tile is drawn there, too, at
\* the same place.
MatchedOn(ids, zoom) ==
    FoldLeft(LAMBDA m, rule : RuleMatch(m, data.objects, rule, ids, zoom, sc.unset),
             [NoStyles EXCEPT !.failed = [i \in 1..sheet.number |-> {}]], sheet.rules)
LabelsOn(meta) ==
    PlacedLabels(DrawObjects(data.objects,
                             FinishAll(data.objects, MatchedOn(Look(data, JobRect(meta)),
                                                              meta.zoom).styles, sc.unset),
                             CanvasStyle(sheet.canvas, sc.unset), meta))
BorderLabelsWhole ==
    stage = "write" /\ Len(drawn.labels) = 1 =>
      \A label \in ToSet(PlacedLabels(drawn)), d \in Directions :
        LET x == Meta.x + d[1] * MetaTileLength  y == Meta.y + d[2] * MetaTileLength
        IN  {x, y} \subseteq 0..2^tile.zoom - 1
            /\ getArea(getIntersection(label.box, neighbour(d))) > 0 =>
              \E l \in ToSet(LabelsOn(MetaOfTile([tile EXCEPT !.x = x, !.y = y]))) :
                /\ l.obj = label.obj
                /\ l.box = translate(label.box, -d[1] * MetaLength, -d[2] * MetaLength)
=============================================================================
