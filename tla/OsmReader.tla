------------------------------ MODULE OsmReader ------------------------------
(***************************************************************************)
(* OsmXmlParser::parse: how the importer walks through the text of a       *)
(* document.  It asks the xml parser for one element after the other, and  *)
(* the text is read as far as that takes.                                  *)
(***************************************************************************)
EXTENDS OsmImport, EvalExpr

CONSTANTS
    Spelling,   \* the texts of several symbols -> their symbols
    TagRoom

Xml == INSTANCE XmlParser

Symbols(text) ==
    CASE text = Empty -> << >>
      [] text # Empty /\ text \in DOMAIN Spelling -> Spelling[text]
      [] OTHER -> <<text>>
Garbled == Word("?")
Meaning(symbols) ==
    IF symbols = << >> THEN Empty
    ELSE IF \E t \in DOMAIN Spelling : Spelling[t] = symbols
    THEN CHOOSE t \in DOMAIN Spelling : Spelling[t] = symbols
    ELSE IF Len(symbols) = 1 /\ symbols[1][1] \in {"word", "int"} THEN symbols[1] ELSE Garbled

\* extractAttributeFromNode, as a text and as a number.
Text_(x, node, attr) ==
    LET found == Xml!first_attribute(x, node, Symbols(Word(attr)))
    IN  IF found = << >> THEN NoValue ELSE Meaning(Xml!CString(x, Head(found).value))
Number_(x, node, attr) ==
    LET text == Text_(x, node, attr)
    IN  IF text # NoValue /\ text[1] = "int" THEN text[2] ELSE NoValue
NameOf(x, node) == Meaning(Xml!CString(x, x.nodes[node].name))[2]

\* What is looked at when an element is at hand: of an entity its attributes, ...
EntityAt(x, node) ==
    LET lon == Number_(x, node, "lon")  lat == Number_(x, node, "lat")
    IN  [name |-> NameOf(x, node), id |-> Number_(x, node, "id"),
         loc |-> IF NameOf(x, node) # "node" THEN Point(0, 0)
                 ELSE IF NoValue \in {lon, lat} THEN NoValue ELSE Point(lon, lat),
         props |-> << >>]
\* ... of a property those that its name asks for.  A type that is empty is missing, too.
\* (The name is asked of the first property, which has become this one.)
PropertyAt(x, node) ==
    LET prop(key, value, type) == [name |-> NameOf(x, node), k |-> key, v |-> value, type |-> type]
        type_ == Text_(x, node, "type")
    IN  CASE NameOf(x, node) = "tag" -> prop(Text_(x, node, "k"), Text_(x, node, "v"), "none")
          [] NameOf(x, node) = "nd"  -> prop(Number_(x, node, "ref"), Empty, "none")
          [] NameOf(x, node) = "member" ->
               prop(Number_(x, node, "ref"), Text_(x, node, "role"),
                    IF type_ \in {NoValue, Empty} THEN "none" ELSE type_[2])
          [] OTHER -> prop(Empty, Empty, "none")
-----------------------------------------------------------------------------
(* A reader: the xml parser, the element that is asked for next, and the   *)
(* entity at hand, which is the n-th one.                                  *)

Osm == 1   AnEntity == 2   AProperty == 3     \* where they are on the stack of nodes

NotOpened == [xml |-> << >>, next |-> "document", entity |-> << >>, n |-> 0]

\* The calls to the xml parser.
AsksForChild == {"osm", "first entity", "first property"}
Asked == [next \in {"osm", "first entity", "entity", "first property", "property"} |->
            CASE next = "osm" -> 0
              [] next = "first entity" -> Osm
              [] next \in {"entity", "first property"} -> AnEntity
              [] OTHER -> AProperty]
Ask(reader, text, buffer, segment) ==
    CASE reader.next = "document" -> Xml!OpenDocument(text, buffer, segment)
      [] reader.next \in AsksForChild ->
           Xml!first_node(reader.xml, Asked[reader.next],
                          IF reader.next = "osm" THEN Symbols(Word("osm")) ELSE Xml!AnyName)
      [] OTHER -> Xml!next_sibling(reader.xml, Asked[reader.next])

Goes(reader, next, parser) == [reader |-> [reader EXCEPT !.next = next], parser |-> parser]
Ends_(reader, next, parser) ==
    [reader |-> [reader EXCEPT !.next = next, !.xml = << >>], parser |-> parser]

\* The properties of an entity are read for as long as none of them throws; those of a node
\* that is clipped are not read at all.
ReadsProperties(parser, entity, bounds, check) ==
    /\ entity.name \in {"node", "way", "relation"}
    /\ parseEntity(parser, entity, bounds, check).error = "none"
    /\ entity.name = "node" => contains(bounds, PointRect(entity.loc))

ReadNext(reader, parser, text, buffer, segment, bounds, check) ==
    LET refused(r) == Ends_(r, "failed", Throw(parser, "InputFormatException"))
        ended(r, p) == IF p.error = "none" THEN Goes(r, "entity", p) ELSE Ends_(r, "failed", p)
        done(r) == ended(r, ParseEntity(parser, r.entity, bounds, check))
        goOn(r, next) == IF ReadsProperties(parser, r.entity, bounds, check)
                         THEN Goes(r, next, parser) ELSE done(r)
        begun(r, x) == [r EXCEPT !.entity = EntityAt(x, x.got), !.n = @ + 1]
        more(r, x) == [r EXCEPT !.entity.props = Append(@, PropertyAt(x, x.got))]
        answered(r, x) ==
          CASE r.next = "document" -> Goes(r, "osm", parser)
            [] r.next = "osm" ->
                 IF x.got = 0 THEN refused(r) ELSE Goes(r, "first entity", parser)
            [] r.next \in {"first entity", "entity"} ->
                 IF x.got = 0 THEN Ends_(r, "done", parser)
                 ELSE goOn(begun(r, x), "first property")
            [] OTHER -> IF x.got = 0 THEN done(r) ELSE goOn(more(r, x), "property")
        asked(x) == CASE x.error = "endless loop" -> Ends_(reader, "hangs", parser)
                      [] x.error = "none" -> answered([reader EXCEPT !.xml = x], x)
                      [] OTHER -> refused(reader)
    IN  asked(Ask(reader, text, buffer, segment))
=============================================================================
