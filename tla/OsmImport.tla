------------------------------ MODULE OsmImport ------------------------------
(***************************************************************************)
(* OsmXmlParser and the strings it keeps: what an osm document becomes.    *)
(*                                                                         *)
(* A document is the sequence of its entities, [name, id, loc, props].  A  *)
(* property is [name, k, v], the k of a reference or member being the id   *)
(* it refers to, the v of a member its role, and [.., type] its kind.  An  *)
(* attribute that is missing or does not convert is NoValue.  Ids of the   *)
(* program count from 0.                                                   *)
(***************************************************************************)
EXTENDS Rectangles, TLC

CONSTANTS
    Words,      \* strings
    NoValue,
    Hash,       \* string -> its boost::hash
    Precached   \* the strings that are stored from the start

ASSUME WordAssumption == Precached \subseteq Words

\* What may stand in a document: ids, places and texts, wherever they are looked at.
IsEntity(entity) ==
    /\ entity.name = "node" => entity.loc \in {NoValue} \cup Points
    /\ Len(entity.props) \in Nat /\ DOMAIN entity.props = 1..Len(entity.props)
    /\ \A i \in DOMAIN entity.props :
         LET p == entity.props[i]
         IN  /\ p.name = "tag" => {p.k, p.v} \subseteq {NoValue} \cup Words
             /\ p.name = "member" => p.v \in {NoValue} \cup Words

\* resolveString looks a string up by its value; but what is inserted is compared by its
\* hash, so that a stored string of the same hash is taken for it.
Resolved(storage, str) ==
    IF str \in storage \/ ~\E s \in storage : Hash[s] = Hash[str]
    THEN str ELSE CHOOSE s \in storage : Hash[s] = Hash[str]

NoProps == [tags |-> << >>, nodeIDs |-> << >>, nodeRoles |-> << >>, wayIDs |-> << >>,
            wayRoles |-> << >>]

\* An OsmXmlParser that has read nothing.  error: the exception that is on its way.
EmptyParser ==
    [nodes |-> << >>, ways |-> << >>, relations |-> << >>, nodeIds |-> << >>,
     wayIds |-> << >>, clipped |-> {}, storage |-> Precached, props |-> NoProps,
     error |-> "none"]

Throw(parser, what) == [parser EXCEPT !.error = what]
Intern(parser, str) == [parser EXCEPT !.storage = @ \cup {Resolved(@, str)}]
Put(map, key, value) ==
    [x \in DOMAIN map \cup {key} |-> IF x = key THEN value ELSE map[x]]
\* insert: a key that is there keeps its value.
PutNew(map, key, value) == IF key \in DOMAIN map THEN map ELSE Put(map, key, value)

\* parseProperties, tag: a later tag of the same key replaces the earlier one.
ParseTag(parser, prop) ==
    IF NoValue \in {prop.k, prop.v} THEN Throw(parser, "InputFormatException")
    ELSE LET p == Intern(Intern(parser, prop.k), prop.v)
         IN  [p EXCEPT !.props.tags = Put(@, Resolved(p.storage, prop.k),
                                             Resolved(p.storage, prop.v))]

\* resolveOsmId: only what was parsed before is known.
Reference(parser, ids, prop) ==
    IF prop.k = NoValue THEN Throw(parser, "InputFormatException")
    ELSE IF prop.k \notin DOMAIN ids THEN Throw(parser, "BadOsmIdException")
    ELSE parser

\* parseProperties, nd of a way.
ParseNd(parser, prop) ==
    LET p == Reference(parser, parser.nodeIds, prop)
    IN  IF p.error # "none" THEN p
        ELSE [p EXCEPT !.props.nodeIDs = Append(@, p.nodeIds[prop.k])]

\* parseProperties, member of a relation: a relation in it is ignored.
WithRole(parser, ids, prop) ==
    LET p == Reference(parser, ids, prop)
    IN  CASE p.error # "none" -> p
          [] p.error = "none" /\ prop.v = NoValue -> Throw(p, "InputFormatException")
          [] OTHER -> Intern(p, prop.v)
ParseMember(parser, prop) ==
    CASE prop.type = "node" ->
           LET p == WithRole(parser, parser.nodeIds, prop)
           IN  IF p.error # "none" THEN p
               ELSE [p EXCEPT !.props.nodeIDs = Append(@, p.nodeIds[prop.k]),
                              !.props.nodeRoles = Put(@, p.nodeIds[prop.k],
                                                      Resolved(p.storage, prop.v))]
      [] prop.type = "way" ->
           LET p == WithRole(parser, parser.wayIds, prop)
           IN  IF p.error # "none" THEN p
               ELSE [p EXCEPT !.props.wayIDs = Append(@, p.wayIds[prop.k]),
                              !.props.wayRoles = Put(@, p.wayIds[prop.k],
                                                     Resolved(p.storage, prop.v))]
      [] prop.type = "relation" /\ prop.k # NoValue -> parser
      [] OTHER -> Throw(parser, "InputFormatException")

\* Properties of other names are passed over.  (The name that is compared is asked of the
\* first property, which is this one only because the xml parser gives a node the memory of
\* its last sibling.)
ParseProperty(target, parser, prop) ==
    IF parser.error # "none" THEN parser
    ELSE CASE prop.name = "tag" -> ParseTag(parser, prop)
           [] prop.name = "nd" /\ target = "way" -> ParseNd(parser, prop)
           [] prop.name = "member" /\ target = "relation" -> ParseMember(parser, prop)
           [] OTHER -> parser
parseProperties(parser, target, props) ==
    FoldLeft(LAMBDA p, prop : ParseProperty(target, p, prop),
             [parser EXCEPT !.props = NoProps], props)

\* parseNode: a node outside of the bounds is only remembered as clipped.
parseNode(parser, node, bounds) ==
    LET added(p) ==
          IF p.error # "none" THEN p
          ELSE [p EXCEPT !.nodeIds = PutNew(@, node.id, Len(p.nodes)),
                         !.nodes = Append(@, [loc |-> node.loc, tags |-> p.props.tags])]
    IN  IF NoValue \in {node.id, node.loc} THEN Throw(parser, "InputFormatException")
        ELSE IF ~contains(bounds, PointRect(node.loc))
        THEN [parser EXCEPT !.clipped = @ \cup {node.id}]
        ELSE added(parseProperties(parser, "node", node.props))

\* parseWay: one without nodes is dropped.
parseWay(parser, way) ==
    LET added(p) ==
          IF p.error # "none" \/ p.props.nodeIDs = << >> THEN p
          ELSE [p EXCEPT !.wayIds = PutNew(@, way.id, Len(p.ways)),
                         !.ways = Append(@, [tags |-> p.props.tags,
                                             nodeIDs |-> p.props.nodeIDs])]
    IN  IF way.id = NoValue THEN Throw(parser, "InputFormatException")
        ELSE added(parseProperties(parser, "way", way.props))

\* parseRelation: one without members is dropped.
parseRelation(parser, relation) ==
    LET added(p) ==
          IF p.error # "none" \/ (p.props.nodeIDs = << >> /\ p.props.wayIDs = << >>) THEN p
          ELSE [p EXCEPT !.relations = Append(@, p.props)]
    IN  IF relation.id = NoValue THEN Throw(parser, "InputFormatException")
        ELSE added(parseProperties(parser, "relation", relation.props))

\* parseEntities: an entity with an id that does not resolve is skipped.  Unknown ones
\* are an error; when they should be ignored, the end of the map is dereferenced.
parseEntity(parser, entity, bounds, check) ==
    CASE entity.name = "bounds"   -> parser
      [] entity.name = "node"     -> parseNode(parser, entity, bounds)
      [] entity.name = "way"      -> parseWay(parser, entity)
      [] entity.name = "relation" -> parseRelation(parser, entity)
      [] OTHER -> Throw(parser, IF check THEN "InputFormatException" ELSE "fault")
ParseEntity(parser, entity, bounds, check) ==
    LET parsed(p) == IF p.error = "BadOsmIdException" THEN [p EXCEPT !.error = "none"] ELSE p
    IN  parsed(parseEntity(parser, entity, bounds, check))
-----------------------------------------------------------------------------
(* Reference: what a document says, read as a whole.                       *)

\* The position, among those kept, of the first one before i that has the id.
First(doc, kept, id, i) ==
    LET found == {j \in DOMAIN kept : kept[j] < i /\ doc[kept[j]].id = id}
    IN  IF found = {} THEN -1 ELSE (CHOOSE j \in found : \A k \in found : j <= k) - 1

KeptNodes(doc, bounds) ==
    SelectSeq([i \in DOMAIN doc |-> i],
              LAMBDA i : doc[i].name = "node" /\ contains(bounds, PointRect(doc[i].loc)))
Props(doc, i, names) == SelectSeq(doc[i].props, LAMBDA p : p.name \in names)
NodeRefs(doc, nodes, i) ==
    LET refs == IF doc[i].name = "way" THEN Props(doc, i, {"nd"})
                ELSE SelectSeq(Props(doc, i, {"member"}), LAMBDA p : p.type = "node")
    IN  [j \in DOMAIN refs |-> First(doc, nodes, refs[j].k, i)]
KeptWays(doc, nodes) ==
    SelectSeq([i \in DOMAIN doc |-> i],
              LAMBDA i : /\ doc[i].name = "way" /\ NodeRefs(doc, nodes, i) # << >>
                         /\ -1 \notin ToSet(NodeRefs(doc, nodes, i)))
WayRefs(doc, ways, i) ==
    LET refs == SelectSeq(Props(doc, i, {"member"}), LAMBDA p : p.type = "way")
    IN  [j \in DOMAIN refs |-> First(doc, ways, refs[j].k, i)]
KeptRelations(doc, nodes, ways) ==
    SelectSeq([i \in DOMAIN doc |-> i],
              LAMBDA i : LET refs == NodeRefs(doc, nodes, i) \o WayRefs(doc, ways, i)
                         IN  doc[i].name = "relation" /\ refs # << >> /\ -1 \notin ToSet(refs))

\* The tags are the last values of the keys, but for strings that share their hash.
TagsSay(tags, doc, i) ==
    LET given == Props(doc, i, {"tag"})
        last == {j \in DOMAIN given : \A k \in j + 1..Len(given) : given[k].k # given[j].k}
        same(a, b) == a = b \/ Hash[a] = Hash[b]
    IN  /\ \A j \in last : \E k \in DOMAIN tags : same(k, given[j].k)
        /\ \A k \in DOMAIN tags : \E j \in last : same(k, given[j].k)
                                                  /\ same(tags[k], given[j].v)

Says(parser, doc, bounds) ==
    LET nodes == KeptNodes(doc, bounds)  ways == KeptWays(doc, nodes)
        relations == KeptRelations(doc, nodes, ways)
    IN  /\ Len(parser.nodes) = Len(nodes) /\ Len(parser.ways) = Len(ways)
        /\ Len(parser.relations) = Len(relations)
        /\ \A i \in DOMAIN nodes : /\ parser.nodes[i].loc = doc[nodes[i]].loc
                                   /\ TagsSay(parser.nodes[i].tags, doc, nodes[i])
        /\ \A i \in DOMAIN ways :
              /\ parser.ways[i].nodeIDs = NodeRefs(doc, nodes, ways[i])
              /\ TagsSay(parser.ways[i].tags, doc, ways[i])
        /\ \A i \in DOMAIN relations :
              /\ parser.relations[i].nodeIDs = NodeRefs(doc, nodes, relations[i])
              /\ parser.relations[i].wayIDs = WayRefs(doc, ways, relations[i])
              /\ TagsSay(parser.relations[i].tags, doc, relations[i])
=============================================================================
