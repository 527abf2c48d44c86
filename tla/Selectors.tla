------------------------------ MODULE Selectors ------------------------------
(***************************************************************************)
(* Rules, their chains of selectors, and Stylesheet::match: which styles   *)
(* the objects of a map get.                                               *)
(*                                                                         *)
(* geo has the objects, [nodes, ways, relations], whose ids count from 0;  *)
(* an object is <<"nodes", id>> and alike.  A selector is                  *)
(* <<kind, tag, value>>, and a chain is a sequence of selectors that ends  *)
(* with the ApplySelector, which is not written down.                      *)
(***************************************************************************)
EXTENDS Styles

CONSTANT Matching    \* pairs of a text and a regular expression that matches it

Get(geo, obj) == geo[obj[1]][obj[2] + 1]
IsWay(obj)    == obj[1] = "ways"
Closed(way)   == Head(way.nodeIDs) = Last(way.nodeIDs)

HasTagSelector(tags, tag)    == tag \in DOMAIN tags
HasNotTagSelector(tags, tag) ==
    tag \in DOMAIN tags => tags[tag] \in {Word("no"), Word("false")}
TagEqualsSelector(tags, tag, value)   == tag \in DOMAIN tags /\ tags[tag] = value
TagUnequalsSelector(tags, tag, value) == tag \in DOMAIN tags /\ tags[tag] # value
TagMatchesSelector(tags, tag, value)  ==
    tag \in DOMAIN tags /\ <<tags[tag], value>> \in Matching

\* Only whether the stream is bad is tested, which it is not after a text that is no number.
TagNumber(tags, tag, unset) == ConvInt(tags[tag], unset).out
TagLargerSelector(tags, tag, value, unset) ==
    tag \in DOMAIN tags /\ TagNumber(tags, tag, unset) > value
TagLargerEqualsSelector(tags, tag, value, unset) ==
    tag \in DOMAIN tags /\ TagNumber(tags, tag, unset) >= value
TagSmallerSelector(tags, tag, value, unset) ==
    tag \in DOMAIN tags /\ TagNumber(tags, tag, unset) < value
TagSmallerEqualsSelector(tags, tag, value, unset) ==
    tag \in DOMAIN tags /\ TagNumber(tags, tag, unset) <= value

AreaTag == Word("area")
AreaSelector(way) ==
    Closed(way) /\ (AreaTag \in DOMAIN way.tags => way.tags[AreaTag] = Word("yes"))
LineSelector(way) ==
    \/ ~Closed(way)
    \/ AreaTag \in DOMAIN way.tags /\ way.tags[AreaTag] = Word("no")

Holds(geo, sel, obj, unset) ==
    LET tags == Get(geo, obj).tags
    IN  CASE sel[1] = "HasTag" -> HasTagSelector(tags, sel[2])
          [] sel[1] = "Not" -> HasNotTagSelector(tags, sel[2])
          [] sel[1] = "="   -> TagEqualsSelector(tags, sel[2], sel[3])
          [] sel[1] = "!="  -> TagUnequalsSelector(tags, sel[2], sel[3])
          [] sel[1] = "=~"  -> TagMatchesSelector(tags, sel[2], sel[3])
          [] sel[1] = ">"   -> TagLargerSelector(tags, sel[2], sel[3], unset)
          [] sel[1] = ">="  -> TagLargerEqualsSelector(tags, sel[2], sel[3], unset)
          [] sel[1] = "<"   -> TagSmallerSelector(tags, sel[2], sel[3], unset)
          [] sel[1] = "<="  -> TagSmallerEqualsSelector(tags, sel[2], sel[3], unset)
          [] sel[1] = "Area" -> IsWay(obj) /\ AreaSelector(Get(geo, obj))
          [] sel[1] = "Line" -> IsWay(obj) /\ LineSelector(Get(geo, obj))

\* The selectors that go on with the children of an object.
Ids(kind, ids) == [i \in DOMAIN ids |-> <<kind, ids[i]>>]
ChildNodesSelector(geo, obj) ==
    IF obj[1] = "nodes" THEN << >> ELSE Ids("nodes", Get(geo, obj).nodeIDs)
ChildWaysSelector(geo, obj) ==
    IF obj[1] = "relations" THEN Ids("ways", Get(geo, obj).wayIDs) ELSE << >>

\* matchNode, matchWay, matchRelation: the objects that come to the end of the chain.
RECURSIVE Selected(_, _, _, _)
Selected(geo, chain, obj, unset) ==
    LET sel == Head(chain)
        next == CASE sel[1] = "ChildNodes" -> ChildNodesSelector(geo, obj)
                  [] sel[1] = "ChildWays"  -> ChildWaysSelector(geo, obj)
                  [] OTHER -> IF Holds(geo, sel, obj, unset) THEN <<obj>> ELSE << >>
    IN  IF chain = << >> THEN <<obj>>
        ELSE FlattenSeq([i \in DOMAIN next |-> Selected(geo, Tail(chain), next[i], unset)])

\* ApplySelector: what has no style gets a new one, which the template is laid over.
\* map.failed are the lists of each template that failed once.
Apply(map, geo, rule, obj, unset) ==
    LET tags == Get(geo, obj).tags
        style == IF obj \in DOMAIN map.styles THEN map.styles[obj] ELSE Style(unset)
        failed == map.failed[rule.number]
    IN  [map EXCEPT
           !.styles = (obj :> overmerge(style, rule.template, tags, unset, failed)) @@ @,
           !.failed[rule.number] = @ \cup FailedLists(rule.template, tags, unset, failed)]

\* Rule::match: the objects that were found, as far as the rule accepts their type.
InZoom(rule, zoom) == rule.bottom <= zoom /\ zoom <= rule.top
RuleMatch(map, geo, rule, found, zoom, unset) ==
    LET starts(kind) == IF kind \in rule.accepts THEN Ids(kind, found[kind]) ELSE << >>
        objs == starts("nodes") \o starts("ways") \o starts("relations")
        ends == FlattenSeq([i \in DOMAIN objs |-> Selected(geo, rule.chain, objs[i], unset)])
    IN  IF ~InZoom(rule, zoom) THEN map
        ELSE FoldLeft(LAMBDA m, obj : Apply(m, geo, rule, obj, unset), map, ends)

\* Stylesheet::match: after the rules the styles are finished, and that of the canvas.
FinishAll(geo, styles, unset) ==
    [obj \in DOMAIN styles |-> finish(styles[obj], Get(geo, obj).tags, unset)]
CanvasStyle(canvas, unset) ==
    IF canvas = << >> THEN Style(unset)
    ELSE FinishPaint(overmerge(Style(unset), canvas[1], << >>, unset, {}))
=============================================================================
