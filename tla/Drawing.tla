------------------------------- MODULE Drawing -------------------------------
(***************************************************************************)
(* Renderer, its object renderers and the canvas: what is painted for a    *)
(* meta tile, in which order, and which labels find a place.               *)
(*                                                                         *)
(* A layer of a canvas is the sequence of what was painted on it.  Lengths *)
(* are counted in halves of a pixel, as the decimals of styles are.        *)
(* Colors, line styles, and the turning of texts along a line are left     *)
(* out, Cairo's.                                                           *)
(***************************************************************************)
EXTENDS MapCss, GeoStore

CONSTANTS
    TileLength,        \* TILE_SIZE
    ShieldDistance,    \* RENDERER_SHIELD_DISTANCE
    LabelOverlap,      \* 1 / RENDERER_LABEL_OVERLAP and 1 / RENDERER_SHIELD_OVERLAP
    Opaque,            \* the colors that let nothing through
    TextWidth(_, _), TextHeight(_, _)   \* of a text in a font size: external, Cairo

LayerNames == <<"fill", "casing", "stroke", "icons", "labels">>
NoLayers == [l \in DOMAIN LayerNames |-> << >>]

\* Renderer::Renderer: the meta tile, its neighbours, and where these look for objects.
MetaLength == TileLength * MetaTileLength
bounds == Rect(0, 0, MetaLength, MetaLength)
Directions == {d \in (-1..1) \X (-1..1) : d # <<0, 0>>}
neighbour(d) == translate(bounds, d[1] * MetaLength, d[2] * MetaLength)
RequestAsTile(d) == neighbour(d)   \* mutant: the overlap is forgotten
neighbourRequest(d) ==
    grow(neighbour(d), Quotient(MetaLength, Overlap), Quotient(MetaLength, Overlap))

\* renderArea, transform: from coordinates to the meta tile whose corners these are.
Transform(area, p) ==
    Point(Quotient((p.x - area.a.x) * area.width, area.b.x - area.a.x),
          Quotient((p.y - area.a.y) * area.height, area.b.y - area.a.y))

\* What is drawn for an object is put together in d: the layers, labels and shields.
NothingDrawn == [layers |-> NoLayers, labels |-> << >>, shields |-> << >>]
Layer(name) == CHOOSE l \in DOMAIN LayerNames : LayerNames[l] = name
Paint(d, layer, mark) == [d EXCEPT !.layers[Layer(layer)] = Append(@, mark)]
When(cond, d, else) == IF cond THEN d ELSE else

\* ceil and floor.
CeilPixel(n)  == Ceil(n, 2) * 2
FloorPixel(n) == (n \div 2) * 2

\* addLabel and addShield: boxes around a point.
addLabel(d, obj, s, p, owner) ==
    LET w == TextWidth(s["text"], s["font-size"])  h == TextHeight(s["text"], s["font-size"])
        box == Sized(Point(p.x - w \div 2, p.y - h \div 2), w, h)
    IN  [d EXCEPT !.labels = Append(@,
           [obj |-> obj, owner |-> owner, size |-> s["font-size"],
            box |-> grow(box, s["text-halo-radius"], s["text-halo-radius"])])]
addShield(d, obj, s, p, owner) ==
    LET w == TextWidth(s["shield-text"], s["font-size"])
        h == TextHeight(s["shield-text"], s["font-size"])
        border == CeilPixel(s["shield-frame-width"] + s["shield-casing-width"] + 6)
        corner == Point(FloorPixel(p.x - w \div 2) - border, FloorPixel(p.y - h \div 2) - border)
        half == ShieldDistance \div 2
    IN  [d EXCEPT !.shields = Append(@,
           [obj |-> obj, owner |-> owner, size |-> s["font-size"],
            box |-> Sized(Point(p.x - half, p.y - half), ShieldDistance, ShieldDistance),
            shield |-> Sized(corner, CeilPixel(w + 2 * border), CeilPixel(h + 2 * border))])]

\* NodeRenderer, from casing to icon.
NodeMarks(d, obj, s) ==
    LET casing == When(s["casing-width"] > 0, Paint(d, "casing", <<"casing", obj>>), d)
    IN  When(s["width"] > 0, Paint(casing, "stroke", <<"stroke", obj>>), casing)
NodeTexts(d, obj, s, location) ==
    LET owner == PointRect(location)
        large == s["font-size"] > 0
        labelled == When(large /\ s["text"] # Empty,
           addLabel(d, obj, s, Point(location.x, location.y + s["text-offset"]), owner), d)
    IN  When(large /\ s["shield-text"] # Empty,
             addShield(labelled, obj, s, location, owner), labelled)
NodeIcon(d, obj, s) ==
    When(s["icon-image"] # Empty /\ s["icon-width"] # 0 /\ s["icon-height"] # 0,
         Paint(d, "icons", <<"icon", obj>>), d)
DrawNode(d, geo, obj, s, area) ==
    NodeIcon(NodeTexts(NodeMarks(d, obj, s), obj, s, Transform(area, Get(geo, obj).loc)),
             obj, s)

\* paintLine: the points of a line, maybe in reverse.
paintLine(geo, ids, area, reverse) ==
    LET points == [i \in DOMAIN ids |-> Transform(area, geo.nodes[ids[i] + 1].loc)]
    IN  IF reverse THEN Reverse(points) ELSE points

\* The length of a segment, exact along the axes.
Length(p, q) ==
    LET d2 == (p.x - q.x) * (p.x - q.x) + (p.y - q.y) * (p.y - q.y)
    IN  CeilSqrt(d2)
Middle(p, q) == Point((p.x + q.x) \div 2, (p.y + q.y) \div 2)

\* getTextPosition: whether there is a segment that is longer than the text, whose width
\* is cut to whole pixels.
getTextPosition(path, width) ==
    \E i \in 2..Len(path) : Length(path[i - 1], path[i]) > FloorPixel(width)

\* getShieldPosition: in the middle of segments that are far enough from the last one.
getShieldPosition(path) ==
    FoldLeft(LAMBDA acc, i :
               LET dis == acc.dis + Length(path[i - 1], path[i])
               IN  IF dis > ShieldDistance
                   THEN [dis |-> 0, at |-> Append(acc.at, Middle(path[i - 1], path[i]))]
                   ELSE [acc EXCEPT !.dis = dis],
             [dis |-> ShieldDistance, at |-> << >>], [i \in 1..Len(path) - 1 |-> i + 1]).at

\* WayRenderer, from fill to shield.  A line is filled when it is closed.
WayMarks(d, geo, obj, s) ==
    LET filled == When(Closed(Get(geo, obj)), Paint(d, "fill", <<"fill", obj>>), d)
        cased == When(s["casing-width"] > 0, Paint(filled, "casing", <<"casing", obj>>), filled)
    IN  When(s["width"] > 0, Paint(cased, "stroke", <<"stroke", obj>>), cased)
WayLabel(d, obj, s, path) ==
    LET owner == BoundingBox([i \in DOMAIN path |-> PointRect(path[i])])
        center == getCenter(owner)
    IN  CASE s["text"] = Empty \/ s["font-size"] <= 0 -> d
          [] s["text-position"] = Word("center") /\ s["text"] # Empty /\ s["font-size"] > 0 ->
               addLabel(d, obj, s, Point(center.x, center.y + s["text-offset"]), owner)
          [] OTHER -> When(getTextPosition(path, TextWidth(s["text"], s["font-size"])),
                           Paint(d, "labels", <<"line label", obj>>), d)
WayShields(d, obj, s, path) ==
    LET owner == BoundingBox([i \in DOMAIN path |-> PointRect(path[i])])
    IN  IF s["shield-text"] = Empty \/ s["font-size"] <= 0 THEN d
        ELSE FoldLeft(LAMBDA e, p : addShield(e, obj, s, p, owner), d, getShieldPosition(path))
DrawWay(d, geo, obj, s, area) ==
    LET path == paintLine(geo, Get(geo, obj).nodeIDs, area, FALSE)
    IN  WayShields(WayLabel(WayMarks(d, geo, obj, s), obj, s, path), obj, s, path)

\* addRingPath: ways that no ring has and that go on where the last one ended, in either
\* direction, searched for from the first one on, until the ring is closed.  used are the
\* ways of earlier rings, ring is the ways of this one, [i, reverse].
Ends(geo, id) == LET ids == geo.ways[id + 1].nodeIDs IN [front |-> Head(ids), back |-> Last(ids)]
GoesReverse(ends, last) == ends.front # last /\ ends.back = last
WaysOf(ring) == {step.i : step \in ToSet(ring)}
MarkedByRing(used, ring) == WaysOf(ring)   \* mutant: each ring has marks of its own
Marked(used, ring) == used \cup WaysOf(ring)
RECURSIVE addRingPath(_, _, _, _, _)
addRingPath(geo, ids, used, ring, last) ==
    LET first == ring[1].i
        fits(i) == LET e == Ends(geo, ids[i]) IN e.front = last \/ GoesReverse(e, last)
        next == {i \in first + 1..Len(ids) : i \notin Marked(used, ring) /\ fits(i)}
        i == CHOOSE i \in next : \A j \in next : i <= j
        ends == Ends(geo, ids[i])
        reverse == GoesReverse(ends, last)
    IN  IF last = Ends(geo, ids[first]).front \/ next = {} THEN ring
        ELSE addRingPath(geo, ids, used, Append(ring, [i |-> i, reverse |-> reverse]),
                         IF reverse THEN ends.front ELSE ends.back)
\* RelationRenderer::fill: rings from each way that is in none yet.
RECURSIVE Rings(_, _, _)
Rings(geo, ids, rings) ==
    LET used == UNION {WaysOf(ring) : ring \in ToSet(rings)}
        free == DOMAIN ids \ used
        i == CHOOSE i \in free : \A j \in free : i <= j
    IN  IF free = {} THEN rings
        ELSE Rings(geo, ids, Append(rings,
               addRingPath(geo, ids, used, << [i |-> i, reverse |-> FALSE] >>,
                           Ends(geo, ids[i]).back)))
DrawRelation(d, geo, obj) ==
    When(Get(geo, obj).wayIDs # << >>, Paint(d, "fill", <<"fill", obj>>), d)

Draw(d, geo, obj, s, area) ==
    CASE obj[1] = "nodes" -> DrawNode(d, geo, obj, s, area)
      [] obj[1] = "ways"  -> DrawWay(d, geo, obj, s, area)
      [] OTHER -> DrawRelation(d, geo, obj)
-----------------------------------------------------------------------------
(* The order of painting.                                                  *)

\* sortObjects: those that have a style, by z-index and id.
sortObjects(styles, kind) ==
    LET objs == {obj \in DOMAIN styles : obj[1] = kind}
        before(o) == {p \in objs : \/ styles[p]["z-index"] < styles[o]["z-index"]
                                   \/ /\ styles[p]["z-index"] = styles[o]["z-index"]
                                      /\ p[2] < o[2]}
    IN  [i \in 1..Cardinality(objs) |-> CHOOSE o \in objs : Cardinality(before(o)) = i - 1]

\* compositeLayers: the upper layers are painted on the first one and cleared.
LayersKept(d) ==   \* mutant: they are not cleared
    [d EXCEPT !.layers[1] = FlattenSeq(d.layers)]
compositeLayers(d) ==
    [d EXCEPT !.layers = [l \in DOMAIN @ |-> IF l = 1 THEN FlattenSeq(@) ELSE << >>]]

\* renderObjects: z by z, the relations, ways and nodes up to it; when the layer of z is
\* another one, what was painted is put together first.
UpTo(objs, styles, z) ==
    SelectSeq(objs, LAMBDA o : styles[o]["z-index"] <= z)
Above(objs, styles, z) ==
    SelectSeq(objs, LAMBDA o : styles[o]["z-index"] > z)
RECURSIVE renderFrom(_, _, _, _, _, _, _)
renderFrom(d, geo, styles, queues, z, layer, area) ==
    LET changed == Quotient(z, 100) # layer
        now == FlattenSeq([q \in DOMAIN queues |-> UpTo(queues[q], styles, z)])
        rest == [q \in DOMAIN queues |-> Above(queues[q], styles, z)]
        nextZ == {styles[o]["z-index"] : o \in {Head(rest[q]) :
                                                  q \in {q \in DOMAIN rest : rest[q] # << >>}}}
        drawn == FoldLeft(LAMBDA e, o : Draw(e, geo, o, styles[o], area),
                          When(changed, compositeLayers(d), d), now)
    IN  IF nextZ = {} THEN drawn
        ELSE renderFrom(drawn, geo, styles, rest, CHOOSE n \in nextZ : \A m \in nextZ : n <= m,
                        Quotient(z, 100), area)
renderObjects(d, geo, styles, area) ==
    LET queues == <<sortObjects(styles, "relations"), sortObjects(styles, "ways"),
                    sortObjects(styles, "nodes")>>
        firsts == {styles[Head(queues[q])]["z-index"] :
                     q \in {q \in DOMAIN queues : queues[q] # << >>}}
        minZ == CHOOSE n \in firsts \cup {0} : \A m \in firsts \cup {0} : n <= m
    IN  renderFrom(d, geo, styles, queues, minZ, Quotient(minZ, 100), area)
-----------------------------------------------------------------------------
(* Labels and shields.                                                     *)

\* CompareLabels, by a sort that keeps the order of equal ones.
SortLabels(labels) ==
    LET before(i) == {j \in DOMAIN labels :
                        \/ labels[j].size > labels[i].size
                        \/ /\ labels[j].size = labels[i].size
                           /\ \/ labels[j].box.minX < labels[i].box.minX
                              \/ labels[j].box.minX = labels[i].box.minX /\ j < i}
    IN  [k \in DOMAIN labels |->
           labels[CHOOSE i \in DOMAIN labels : Cardinality(before(i)) = k - 1]]

\* isCutOff: whether a neighbour that the label reaches into does not know of its owner.
isCutOff(label) ==
    \E d \in Directions : /\ intersects(label.box, neighbour(d))
                          /\ ~intersects(neighbourRequest(d), label.owner)

Worst(placed, box) ==
    FoldLeft(LAMBDA worst, other : Larger(worst, getArea(getIntersection(other.box, box))),
             0, placed)
Fits10(worst, box) == LabelOverlap * worst < getArea(box)

\* placeLabels, those that are not contained in the meta tile, where they are ...
PlaceReaching(placed, label) ==
    IF /\ ~contains(bounds, label.box)
       /\ getArea(getIntersection(bounds, label.box)) > 0
       /\ ~isCutOff(label)
       /\ Fits10(Worst(placed, label.box), label.box)
    THEN Append(placed, label) ELSE placed
\* ... then those that are, at the best of some positions: theirs, above, to the right,
\* below, and what was meant to be to the left.
Unmoved(label, by) == label   \* mutant: the box stays
Moved(label, by) == [label EXCEPT !.box = translate(@, by.x, by.y)]
PlaceContained(placed, label) ==
    LET right == getWidth(label.box) \div 2  down == getHeight(label.box) \div 2
        trans == <<Point(0, 0), Point(0, -down), Point(right, 0), Point(0, down),
                   Point(right, 0)>>
        box(i) == translate(label.box, trans[i].x, trans[i].y)
        best == FoldLeft(LAMBDA m, i :
                  IF Worst(placed, box(i)) < Worst(placed, box(m)) /\ contains(bounds, box(i))
                  THEN i ELSE m, 1, <<2, 3, 4, 5>>)
    IN  IF ~contains(bounds, label.box) \/ ~Fits10(Worst(placed, box(best)), label.box)
        THEN placed ELSE Append(placed, Moved(label, trans[best]))
placeLabels(labels) ==
    FoldLeft(PlaceContained, FoldLeft(PlaceReaching, << >>, labels), labels)

\* placeShields: those whose shield is contained, and whose boxes do not overlap much.
PlaceShield(placed, shield) ==
    IF contains(bounds, shield.shield) /\ Fits10(Worst(placed, shield.box), shield.box)
    THEN Append(placed, shield) ELSE placed
placeShields(shields) == FoldLeft(PlaceShield, << >>, shields)

\* renderShields, and renderLabels from the last one to the first.
renderShields(d, shields) ==
    FoldLeft(LAMBDA e, s : Paint(e, "labels", <<"shield", s.obj>>), d, shields)
renderLabels(d, labels) ==
    FoldLeft(LAMBDA e, l : Paint(e, "labels", <<"text", l.obj>>), d, Reverse(labels))
-----------------------------------------------------------------------------
(* Meta tiles and their tiles.                                             *)

\* paintBackground.
Background(canvas) == <<"background", canvas["fill-image"] # Empty
                                      \/ canvas["fill-color"] \in Opaque>>

\* renderMetaTile: the corners of the meta tile and its size.
Area(meta) ==
    [a |-> TileToMercator(meta.x, meta.y, meta.zoom),
     b |-> TileToMercator(meta.x + meta.width, meta.y + meta.height, meta.zoom),
     width |-> meta.width * TileLength, height |-> meta.height * TileLength]

\* renderArea, up to the labels and from them on.
DrawObjects(geo, styles, canvas, meta) ==
    renderObjects(Paint(NothingDrawn, "fill", Background(canvas)), geo, styles, Area(meta))
PlacedShields(d) == placeShields(SortLabels(d.shields))
PlacedLabels(d)  == placeLabels(SortLabels(d.labels))
DrawTexts(d) ==
    LET shields == PlacedShields(d)
    IN  compositeLayers(renderLabels(renderLabels(renderShields(d, shields), shields),
                                     PlacedLabels(d)))

\* sliceTile: a piece of the picture is painted over what is on the slice, which is
\* cleared only with the canvas.
SliceUnshifted(meta, tile) == Point(tile.x * TileLength, tile.y * TileLength)   \* mutant
SliceCorner(meta, tile) ==
    Point((tile.x - meta.x) * TileLength, (tile.y - meta.y) * TileLength)
sliceTile(slice, meta, tile) == Append(slice, SliceCorner(meta, tile))

\* renderEmptyTile: the background on a cleared slice.
renderEmptyTile(canvas) == << Background(canvas) >>
-----------------------------------------------------------------------------
(* Reference: the order in which everything is seen.                       *)

Rank(mark) == CHOOSE i \in 1..5 : mark[1] = <<"fill", "casing", "stroke", "icon",
                                              "line label">>[i]
KindRank(obj) == CHOOSE i \in 1..3 : obj[1] = <<"relations", "ways", "nodes">>[i]
\* By layer, by what it is, by z-index, by kind and by id.
Depth(styles, mark) ==
    LET z == styles[mark[2]]["z-index"]
    IN  <<Quotient(z, 100), Rank(mark), z, KindRank(mark[2]), mark[2][2]>>
Deeper(a, b) == \E i \in 1..5 : a[i] < b[i] /\ \A j \in 1..i - 1 : a[j] = b[j]
Seen(geo, styles) ==
    {<<what, obj>> \in {"fill", "casing", "stroke", "icon"} \X (DOMAIN styles) :
       LET s == styles[obj]  kind == obj[1]
       IN  CASE what = "fill" -> \/ kind = "ways" /\ Closed(Get(geo, obj))
                                 \/ kind = "relations" /\ Get(geo, obj).wayIDs # << >>
             [] what = "casing" -> kind # "relations" /\ s["casing-width"] > 0
             [] what = "stroke" -> kind # "relations" /\ s["width"] > 0
             [] what = "icon" -> /\ kind = "nodes" /\ s["icon-image"] # Empty
                                 /\ s["icon-width"] # 0 /\ s["icon-height"] # 0}
=============================================================================
