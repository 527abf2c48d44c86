------------------------------- MODULE GeoStore -------------------------------
(***************************************************************************)
(* Geodata and Archive: the objects with their indices, saved to a file    *)
(* and loaded from it; and the rectangle of a job.                         *)
(*                                                                         *)
(* Files are sequences of blocks of the size of a leaf.                    *)
(***************************************************************************)
EXTENDS RTree

CONSTANTS
    PageBlocks,   \* PAGE_SIZE in blocks
    SerBlocks,    \* blocks of data.ser; its content is in the first one
    Norm,         \* half the width of the map in coordinates
    Overlap,      \* 1 / TILE_OVERLAP
    MetaTileLength     \* META_TILE_SIZE, in tiles

ASSUME StoreAssumption ==
    {PageBlocks, SerBlocks, Norm, Overlap, MetaTileLength} \subseteq Nat \ {0}

Padding == "padding"

\* calculateBoundingBox of node ids, of way ids and of relations, whose nodes and ways
\* are taken together.
NodesBox(geo, ids) == BoundingBox([i \in DOMAIN ids |-> PointRect(geo.nodes[ids[i] + 1].loc)])
WaysBox(geo, ids)  ==
    BoundingBox([i \in DOMAIN ids |-> NodesBox(geo, geo.ways[ids[i] + 1].nodeIDs)])
RelationBox(geo, rel) ==
    CASE rel.wayIDs = << >>  -> NodesBox(geo, rel.nodeIDs)
      [] rel.nodeIDs = << >> -> WaysBox(geo, rel.wayIDs)
      [] OTHER -> enclose(NodesBox(geo, rel.nodeIDs), WaysBox(geo, rel.wayIDs))

\* buildTrees: what the three trees are built from.
Boxes(geo) ==
    [nodes     |-> [i \in DOMAIN geo.nodes |-> PointRect(geo.nodes[i].loc)],
     ways      |-> [i \in DOMAIN geo.ways |-> NodesBox(geo, geo.ways[i].nodeIDs)],
     relations |-> [i \in DOMAIN geo.relations |-> RelationBox(geo, geo.relations[i])]]

Objects == {"nodes", "ways", "relations"}
\* Some kinds of objects, in the order in which their trees are saved.
Ordered(kinds) ==
    LET there(o) == IF o \in kinds THEN <<o>> ELSE << >>
    IN  there("nodes") \o there("ways") \o there("relations")
\* insertNodes, insertWays, insertRelations: there is a tree if there are objects.
Trees(geo) == Ordered({o \in Objects : geo[o] # << >>})

\* Archive::write: the header's entries, and each file from a new page on.
RoundPage(n) == Ceil(n, PageBlocks) * PageBlocks
FileEnd(entries) == IF entries = << >> THEN 1 ELSE Last(entries).offset + Last(entries).length
Entries(files) ==
    FoldLeft(LAMBDA es, f : Append(es, [offset |-> RoundPage(FileEnd(es)), length |-> Len(f)]),
             << >>, files)
Padded(blocks) ==
    blocks \o [i \in 1..RoundPage(Len(blocks)) - Len(blocks) |-> Padding]
ArchiveOf(files) == FoldLeft(LAMBDA a, f : Padded(a \o f), Padded(<<Entries(files)>>), files)

\* Geodata::save: data.ser has the objects and the inner nodes of the trees, the other
\* files have the leaves.
save(geo) ==
    LET built == [o \in ToSet(Trees(geo)) |-> build(Boxes(geo)[o])]
        ser == [objects |-> geo, trees |-> [o \in DOMAIN built |-> built[o].tree]]
    IN  ArchiveOf(<< <<ser>> \o [i \in 1..SerBlocks - 1 |-> Padding] >>
                  \o [i \in DOMAIN Trees(geo) |-> built[Trees(geo)[i]].leaves])

\* Geodata::load, with setLeafFile for the trees there are, in the order they were saved.
load(archive) ==
    LET entries == archive[1]
        ser == archive[entries[1].offset + 1]
        present == Ordered(DOMAIN ser.trees)
        region(e) == SubSeq(archive, e.offset + 1, e.offset + e.length)
        place(o) == CHOOSE i \in DOMAIN present : present[i] = o
    IN  [objects |-> ser.objects, trees |-> ser.trees,
         leaves |-> [o \in DOMAIN ser.trees |-> region(entries[place(o) + 1])]]

\* getNodeIDs, getWayIDs, getRelationIDs, containsData.
getIDs(data, o, rect) ==
    IF o \in DOMAIN data.trees THEN search(data.trees[o], data.leaves[o], rect) ELSE << >>
containsData(data, rect) ==
    \E o \in DOMAIN data.trees : TreeContains(data.trees[o], data.leaves[o], rect)

\* tileToMercator: y grows downwards for tiles and upwards for coordinates.
TileToMercator(tx, ty, zoom) ==
    Point(Quotient(tx * 2 * Norm, 2^zoom) - Norm, -(Quotient(ty * 2 * Norm, 2^zoom) - Norm))
mercatorToTile(p, zoom) ==
    Point(Quotient(2^zoom * (Norm + p.x), 2 * Norm), Quotient(2^zoom * (Norm - p.y), 2 * Norm))

\* Job::computeRect: the rectangle of a tile or meta tile, and its overlap.
computeRect(tx, ty, width, height, zoom) ==
    LET a == TileToMercator(tx, ty, zoom)
        b == TileToMercator(tx + width, ty + height, zoom)
        tile == Rect(a.x, a.y, b.x, b.y)
    IN  grow(tile, Quotient(getWidth(tile), Overlap), Quotient(getHeight(tile), Overlap))
-----------------------------------------------------------------------------
(* Reference: an object is found when its box touches the rectangle.       *)

Touching(geo, o, rect) ==
    {i \in 0..Len(geo[o]) - 1 :
       LET b == Boxes(geo)[o][i + 1]
       IN  /\ b.minX <= rect.maxX /\ rect.minX <= b.maxX
           /\ b.minY <= rect.maxY /\ rect.minY <= b.maxY}
=============================================================================
