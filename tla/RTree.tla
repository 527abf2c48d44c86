-------------------------------- MODULE RTree --------------------------------
(***************************************************************************)
(* RTree: the index of a sequence of rectangles (of points, as rectangles  *)
(* without extent), its leaves in a file and its inner nodes in an array.  *)
(* Ids and positions count from 0, as in the program.                      *)
(***************************************************************************)
EXTENDS Rectangles

CONSTANTS
    LeafElements,   \* objects of a leaf
    NUM_CHILDREN    \* children of an inner node

ASSUME TreeAssumption ==
    LeafElements \in Nat \ {0} /\ NUM_CHILDREN \in Nat \ {0, 1}

Ceil(a, b)  == (a + b - 1) \div b
CeilSqrt(a) == CHOOSE s \in 0..a : s * s >= a /\ (s = 0 \/ (s - 1) * (s - 1) < a)

\* The pieces of length n that a sequence is cut into; the last one may be shorter.
Chunks(seq, n) ==
    [i \in 1..Ceil(Len(seq), n) |-> SubSeq(seq, (i - 1) * n + 1, Smaller(i * n, Len(seq)))]

\* A sequence whose elements are computed once.
Stored(seq) == seq \o << >>

\* buildLeaves: by x, and within slices of that order by y.  (std::sort leaves the order
\* of equal ones open; ids decide here.)
SortedBy(ids, key) ==
    LET before(a) == {b \in ToSet(ids) : key[b] < key[a] \/ (key[b] = key[a] /\ b < a)}
    IN  Stored([i \in DOMAIN ids |->
                  CHOOSE a \in ToSet(ids) : Cardinality(before(a)) = i - 1])
SliceSize(size) == CeilSqrt(Ceil(size, LeafElements)) * LeafElements
buildLeaves(data) ==
    LET getX == [id \in 0..Len(data) - 1 |-> getCenter(data[id + 1]).x]
        getY == [id \in 0..Len(data) - 1 |-> getCenter(data[id + 1]).y]
        byX  == SortedBy([i \in DOMAIN data |-> i - 1], getX)
        slices == Chunks(byX, SliceSize(Len(data)))
    IN  FlattenSeq([i \in DOMAIN slices |-> SortedBy(slices[i], getY)])

\* writeLeaves: the leaf file, and the nodes above it, whose children are -1.
Leaves(data) ==
    LET chunks == Chunks(buildLeaves(data), LeafElements)
    IN  [i \in DOMAIN chunks |->
           [ids |-> chunks[i], data |-> [j \in DOMAIN chunks[i] |-> data[chunks[i][j] + 1]]]]
LeafNodes(leaves) ==
    LET bounds == Stored([i \in DOMAIN leaves |-> BoundingBox(leaves[i].data)])
        chunks == Chunks(bounds, NUM_CHILDREN)
    IN  [i \in DOMAIN chunks |->
           [bounds |-> chunks[i], children |-> [j \in DOMAIN chunks[i] |-> -1]]]

\* buildLevels: a level above the nodes from start on, until there is one node.  (There are
\* fewer levels than nodes of the first one.)
LevelAbove(t) ==
    LET level == [i \in 1..Len(t.nodes) - t.start |-> t.start + i - 1]
        chunks == Chunks(level, NUM_CHILDREN)
        parent(c) == [bounds |-> [j \in DOMAIN c |-> BoundingBox(t.nodes[c[j] + 1].bounds)],
                      children |-> c]
    IN  [nodes |-> t.nodes \o [i \in DOMAIN chunks |-> parent(chunks[i])],
         start |-> Len(t.nodes)]
buildLevels(first) ==
    FoldLeft(LAMBDA t, node : IF Len(t.nodes) - t.start <= 1 THEN t ELSE LevelAbove(t),
             [nodes |-> first, start |-> 0], first).nodes

isLeaf(node) == node.children[1] = -1

\* build: the root comes first in the end.
Turned(tree) ==
    [i \in DOMAIN tree |->
       LET node == tree[Len(tree) + 1 - i]
       IN  IF isLeaf(node) THEN node
           ELSE [node EXCEPT !.children =
                   [j \in DOMAIN node.children |-> Len(tree) - 1 - node.children[j]]]]
build(boxes) ==
    LET leaves == Stored(Leaves(Stored(boxes)))
    IN  [tree |-> Turned(buildLevels(LeafNodes(leaves))), leaves |-> leaves]

\* readLeaf: the number of a leaf in the file, from the place of its node; what is behind
\* the file's end is not a leaf.
readLeaf(tree, file, nodeIdx, childIdx) ==
    file[(Len(tree) - 1 - nodeIdx) * NUM_CHILDREN + childIdx + 1]

searchLeaf(leaf, rect) ==
    FoldLeft(LAMBDA ids, j : IF intersects(rect, leaf.data[j]) THEN Append(ids, leaf.ids[j])
                             ELSE ids,
             << >>, [j \in DOMAIN leaf.ids |-> j])

\* The ids below each node.
getSubTree(tree, file) ==
    LET below[idx \in 0..Len(tree) - 1] ==
          LET node == tree[idx + 1]
          IN  FlattenSeq([i \in DOMAIN node.bounds |->
                IF isLeaf(node) THEN readLeaf(tree, file, idx, i - 1).ids
                                ELSE below[node.children[i]]])
    IN  below

\* search, from each node on.  (The order of the result, which is the order of a stack, is
\* not kept: sortObjects sorts it.)
SearchNode(tree, file, rect) ==
    LET from[idx \in 0..Len(tree) - 1] ==
          LET node == tree[idx + 1]
              below(i) ==
                IF isLeaf(node)
                THEN LET leaf == readLeaf(tree, file, idx, i - 1)
                     IN  IF contains(rect, node.bounds[i]) THEN leaf.ids
                                                           ELSE searchLeaf(leaf, rect)
                ELSE IF contains(rect, node.bounds[i])
                     THEN getSubTree(tree, file)[node.children[i]]
                     ELSE from[node.children[i]]
          IN  FlattenSeq([i \in DOMAIN node.bounds |->
                IF intersects(rect, node.bounds[i]) THEN below(i) ELSE << >>])
    IN  from
search(tree, file, rect) == IF tree = << >> THEN << >> ELSE SearchNode(tree, file, rect)[0]

\* search with returnOnFirst: bounds that are contained are enough.
ContainsNode(tree, file, rect) ==
    LET from[idx \in 0..Len(tree) - 1] ==
          LET node == tree[idx + 1]
          IN  \E i \in DOMAIN node.bounds :
                \/ contains(rect, node.bounds[i])
                \/ /\ intersects(rect, node.bounds[i])
                   /\ IF isLeaf(node)
                      THEN searchLeaf(readLeaf(tree, file, idx, i - 1), rect) # << >>
                      ELSE from[node.children[i]]
    IN  from
TreeContains(tree, file, rect) == tree # << >> /\ ContainsNode(tree, file, rect)[0]
=============================================================================
