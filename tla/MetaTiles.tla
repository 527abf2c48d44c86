----------------------------- MODULE MetaTiles -----------------------------
(***************************************************************************)
(* Tile identifiers and meta tiles (TileIdentifier, MetaIdentifier).       *)
(*                                                                         *)
(* The server renders squares of META_TILE_SIZE x META_TILE_SIZE tiles at  *)
(* once.  A MetaIdentifier is the square a tile lies in; prerendering      *)
(* walks from a square to the squares that cover it one zoom level below.  *)
(* The width and the height the class stores are functions of x, y and z.  *)
(***************************************************************************)
EXTENDS Integers, Sequences

CONSTANTS MetaSize,   \* META_TILE_SIZE (include/settings.hpp), 4 in the build
          Styles,     \* stylesheet paths
          Formats     \* image formats

ASSUME MetaSizeAssumption == MetaSize \in Nat \ {0}

\* 1 << zoom: the number of tile columns, and of rows, at a zoom level.
Extent(z) == 2 ^ z

TileIds == [x : Int, y : Int, z : Int, style : Styles, fmt : Formats]

\* A MetaIdentifier is a TileIdentifier whose position is its north-west tile.
MetaIds == TileIds

\* MetaIdentifier's constructor: round down to a multiple of META_TILE_SIZE.
MetaOf(t) == [t EXCEPT !.x = (t.x \div MetaSize) * MetaSize,
                       !.y = (t.y \div MetaSize) * MetaSize]

\* The side that starts at coordinate a is clipped at the edge of the world.
Side(a, z) == IF a + MetaSize <= Extent(z) THEN MetaSize ELSE Extent(z) - a
Width(m)  == Side(m.x, m.z)
Height(m) == Side(m.y, m.z)

\* A tile with the stylesheet and the format of m.
TileAt(m, a, b, z) == [x |-> a, y |-> b, z |-> z, style |-> m.style, fmt |-> m.fmt]

\* MetaIdentifier::getIdentifiers, the tiles of the square.
Identifiers(m) == { TileAt(m, tx, ty, m.z) :
                       tx \in m.x .. (m.x + Width(m) - 1),
                       ty \in m.y .. (m.y + Height(m) - 1) }

\* Mutant: the last column is left out.
ContainsShort(m, t) == /\ m.x <= t.x /\ t.x < m.x + Width(m) - 1
                       /\ m.y <= t.y /\ t.y < m.y + Height(m)
                       /\ t.z = m.z
                       /\ t.style = m.style
\* Mutant: the zoom level is not compared.
ContainsAnyZoom(m, t) == /\ m.x <= t.x /\ t.x < m.x + Width(m)
                         /\ m.y <= t.y /\ t.y < m.y + Height(m)
                         /\ t.style = m.style

\* MetaIdentifier::contains.  It does not look at the image format.
Contains(m, t) == /\ m.x <= t.x /\ t.x < m.x + Width(m)
                  /\ m.y <= t.y /\ t.y < m.y + Height(m)
                  /\ t.z = m.z
                  /\ t.style = m.style

\* The extent of the zoom level below m.
BelowShort(m) == Extent(m.z + 1) - MetaSize   \* mutant: the last squares are lost
Below(m) == Extent(m.z + 1)

\* MetaIdentifier::getSubIdentifiers, in the order the code pushes them.
SubIdentifiers(m) ==
    LET Sub(a, b) == MetaOf(TileAt(m, a, b, m.z + 1))
        right  == 2 * m.x + MetaSize
        bottom == 2 * m.y + MetaSize
    IN  <<Sub(2 * m.x, 2 * m.y)>>
        \o (IF right < Below(m) THEN <<Sub(right, 2 * m.y)>> ELSE << >>)
        \o (IF bottom < Below(m) THEN <<Sub(2 * m.x, bottom)>> ELSE << >>)
        \o (IF right < Below(m) /\ bottom < Below(m) THEN <<Sub(right, bottom)>> ELSE << >>)

\* The identifier of the square a prerendering starts from.
Root(s, f) == [x |-> 0, y |-> 0, z |-> 0, style |-> s, fmt |-> f]
=============================================================================
