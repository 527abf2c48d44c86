-------------------------- MODULE MCRequestManager --------------------------
(***************************************************************************)
(* Instances of RequestManager for TLC.                                    *)
(***************************************************************************)
EXTENDS RequestManager, TLC

CONSTANTS w1, w2, w3, r1, r2, r3, style, png, svg

Tile(x, y, z, f) == [x |-> x, y |-> y, z |-> z, style |-> style, fmt |-> f]

\* Two tiles of the zoom 1 meta tile, which is prerendered too, and a url that
\* is malformed, or of an unknown format, or names a tile without data.
ResolveOneFormat ==
    [r \in Requests |->
        CASE r = r1 -> {Tile(0, 1, 1, png)}
          [] r = r2 -> {Tile(1, 1, 1, png)}
          [] OTHER  -> {Malformed, UnknownFormat, Tile(0, 0, 2, png)}]

\* The same with the second tile asked for as svg.
ResolveMixed ==
    [r \in Requests |-> IF r = r2 THEN {Tile(1, 1, 1, svg)} ELSE ResolveOneFormat[r]]

\* Without data at zoom 1, prerendering ends there and requests find empty tiles.
NoDataAt1 == {<<0, 0, 1>>}
\* With META_TILE_SIZE 2, three of the four meta tiles of zoom 2 are empty.
NoDataAt2 == {<<2, 0, 2>>, <<0, 2, 2>>, <<2, 2, 2>>}

WorkerSymmetry == Permutations(Workers)

\* What prerendering has to reach, stated on positions and not with
\* SubIdentifiers: the aligned squares of zoom 0 .. PrerenderLevel all of whose
\* proper ancestors contain data.
AncestorAt(m, z) ==
    MetaOf([m EXCEPT !.x = @ \div Extent(m.z - z), !.y = @ \div Extent(m.z - z), !.z = z])
PrerenderArea(s) ==
    {m \in {MetaOf([x |-> x, y |-> y, z |-> z, style |-> s, fmt |-> PNG]) :
               x, y \in 0 .. Extent(PrerenderLevel) - 1, z \in 0 .. PrerenderLevel} :
        /\ m.x < Extent(m.z) /\ m.y < Extent(m.z)
        /\ \A z \in 0 .. m.z - 1 : ContainsData(AncestorAt(m, z))}

\* Every meta tile in that area gets a prerendering job once its stylesheet was
\* loaded, unless the server is stopped: neither the size test of
\* getSubIdentifiers, nor the skipping of empty squares, nor user requests that
\* go first lose a part of the map.
PrerenderCovers ==
    \A s \in Styles : \A m \in PrerenderArea(s) :
        <>(loads[s] > 0) =>
            <>(stopped \/ \E w \in At({"finished"}) : mid[w] = m /\ req[w] = NoRequest)
=============================================================================
