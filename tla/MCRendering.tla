---------------------------- MODULE MCRendering ----------------------------
(***************************************************************************)
(* Instances of Rendering for TLC.                                         *)
(***************************************************************************)
EXTENDS Rendering, TLC

CONSTANTS w1, w2, s1, high, low, none, a1, a2, b1, e1

\* A meta tile above the low zoom levels and one below, and one without data, whose
\* empty tile counts as a low zoom level.
McStyleOf   == [i \in Ids |-> s1]
McLowZoom   == {b1, e1} \cap Ids
McTilesOf   == [m \in Metas |-> CASE m = high -> <<a1, a2>>
                                  [] m = low  -> <<b1>>
                                  [] m = none -> << >>]
McMetaStyle == [m \in Metas |-> s1]
McEmptyID   == [s \in Styles |-> e1]

WorkerSymmetry == Permutations(Workers)
=============================================================================
