-------------------------- MODULE MCHttpConnection --------------------------
(***************************************************************************)
(* Instances of HttpConnection for TLC.                                    *)
(***************************************************************************)
EXTENDS HttpConnection

CONSTANTS w1, w2, net, r1, r2, a, b, e

\* Two areas without data: both show the empty tile of their style.
McTileOf == [x \in Areas |-> e]
=============================================================================
