------------------------------- MODULE TileUrl -------------------------------
(***************************************************************************)
(* TileIdentifier::Create: the tile that a url names.                      *)
(*                                                                         *)
(* A url is split at its slashes into parts, and a part at its dots into   *)
(* subparts; a subpart is a sequence of digits, signs and words.           *)
(***************************************************************************)
EXTENDS Integers, SequencesExt

CONSTANTS
    MaxZoom,    \* 18
    IntBits     \* 32: the width of int

ASSUME UrlAssumption == MaxZoom \in Nat /\ IntBits \in Nat \ {0}

Malformed          == [error |-> "MalformedURLException"]
UnknownImageFormat == [error |-> "UnknownImageFormatException"]
UrlErrors          == {Malformed, UnknownImageFormat}

\* x * 10 + d in an int: an overflow wraps, as compilers have it.
Wrap(i) == LET m == i % 2^IntBits IN IF m >= 2^(IntBits - 1) THEN m - 2^IntBits ELSE m

Digits   == {"0", "1", "2", "3", "4", "5", "6", "7", "8", "9"}
Value(d) == (CHOOSE i \in 1..10 : <<"0", "1", "2", "3", "4", "5", "6", "7", "8", "9">>[i]
                                   = d) - 1

\* stringToInt: nothing but digits after the sign, and maybe no digit at all.
Unsigned(text) == IF text # << >> /\ Head(text) = "-" THEN Tail(text) ELSE text
IsInt(text)    == \A i \in DOMAIN Unsigned(text) : Unsigned(text)[i] \in Digits
UnsignedToInt(text) ==   \* mutant: the sign is forgotten
    FoldLeft(LAMBDA v, d : Wrap(v * 10 + Value(d)), 0, Unsigned(text))
stringToInt(text) ==
    LET x == FoldLeft(LAMBDA v, d : Wrap(v * 10 + Value(d)), 0, Unsigned(text))
    IN  IF Unsigned(text) = text THEN x ELSE Wrap(-x)

\* A whole part as a number: a dot in it is no digit.
PartIsInt(part) == Len(part) = 1 /\ IsInt(part[1])

\* Formats are compared in lower case.
Lower(text) == IF text = <<"PNG">> THEN <<"png">> ELSE text

boundaries(zoom) == 2^zoom

\* The names between the first slash and the zoom, or what stands in for them.
StylesheetPath(parts, styles, default) ==
    LET path == SubSeq(parts, 2, Len(parts) - 3)
    IN  IF path # << >> /\ path \in styles THEN path
        ELSE IF default \in styles THEN default ELSE <<<<".fallback">>>>

InRangeLax(c, zoom) == c >= 0 /\ c <= boundaries(zoom)   \* mutant: off by one
InRange(c, zoom) == c >= 0 /\ c < boundaries(zoom)

Create(parts, styles, default) ==
    LET last == Last(parts)
        z == stringToInt(parts[Len(parts) - 2][1])
        y == stringToInt(last[1])
        x == stringToInt(parts[Len(parts) - 1][1])
    IN  CASE Len(parts) < 4 \/ Len(last) < 2 -> Malformed
          [] Lower(last[2]) \notin {<<"png">>, <<"svg">>} -> UnknownImageFormat
          [] ~PartIsInt(parts[Len(parts) - 2]) \/ z \notin 0..MaxZoom -> Malformed
          [] ~IsInt(last[1]) \/ ~InRange(y, z) -> Malformed
          [] ~PartIsInt(parts[Len(parts) - 1]) \/ ~InRange(x, z) -> Malformed
          [] OTHER -> [x |-> x, y |-> y, zoom |-> z, format |-> Lower(last[2])[1],
                       style |-> StylesheetPath(parts, styles, default)]
-----------------------------------------------------------------------------
(* Reference: the number that a text spells, in unbounded arithmetic.      *)

Spelled(text) ==
    LET v == FoldLeft(LAMBDA n, d : n * 10 + Value(d), 0, Unsigned(text))
    IN  IF Unsigned(text) = text THEN v ELSE -v

Fits(text) == IsInt(text) => Spelled(text) \in -(2^(IntBits - 1))..2^(IntBits - 1) - 1

NumbersFit(parts) ==
    \A i \in DOMAIN parts : \A j \in DOMAIN parts[i] : Fits(parts[i][j])

\* The tiles there are, and whether a url of the form /style/zoom/x/y.format names one.
Tiles == UNION {[zoom : {z}, x : 0..2^z - 1, y : 0..2^z - 1, format : {"png", "svg"}] :
                  z \in 0..MaxZoom}
Spells(parts, tile) ==
    LET n == Len(parts)
    IN  /\ n >= 4
        /\ PartIsInt(parts[n - 2]) /\ Spelled(parts[n - 2][1]) = tile.zoom
        /\ PartIsInt(parts[n - 1]) /\ Spelled(parts[n - 1][1]) = tile.x
        /\ Len(parts[n]) >= 2 /\ IsInt(parts[n][1]) /\ Spelled(parts[n][1]) = tile.y
        /\ Lower(parts[n][2]) = <<tile.format>>
=============================================================================
