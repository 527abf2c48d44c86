------------------------------ MODULE XmlStream ------------------------------
(***************************************************************************)
(* The streaming half of eaglexml: stream_cache, which holds a piece of    *)
(* the file in a buffer, and the Absorber, which the parser reads with.    *)
(*                                                                         *)
(* The text is a sequence of symbols: a punctuation mark, or a name or a   *)
(* value, or a part of one.  Texts are pointed to, not copied: a span is a *)
(* place in the buffer with a length.  When the buffer is full, only the   *)
(* texts of the active node move to its front, with what is still to be    *)
(* read; all other texts are lost.                                         *)
(***************************************************************************)
EXTENDS Integers, Sequences, SequencesExt, FiniteSetsExt

Sym(s) == <<"sym", s>>
NUL   == Sym("0")       \* the character 0
Unset == Sym("unset")   \* what a new buffer holds
Space == Sym(" ")

Span(at, end) == [at |-> at, len |-> end - at]
Null == [at |-> 0, len |-> 0]
\* name_size and value_size: a null pointer has the size of the empty string.
Size(span) == IF span.at = 0 THEN 0 ELSE span.len
TextOf(x, span) == SubSeq(x.mem, span.at, span.at + Size(span) - 1)
\* What is at hand as a C string.
CString(x, span) ==
    IF span.at = 0 THEN << >>
    ELSE LET end == CHOOSE e \in span.at..Len(x.mem) :
                      x.mem[e] = NUL /\ \A i \in span.at..e - 1 : x.mem[i] # NUL
         IN  SubSeq(x.mem, span.at, end - 1)

\* copy, and storing a single character.
Put(mem, at, text) ==
    SubSeq(mem, 1, at - 1) \o text \o SubSeq(mem, at + Len(text), Len(mem))
-----------------------------------------------------------------------------
(* stream_cache: mem is the buffer, of which size symbols from begin on    *)
(* are the content; file is what has not been read.                        *)

content_end(x) == x.begin + x.size
\* max_segments_to_read is 1.
calculate_segments(x) == Min({(Len(x.mem) + 1 - content_end(x)) \div x.segment, 1})

\* At the end of the file a 0 follows, and the segment passes for a full one.
read_segments(x) ==
    LET read == SubSeq(x.file, 1, Min({Len(x.file), x.segment}))
        text == IF Len(read) < x.segment THEN Append(read, NUL) ELSE read
    IN  [x EXCEPT !.mem = Put(@, content_end(x), text),
                  !.file = SubSeq(@, Len(read) + 1, Len(@)),
                  !.size = @ + x.segment]

\* A text moves to begin, a 0 is put behind it, and begin moves on.
save_text(s, span) ==
    LET text == TextOf(s, span)
    IN  IF text = << >> THEN [s EXCEPT !.spans = Append(@, Null)]
        ELSE [mem |-> Put(s.mem, s.begin, Append(text, NUL)), begin |-> s.begin + Len(text) + 1,
              spans |-> Append(s.spans, Span(s.begin, s.begin + Len(text)))]

\* The name, the attributes and the value of the active node move, in this order.
AttributesOf(x, node) == IF x.nodes[node].attributes THEN x.attrbuffer ELSE << >>
Texts(node, attrs) ==
    << node.name >>
    \o FlattenSeq([i \in DOMAIN attrs |-> << attrs[i].name, attrs[i].value >>])
    \o << node.value >>
Relocated(attrs, s) ==
    << >> \o [i \in DOMAIN attrs |-> [name |-> s.spans[2 * i], value |-> s.spans[2 * i + 1]]]
SavedButAttributes(x, s) ==   \* mutant: the attributes are not relocated
    [x EXCEPT !.mem = s.mem, !.begin = s.begin, !.nodes[x.active].name = Head(s.spans),
              !.nodes[x.active].value = Last(s.spans)]
Saved(x, s) ==
    [x EXCEPT !.mem = s.mem, !.begin = s.begin,
              !.nodes[x.active].name = Head(s.spans),
              !.nodes[x.active].value = Last(s.spans),
              !.attrbuffer = IF x.nodes[x.active].attributes THEN Relocated(@, s) ELSE @]
save_node(x) ==
    IF x.active = 0 THEN [x EXCEPT !.begin = 1]
    ELSE Saved(x, FoldLeft(save_text, [mem |-> x.mem, begin |-> 1, spans |-> << >>],
                           Texts(x.nodes[x.active], AttributesOf(x, x.active))))

RECURSIVE Doubled(_, _)
Doubled(size, enough) == IF 2 * size > enough THEN 2 * size ELSE Doubled(2 * size, enough)
enlarge(x, need) ==
    LET kept == content_end(x) - 1
    IN  IF calculate_segments(x) > 0 THEN x
        ELSE [x EXCEPT !.mem = SubSeq(@, 1, kept)
                               \o [i \in 1..Doubled(Len(@), x.segment + need + kept) - kept
                                     |-> Unset]]

\* The last reserve symbols of the content, which are those from from on, are kept and become
\* its begin; when there is no room behind them, they move behind the saved node.
Behind(saved, from, reserve) ==
    [saved EXCEPT !.mem = Put(@, saved.begin, SubSeq(@, from, from + reserve - 1)),
                  !.size = reserve]
fetch(x, reserve, need) ==
    LET from == content_end(x) - reserve
    IN  read_segments(IF calculate_segments(x) > 0
                      THEN [x EXCEPT !.begin = from, !.size = reserve]
                      ELSE enlarge(Behind(save_node(x), from, reserve), need))
-----------------------------------------------------------------------------
(* Absorber: the next left symbols of the content, from next on, are still *)
(* to be read.  A sequence, from seq on, is kept until it ends.            *)

Resumed(f, seqSize) ==
    [f EXCEPT !.next = f.begin + seqSize, !.left = f.size - seqSize,
              !.seq = IF @ = 0 THEN 0 ELSE f.begin]
require(x, need) ==
    IF need <= x.left THEN x
    ELSE IF x.seq = 0 THEN Resumed(fetch(x, x.left, need), 0)
    ELSE Resumed(fetch(x, content_end(x) - x.seq, need), x.next - x.seq)

absorb(x, n) == [x EXCEPT !.next = @ + n, !.left = @ - n]
beginSequence(x) == [x EXCEPT !.seq = x.next]
endSequence(x) == [x EXCEPT !.seq = 0]
Sequence(x) == Span(x.seq, x.next)

\* What comes next.
Char(x) == x.mem[x.next]
Comes(x, text) == SubSeq(x.mem, x.next, x.next + Len(text) - 1) = text

\* A parse_error.  The first one is what is thrown.
Fail(x, what) == IF x.error = "none" THEN [x EXCEPT !.error = what] ELSE x

\* A table tells what stops a skip: a symbol of it, or any other one.
Stops(table, symbol) == (symbol \in table.chars) = table.stop
StopAt(chars) == [chars |-> chars, stop |-> TRUE]
StopBut(chars) == [chars |-> chars, stop |-> FALSE]

RECURSIVE skip(_, _)
SkipIn(x, table) ==
    LET stops == {i \in x.next..x.next + x.left - 1 : Stops(table, x.mem[i])}
    IN  IF stops = {} THEN skip(absorb(x, x.left), table)
        ELSE absorb(x, Min(stops) - x.next)
skip(x, table) == SkipIn(require(x, 1), table)

NotTheEnd(x) == IF Char(x) = NUL THEN Fail(x, "unexpected end of data") ELSE x
skipToChar(x, char) == NotTheEnd(skip(x, StopAt({char, NUL})))

\* The loops that skip what the flags do not ask for, up to an end of several symbols.
RECURSIVE SkipPast(_, _)
PastOrOn(x, end) ==
    CASE x.error # "none" -> x
      [] x.error = "none" /\ Comes(x, end) -> absorb(x, Len(end))
      [] OTHER -> SkipPast(absorb(x, 1), end)
SkipPast(x, end) == PastOrOn(require(skipToChar(x, Head(end)), Len(end)), end)

\* The buffer has twice the size of a segment or more.
OpenStream(text, buffer, segment) ==
    require([mem |-> [i \in 1..buffer |-> Unset], begin |-> 1, size |-> 0, file |-> text,
             segment |-> segment, next |-> 1, left |-> 0, seq |-> 0, active |-> 0,
             nodes |-> << >>, attrbuffer |-> << >>, error |-> "none"], 1)
=============================================================================
