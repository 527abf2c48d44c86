------------------------------ MODULE XmlParser ------------------------------
(***************************************************************************)
(* The pull parser of eaglexml, with the flags that the importer gives it: *)
(* no data nodes, whitespace normalised and trimmed, end tags validated.   *)
(*                                                                         *)
(* The caller asks for the first child or the next sibling of a node, and  *)
(* the parser reads on until it has it.  Nodes live on a stack, so that a  *)
(* node has the memory of its last sibling, and all nodes share one buffer *)
(* of attributes.                                                          *)
(***************************************************************************)
EXTENDS XmlStream, TLC

CONSTANT TagRoom    \* symbols that a segment of the stack of tag names holds

lookup_whitespace == {Space}
OverWhitespace == StopBut(lookup_whitespace)
lookup_node_name == StopAt({Space, Sym("/"), Sym(">"), Sym("?"), NUL})
lookup_attribute_name ==
    StopAt({Space, Sym("/"), Sym("<"), Sym(">"), Sym("="), Sym("?"), Sym("!"), NUL})
lookup_text == StopAt({Sym("<"), NUL})
lookup_text_pure_with_ws == StopAt({Sym("<"), NUL, Sym("&"), Space})
lookup_attribute_data_1      == StopAt({Sym("'"), NUL})
lookup_attribute_data_1_pure == StopAt({Sym("'"), NUL, Sym("&")})
lookup_attribute_data_2      == StopAt({Sym("\""), NUL})
lookup_attribute_data_2_pure == StopAt({Sym("\""), NUL, Sym("&")})
attribute_value_pred(quote) ==
    IF quote = Sym("'") THEN lookup_attribute_data_1 ELSE lookup_attribute_data_2
attribute_value_pure_pred(quote) ==
    IF quote = Sym("'") THEN lookup_attribute_data_1_pure ELSE lookup_attribute_data_2_pure
-----------------------------------------------------------------------------
(* Character references, and whitespace that is condensed.                 *)

Named == ("amp" :> "&") @@ ("apos" :> "'") @@ ("quot" :> "\"") @@ ("gt" :> ">") @@ ("lt" :> "<")
\* The digits of a number are one symbol with what it is the code of.
Code(s) == <<"code", s>>
NoCharacter == "none"
insert_coded_character(code) ==
    IF code[2] = NoCharacter THEN [ok |-> FALSE, out |-> << >>]
    ELSE [ok |-> TRUE, out |-> <<Sym(code[2])>>]

\* A replacement at the begin of the text: how many symbols it is for, and what it is.
\* Without digits the code is 0.
Nothing == [ok |-> TRUE, out |-> << >>, n |-> 0]
Replacement(text) ==
    CASE Len(text) < 2 \/ Head(text) # Sym("&") -> Nothing
      [] text[2] = Sym("#") ->
           LET digits == Len(text) > 2 /\ text[3][1] = "code"
               n == IF digits THEN 4 ELSE 3
               put == insert_coded_character(IF digits THEN text[3] ELSE Code("0"))
           IN  [ok |-> put.ok /\ n <= Len(text) /\ text[n] = Sym(";"), out |-> put.out, n |-> n]
      [] Len(text) > 2 /\ text[2][2] \in DOMAIN Named /\ text[3] = Sym(";") ->
           [ok |-> TRUE, out |-> <<Sym(Named[text[2][2]])>>, n |-> 3]
      [] OTHER -> Nothing

RECURSIVE Expand(_, _)
Expand(text, normalize) ==
    LET blanks == CHOOSE n \in 0..Len(text) :
                    /\ \A i \in 1..n : text[i] = Space
                    /\ n < Len(text) => text[n + 1] # Space
        before(first, rest) == [ok |-> rest.ok, out |-> first \o rest.out]
        with(first, n) == before(first, Expand(SubSeq(text, n + 1, Len(text)), normalize))
        begun(r) == CASE ~r.ok -> r
                      [] r.ok /\ r.n > 0 -> with(r.out, r.n)
                      [] r.ok /\ r.n = 0 /\ normalize /\ blanks > 0 -> with(<<Space>>, blanks)
                      [] OTHER -> with(<<Head(text)>>, 1)
    IN  IF text = << >> THEN [ok |-> TRUE, out |-> << >>] ELSE begun(Replacement(text))

\* Of the sequence, what comes after the first symbol that may need it is replaced in its
\* place; the sequence ends at the end of the span.
ReplaceFrom(x, offset, text) ==
    LET done == [x EXCEPT !.mem = Put(@, x.seq + offset, text.out)]
    IN  [x |-> IF text.ok THEN done ELSE Fail(done, "character reference"),
         span |-> Span(x.seq, x.seq + offset + Len(text.out))]
ExpandFrom(x, offset, normalize) ==
    ReplaceFrom(x, offset, Expand(SubSeq(x.mem, x.seq + offset, x.next - 1), normalize))
SkipExpanding(x, stop, normalize) == ExpandFrom(skip(x, stop), x.next - x.seq, normalize)
skip_and_expand(x, stop, pure, normalize) == SkipExpanding(skip(x, pure), stop, normalize)
-----------------------------------------------------------------------------
(* The stacks: nodes, of which the first top are open, and the names of    *)
(* open tags.                                                              *)

NewNode == [name |-> Null, value |-> Null, attributes |-> FALSE]
buyNodeOnStack(x) ==
    [x EXCEPT !.nodes = Append(SubSeq(@, 1, x.top), NewNode), !.top = @ + 1,
              !.active = x.top + 1, !.got = x.top + 1]

\* The buffer is cleared for a node, which gets it from its first attribute on.
buyAttribute(x, name) ==
    LET attr == [name |-> name, value |-> Null]
    IN  [x EXCEPT !.attrbuffer = IF x.nodes[x.top].attributes THEN Append(@, attr) ELSE <<attr>>,
                  !.nodes[x.top].attributes = TRUE]

\* A name that has no room in the segment begins the next one.
Used(segment) == FoldLeft(LAMBDA n, name : n + Len(name) + 1, 0, segment)
pushTag(x, name) ==
    IF Used(Last(x.tagstack)) + Len(name) + 1 <= TagRoom
    THEN [x EXCEPT !.tagstack = Append(Front(@), Append(Last(@), name))]
    ELSE [x EXCEPT !.tagstack = Append(@, <<name>>)]

\* top looks before the segment when the segment is empty, and takes what is there for the size
\* of a name that no end tag has; only pop goes back to the segment before it.
topTag(x) == IF Last(x.tagstack) = << >> THEN <<Unset>> ELSE Last(Last(x.tagstack))
popTag(x) ==
    LET segments == IF Last(x.tagstack) = << >> THEN Front(x.tagstack) ELSE x.tagstack
    IN  [x EXCEPT !.tagstack = Append(Front(segments), Front(Last(segments)))]
-----------------------------------------------------------------------------
(* What the parser reads.  got is the node that it returns.                *)

Status == {"parse_content", "parse_node", "parse_endtag", "close_node", "eof", "illegal"}
Then(x, status) == [x EXCEPT !.status = status]
Expect(x, char) == IF Char(x) = char THEN absorb(x, 1) ELSE Fail(x, "expected")
Terminate(x, span) == [x EXCEPT !.mem[span.at + Size(span)] = NUL]

\* parse_content: the text of the node on top if it has just begun, which is trimmed, or
\* text that is skipped.  The 0 behind the text may replace what comes next, ch, which is
\* looked at before.
Value(x, span) ==
    LET end   == span.at + span.len
        blank == span.len > 0 /\ x.mem[end - 1] = Space
        value == Span(span.at, IF blank THEN end - 1 ELSE end)
    IN  Terminate([endSequence(x) EXCEPT !.nodes[x.top].value = value], value)
ContentEnds(x, ch) ==
    CASE ch = Sym("<") /\ x.mem[x.next + 1] = Sym("/") -> Then(absorb(x, 2), "parse_endtag")
      [] ch = Sym("<") /\ x.mem[x.next + 1] # Sym("/") -> Then(absorb(x, 1), "parse_node")
      [] OTHER -> IF x.top = 0 THEN Then(x, "eof") ELSE Fail(x, "unexpected end of data")
ContentRead(read, begun) ==
    ContentEnds(require(IF begun THEN Value(read.x, read.span) ELSE read.x, 2), Char(read.x))
parse_content(x, begun) ==
    ContentRead(IF begun THEN skip_and_expand(beginSequence(skip(x, OverWhitespace)), lookup_text,
                                              lookup_text_pure_with_ws, TRUE)
                ELSE [x |-> skip(x, lookup_text), span |-> Null], begun)

\* parse_node_attributes: one attribute, up to the next one.
ValueEnds(x, span, quote) ==
    IF Char(x) # quote THEN Fail(x, "expected quote")
    ELSE skip(Terminate(absorb(x, 1), span), OverWhitespace)
ValueRead(read, quote) ==
    ValueEnds([endSequence(read.x) EXCEPT !.attrbuffer[Len(read.x.attrbuffer)].value = read.span],
              read.span, quote)
ValueBegins(x, quote) ==
    IF quote \notin {Sym("'"), Sym("\"")} THEN Fail(x, "expected quote")
    ELSE ValueRead(skip_and_expand(beginSequence(absorb(x, 1)), attribute_value_pred(quote),
                                   attribute_value_pure_pred(quote), FALSE), quote)
AttributeValue(x) == ValueBegins(x, Char(x))

Equals(x) ==
    IF x.error # "none" THEN x
    ELSE AttributeValue(require(skip(Terminate(x, Last(x.attrbuffer).name), OverWhitespace), 2))
AttributeName(x) ==
    Equals(Expect(require(skip(endSequence(buyAttribute(x, Sequence(x))), OverWhitespace), 1),
                  Sym("=")))
RECURSIVE parse_node_attributes(_)
AttributeOrEnd(x) ==
    IF x.error # "none" \/ Stops(lookup_attribute_name, Char(x)) THEN x
    ELSE parse_node_attributes(
           AttributeName(skip(absorb(beginSequence(x), 1), lookup_attribute_name)))
parse_node_attributes(x) == AttributeOrEnd(require(x, 1))

TagEnds(x) ==
    CASE Char(x) = Sym(">") ->
           parse_content(pushTag(absorb(x, 1), TextOf(x, x.nodes[x.top].name)), TRUE)
      [] Char(x) = Sym("/") -> Then(Expect(absorb(x, 1), Sym(">")), "close_node")
      [] OTHER -> Fail(x, "expected >")
NameEnds(x) == Terminate(x, x.nodes[x.top].name)
AttributesRead(x) == IF x.error # "none" THEN x ELSE NameEnds(TagEnds(x))
ElementName(x) ==
    IF Size(Sequence(x)) = 0 THEN Fail(x, "expected element name")
    ELSE AttributesRead(
           require(parse_node_attributes(
                     skip(endSequence([x EXCEPT !.nodes[x.top].name = Sequence(x)]),
                          OverWhitespace)), 2))
parse_element(x) == ElementName(skip(beginSequence(buyNodeOnStack(x)), lookup_node_name))

\* parse_xml_declaration, parse_pi, parse_comment, parse_cdata.
Skipped(x, end) == Then(SkipPast(x, end), "parse_content")

\* Brackets are counted, and nothing in them ends the declaration.
RECURSIVE parse_doctype(_, _)
DoctypeAt(x, depth) ==
    CASE Char(x) = NUL -> Fail(x, "unexpected end of data")
      [] Char(x) = Sym(">") /\ depth = 0 -> Then(absorb(x, 1), "parse_content")
      [] OTHER -> parse_doctype(absorb(x, 1), CASE Char(x) = Sym("[") -> depth + 1
                                                [] Char(x) = Sym("]") /\ depth > 0 -> depth - 1
                                                [] OTHER -> depth)
parse_doctype(x, depth) == DoctypeAt(require(x, 3), depth)

\* Other declarations are skipped, too, but leave the status as it is.
Unrecognized(x) == absorb(skipToChar(absorb(x, 1), Sym(">")), 1)

\* parse_node looks ahead as far as the longest begin, "<!DOCTYPE ", which is three symbols.
\* What is skipped, by how it begins; the one that is looked for first comes first.
SkippedNodes ==
    << [begin |-> <<Sym("?"), Sym("xml"), Space>>, end |-> <<Sym("?"), Sym(">")>>],
       [begin |-> <<Sym("?")>>, end |-> <<Sym("?"), Sym(">")>>],
       [begin |-> <<Sym("!"), Sym("-"), Sym("-")>>, end |-> <<Sym("-"), Sym("-"), Sym(">")>>],
       [begin |-> <<Sym("!"), Sym("["), Sym("CDATA[")>>,
        end |-> <<Sym("]"), Sym("]"), Sym(">")>>] >>
NodeAt(x) ==
    LET kinds == SelectSeq(SkippedNodes, LAMBDA kind : Comes(x, kind.begin))
    IN  CASE kinds # << >> -> Skipped(absorb(x, Len(Head(kinds).begin)), Head(kinds).end)
          [] Comes(x, <<Sym("/")>>) -> Then(absorb(x, 1), "parse_endtag")
          [] Comes(x, <<Sym("!"), Sym("DOCTYPE"), Space>>) -> parse_doctype(absorb(x, 3), 0)
          [] OTHER -> IF kinds = << >> /\ Char(x) = Sym("!") THEN Unrecognized(x)
                      ELSE parse_element(x)
parse_node(x) == NodeAt(Then(require(x, 3), "illegal"))

close_node(x) == Then([x EXCEPT !.top = @ - 1], "parse_content")

EndTagNamed(x) ==
    IF TextOf(x, Sequence(x)) # topTag(x) THEN Fail(x, "invalid closing tag name")
    ELSE close_node(Expect(require(skip(popTag(endSequence(x)), OverWhitespace), 1), Sym(">")))
parse_endtag(x) == EndTagNamed(skip(beginSequence(x), lookup_node_name))

\* In the status that unrecognized declarations leave, nothing happens at all.
parse_according_to_status(before) ==
    LET x == [before EXCEPT !.got = 0]
    IN  CASE x.status = "close_node"    -> close_node(x)
          [] x.status = "parse_endtag"  -> parse_endtag(x)
          [] x.status = "parse_node"    -> parse_node(x)
          [] x.status = "parse_content" -> parse_content(x, FALSE)
          [] OTHER -> Fail(x, "endless loop")
-----------------------------------------------------------------------------
(* What the caller asks for, of a node on the stack; 0 is the document.    *)

RECURSIVE ParseChild(_)
ChildOrOn(x) ==
    IF x.error = "none" /\ x.got = 0 /\ x.status \in {"parse_content", "parse_node"}
    THEN ParseChild(x) ELSE x
ParseChild(x) == ChildOrOn(parse_according_to_status(x))
parse_child(x) == IF x.status # "parse_node" THEN [x EXCEPT !.got = 0] ELSE ParseChild(x)

\* What is parsed above the parent is not the sibling.
RECURSIVE parse_next(_, _)
SiblingOrOn(x, parent, above) ==
    IF ~above /\ (x.got # 0 \/ x.error # "none") THEN x ELSE parse_next(x, parent)
parse_next(x, parent) ==
    CASE x.error # "none" -> x
      [] x.error = "none" /\ x.top = parent /\ x.status \in {"parse_endtag", "eof"} ->
           [x EXCEPT !.got = 0]
      [] OTHER -> SiblingOrOn(parse_according_to_status(x), parent, x.top # parent)

\* With a name, siblings of other names are passed over.
AnyName == << >>
RECURSIVE NextNamed(_, _)
NextNamed(x, name) ==
    IF x.error # "none" \/ x.got = 0 \/ name \in {AnyName, TextOf(x, x.nodes[x.got].name)} THEN x
    ELSE NextNamed(parse_next(x, x.got - 1), name)

\* The node that is asked loses its texts.
Reset(x, node) == IF node = 0 THEN x ELSE [x EXCEPT !.nodes[node] = NewNode]
first_node(x, node, name) == NextNamed(parse_child(Reset(x, node)), name)
next_sibling(x, node) == parse_next(Reset(x, node), node - 1)

\* The attributes of that name; first_attribute is the first of them.
first_attribute(x, node, name) ==
    SelectSeq(AttributesOf(x, node), LAMBDA a : TextOf(x, a.name) = name)

BomOrNot(x) == IF Char(x) = Sym("BOM") THEN absorb(x, 1) ELSE x
parse_bom(x) == BomOrNot(require(x, 1))
DocumentAt(x) ==
    IF Char(x) = Sym("<") THEN absorb(x, 1) ELSE Fail(x, "expected document to begin with '<'")
OpenDocument(text, buffer, segment) ==
    DocumentAt(skip(parse_bom(OpenStream(text, buffer, segment)
                              @@ [top |-> 0, got |-> 0, tagstack |-> << << >> >>,
                                  status |-> "parse_node"]), OverWhitespace))
=============================================================================
