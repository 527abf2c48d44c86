---------------------------- MODULE MCMapPipeline ----------------------------
(***************************************************************************)
(* Scenarios of MapPipeline.  Each varies one part of Default: the request *)
(* and how it is cut, the url, the document, the stylesheet, an            *)
(* expression, the layers, the labels or the rings.                        *)
(*                                                                         *)
(* At zoom level 2 the map of 32 x 32 coordinates has four meta tiles of   *)
(* four tiles, and a coordinate is a length of one.                        *)
(***************************************************************************)
EXTENDS MapPipeline

\* Texts, tags and entities.
k == Word("k")   n == Word("n")   name == Word("name")   v == Word("v")
layer == Word("layer")
McPrecached == {Empty, Word("no"), Word("yes"), Word("true"), Word("false"), AreaTag, layer}
McWords == McPrecached \cup {k, n, name, v, Word("x"), Word("A"), Word("c1"), Word("c2")}
         \cup {Num(i) : i \in -2..9} \cup {Word("?")}
\* c1 and c2 have the same hash.
McHash == [t \in McWords |-> IF t = Word("c2") THEN Word("c1") ELSE t]
McMatching == {<<v, Word("v*")>>, <<Num(5), Word("v*")>>}
McImages == {v}
McNoRegex == {Word("bad")}
McOpaque == {Word("white"), Word("red")}
McColors == {Word("white"), Word("red"), Word("clear")}
McTextWidth(text, size)  == 2 * size
McTextHeight(text, size) == 4

Tag(key, value) == [name |-> "tag", k |-> key, v |-> value, type |-> "none"]
Nd(id)          == [name |-> "nd", k |-> id, v |-> Empty, type |-> "none"]
Member(type, id, role) == [name |-> "member", k |-> id, v |-> role, type |-> type]
Node(id, x, y, props)  == [name |-> "node", id |-> id, loc |-> Point(x, y), props |-> props]
Entity(what, id, props) == [name |-> what, id |-> id, loc |-> Point(0, 0), props |-> props]
Nds(ids) == [i \in DOMAIN ids |-> Nd(ids[i])]

BaseDoc ==
    << Node(1, -12, 12, <<Tag(k, v), Tag(n, Num(5)), Tag(name, Word("A"))>>),
       Node(2, -4, 12, << >>), Node(3, -4, 4, <<Tag(n, Word("x"))>>),
       Node(4, -12, 4, <<Tag(k, Word("no"))>>), Node(5, 4, 12, <<Tag(n, Empty)>>),
       Entity("way", 1, Nds(<<1, 2, 3, 4, 1>>) \o <<Tag(k, v)>>),
       Entity("way", 2, Nds(<<4, 5>>) \o <<Tag(n, Num(7)), Tag(name, Word("x"))>>),
       Entity("way", 3, Nds(<<2, 3, 2>>) \o <<Tag(AreaTag, Word("no"))>>),
       Entity("relation", 1, <<Member("way", 1, v), Member("way", 2, v), Member("node", 5, v),
                               Tag(k, v)>>) >>
TinyDoc == <<Node(1, -12, 12, <<Tag(name, Word("A"))>>)>>

\* Documents as they are written.  A form tells what stands before the document and between
\* its elements, which quotes are used, and whether empty elements have end tags.
S(s) == <<"sym", s>>
McSpelling == Word("relation") :> <<Word("rela"), Word("tion")>>
              @@ Word("A") :> <<Word("A1"), Word("A2"), Word("A3")>>
              @@ Word("c1") :> <<S("<"), Word("c")>>
Escaped(symbols) ==
    FlattenSeq([i \in DOMAIN symbols |->
                  IF symbols[i] = S("<") THEN <<S("&"), S("lt"), S(";")>> ELSE <<symbols[i]>>])
AttributeText(attr, text, quote) ==
    IF text = NoValue THEN << >>
    ELSE <<S(" "), Word(attr), S("="), quote>> \o Escaped(Symbols(text)) \o <<quote>>
RefText(num) == IF num = NoValue THEN NoValue ELSE Num(num)
Element(what, attrs, content, form) ==
    LET name_ == Symbols(Word(what))
        begin == <<S("<")>> \o name_
                 \o FlattenSeq([i \in DOMAIN attrs |->
                                  AttributeText(attrs[i][1], attrs[i][2], form.quote)])
    IN  IF content = << >> /\ ~form.endTags THEN begin \o <<S("/"), S(">")>>
        ELSE begin \o <<S(">")>> \o content \o <<S("<"), S("/")>> \o name_ \o <<S(">")>>
PropertyText(p, form) ==
    Element(p.name,
            CASE p.name = "tag" -> << <<"k", p.k>>, <<"v", p.v>> >>
              [] p.name = "nd"  -> << <<"ref", RefText(p.k)>> >>
              [] p.name = "member" -> << <<"type", Word(p.type)>>, <<"ref", RefText(p.k)>>,
                                         <<"role", p.v>> >>
              [] OTHER -> << >>,
            form.in, form)
EntityText(e, form) ==
    Element(e.name,
            <<<<"id", RefText(e.id)>>>>
            \o (IF e.name # "node" THEN << >>
                ELSE << <<"lat", Num(e.loc.y)>>, <<"lon", Num(e.loc.x)>> >>),
            FlattenSeq([i \in DOMAIN e.props |-> form.between \o PropertyText(e.props[i], form)]),
            form)
DocumentText(doc, form) ==
    form.before
    \o Element("osm", << >>,
               FlattenSeq([i \in DOMAIN doc |-> form.between \o EntityText(doc[i], form)]), form)
Plain == [before |-> << >>, between |-> << >>, in |-> << >>, quote |-> S("\""), endTags |-> FALSE]
FromText(s, form, buffer, segment) ==
    [s EXCEPT !.text = DocumentText(s.doc, form), !.buffer = buffer, !.segment = segment]

\* Stylesheets as they are written: rules of selectors and declarations.
Whole == WholeZoom
On(type, zoom, conds) == [type |-> type, zoom |-> zoom, conditions |-> conds]
Every(type) == On(type, Whole, << >>)
Says_(attr, spec) == [kind |-> "attr", name |-> attr, spec |-> spec]
Text(t) == << <<"leaf", t>> >>
TagOf(key) == << <<"fun", "tag">>, S("("), <<"leaf", key>>, S(")") >>
Rule(selectors, declarations) == [selectors |-> selectors, declarations |-> declarations]

ZoomTokens(z) ==
    CASE z = Whole -> << >>
      [] z.bottom = z.top -> <<S("|z"), <<"num", z.top>>>>
      [] OTHER -> <<S("|z")>> \o (IF z.bottom = 0 THEN << >> ELSE << <<"num", z.bottom>> >>)
                  \o <<S("-")>> \o (IF z.top = ZoomTop THEN << >> ELSE << <<"num", z.top>> >>)
ConditionTokens(c) ==
    <<S("[")>> \o (CASE c[1] = "HasTag" -> << <<"tag", c[2]>> >>
                     [] c[1] \in {"!", "-"} -> << <<"uop", c[1]>>, <<"tag", c[2]>> >>
                     [] OTHER -> << <<"tag", c[2]>>, <<"bop", c[1]>>, <<"value", c[3]>> >>)
    \o <<S("]")>>
ItemTokens(item) ==
    << <<"type", item.type>> >> \o ZoomTokens(item.zoom)
    \o FlattenSeq([i \in DOMAIN item.conditions |-> ConditionTokens(item.conditions[i])])
Listed(seqs, sep) ==
    FlattenSeq([i \in DOMAIN seqs |-> IF i = 1 THEN seqs[i] ELSE <<S(sep)>> \o seqs[i]])
BlockTokens(declarations) ==
    <<S("{")>>
    \o Listed([i \in DOMAIN declarations |->
                 << <<declarations[i].kind, declarations[i].name>>, S(":"),
                    <<"spec", declarations[i].spec>> >>], ";")
    \o (IF Len(declarations) > 1 THEN <<S(";")>> ELSE << >>) \o <<S("}")>>
RuleTokens(rule) ==
    Listed([i \in DOMAIN rule.selectors |->
              FlattenSeq([j \in DOMAIN rule.selectors[i] |->
                            ItemTokens(rule.selectors[i][j])])], ",")
    \o BlockTokens(rule.declarations)
Written(rules, canvas) ==
    FlattenSeq([i \in DOMAIN rules |-> RuleTokens(rules[i])])
    \o (IF canvas = << >> THEN << >> ELSE <<S("canvas")>> \o BlockTokens(canvas))

White == <<Says_("fill-color", Text(Word("white")))>>
Sheet(s, rules) == [s EXCEPT !.rules = rules, !.tokens = Written(rules, White)]
Lines == <<Rule(<< <<Every("*")>> >>, <<Says_("width", Text(Num(2)))>>)>>

\* Urls and requests.
Url(z, x, y, format) ==
    << << << >> >>, << <<"s">> >>, <<z>>, <<x>>, <<y, format>> >>
Get_ == <<"a", " ", "/", " ", "H", "T", "T", "P", "/", "1", ".", "1", "\r", "\n">>
Request_ == Get_ \o <<"\r", "\n">>

Default ==
    [doc |-> BaseDoc, text |-> << >>, written |-> "whole", buffer |-> 64, segment |-> 16,
     bounds |-> Rect(-16, -16, 16, 16), check |-> TRUE,
     rules |-> Lines, tokens |-> Written(Lines, White), flawed |-> FALSE, expression |-> << >>,
     pieces |-> <<Request_>>, url |-> Url(<<"2">>, <<"0">>, <<"0">>, <<"png">>),
     styles |-> {<< << <<"s">> >> >>}, default |-> << << <<"d">> >> >>, unset |-> 0]
Tiny == [Default EXCEPT !.doc = TinyDoc]
At_(s, z, x, y) == [s EXCEPT !.url = Url(<<z>>, <<x>>, <<y>>, <<"png">>)]
-----------------------------------------------------------------------------
\* Requests, whole, cut in two at each place, and character by character; and one request
\* with each of its characters replaced.
WithHeader == Get_ \o <<"a", ":", " ", "a", "\r", "\n", "\r", "\n">>
RequestTexts ==
    { Request_,
      WithHeader,
      Get_ \o <<"a", ":", " ", "8bit", "\r", "\n", "\t", " ", "\r", "\n", "\r", "\n">>,
      Get_ \o <<" ", "a", "\r", "\n", "\r", "\n">>,
      Get_ \o <<"a", ":", "a", "\r", "\n", "\r", "\n">>,
      Get_ \o <<"\r", "a">>,
      SubSeq(Get_, 1, 12) \o <<"1", "\n", "\r", "\n">>,
      <<"a", " ", "ctl">>, <<" ">> \o Request_, Request_ \o Request_, Get_ }
Cut(text, c) == <<SubSeq(text, 1, c), SubSeq(text, c + 1, Len(text))>>
Cuts(text) == {Cut(text, c) : c \in 0..Len(text)} \cup {[i \in DOMAIN text |-> <<text[i]>>]}
RequestScenarios ==
    {[Tiny EXCEPT !.pieces = pieces] :
       pieces \in UNION {Cuts(text) : text \in RequestTexts}
                  \cup {<<[WithHeader EXCEPT ![i] = c]>> : i \in DOMAIN WithHeader, c \in Chars}}

\* Urls: numbers at the borders, negative, empty, too large for an int, or no number.
Coordinates == {<<"0">>, <<"3">>, <<"4">>, << >>, <<"-", "1">>, <<"-", "0">>, <<"x">>,
                <<"2", "5", "7">>}
UrlScenarios ==
    {[Tiny EXCEPT !.url = Url(z, x, y, f)] :
       z \in {<<"0">>, <<"2">>, <<"4">>}, x \in Coordinates, y \in {<<"0">>, <<"3">>, <<"4">>},
       f \in {<<"png">>, <<"PNG">>, <<"gif">>}}
    \cup {[Tiny EXCEPT !.url = u] : u \in
            { << << << >> >>, <<<<"2">>>>, <<<<"0">>, <<"png">>>> >>,
              << << << >> >>, <<<<"2">>>>, <<<<"1">>>>, <<<<"0">>, <<"svg">>>> >>,
              << << << >> >>, <<<<"q">>>>, <<<<"2">>>>, <<<<"1">>>>, <<<<"0">>, <<"svg">>>> >>,
              << << << >> >>, <<<<"s">>>>, <<<<"2">>, <<"1">>>>, <<<<"1">>>>,
                 <<<<"0">>, <<"png">>>> >>,
              << << << >> >>, <<<<"s">>>>, <<<<"2">>>>, <<<<"1">>>>, <<<<"0">>>> >> }}

\* Documents: up to three entities, with ids that are there twice, that are clipped, that
\* come later or never, and with flaws.
Entities ==
    { Node(1, -12, 12, <<Tag(k, v)>>), Node(1, 4, -12, <<Tag(k, Word("c1")), Tag(k, Word("c2"))>>),
      Node(2, -20, 0, <<Tag(k, NoValue)>>), Entity("way", 1, Nds(<<1, 1>>) \o <<Tag(n, v)>>),
      Entity("way", 1, <<Nd(2)>>), Entity("way", 2, <<Tag(k, v)>>),
      Entity("relation", 1, <<Member("way", 1, v), Member("node", 1, Empty)>>),
      Entity("relation", 2, <<Member("relation", 1, v), Tag(k, v)>>),
      Entity("note", 1, << >>) }
Flaws == { Entity("relation", 3, <<Member("path", 1, v)>>), Node(3, 0, 0, <<Tag(NoValue, v)>>),
           Node(NoValue, 0, 0, << >>), Entity("way", NoValue, << >>),
           Entity("way", 3, <<Nd(NoValue)>>), Entity("bounds", 0, << >>) }
DocumentScenarios ==
    {FromText([Default EXCEPT !.doc = doc], Plain, 64, 16) :
       doc \in UNION {[1..m -> Entities] : m \in 0..3}}
    \cup {FromText([Default EXCEPT !.doc = <<e, f>>, !.check = FALSE], Plain, 64, 16) :
            e \in Entities, f \in Flaws}

\* One document in several forms, read through small buffers; cut off at each place; with
\* declarations that are not recognized, and nested deeper than a segment of the stack.
WrittenDoc ==
    << Node(1, -12, 12, <<Tag(k, Word("A")), Tag(n, Word("c1"))>>), Node(2, -4, 12, << >>),
       Entity("way", 1, <<Nd(1), Tag(k, Empty), Nd(2)>>),
       Entity("relation", 1, <<Member("way", 1, v), Tag(k, v)>>) >>
Comment == <<S("<"), S("!"), S("-"), S("-"), S("<"), S("-"), k, S("-"), S("-"), S(">")>>
Cdata   == <<S("<"), S("!"), S("["), S("CDATA["), S("<"), S("]"), k, S("]"), S("]"), S(">")>>
Pi      == <<S("<"), S("?"), k, S("?"), k, S("?"), S(">")>>
Prolog  == <<S("BOM"), S(" "), S("<"), S("?"), S("xml"), S(" "), k, S("?"), S(">"), S(" "),
             S("<"), S("!"), S("DOCTYPE"), S(" "), k, S("["), S(">"), S("["), S("]"), S("]"), k,
             S(">"), S("<"), k, S("/"), S(">")>>
Forms ==
    { Plain, [Plain EXCEPT !.quote = S("'"), !.endTags = TRUE],
      [Plain EXCEPT !.before = Prolog, !.between = Comment],
      [Plain EXCEPT !.between = <<S(" "), n, S(" "), S(" "), S("&"), S("lt"), S(";"), S(" ")>>],
      [Plain EXCEPT !.between = Cdata \o Pi, !.in = <<S(" ")>> \o Pi, !.endTags = TRUE] }
Written_ == [Default EXCEPT !.doc = WrittenDoc]
\* (The document is still read as a whole when only the name of its last tag is missing.)
CutOff(s, length) == [s EXCEPT !.text = SubSeq(@, 1, length), !.written = "cut off"]
Declaration == <<S("<"), S("!"), k, S(">")>>
Nested == <<S("<"), k, S(">"), S("<"), name, S(">"), S("<"), S("/"), name, S(">"),
            S("<"), S("/"), k, S(">")>>
TextScenarios ==
    {FromText(Written_, form, 2 * segment + more, segment) :
       form \in Forms, segment \in 3..9, more \in {0, 2, 9}}
    \cup {CutOff(FromText(Written_, form, 2 * segment, segment), length) :
            length \in 1..Len(DocumentText(WrittenDoc, Plain)) - 3, segment \in {3, 5},
            form \in {Plain}}
    \cup {[FromText(Written_, [Plain EXCEPT !.between = Declaration], 16, 8) EXCEPT
             !.written = "unrecognized"],
          [FromText(Written_, [Plain EXCEPT !.in = Declaration], 16, 8) EXCEPT
             !.written = "unrecognized"],
          [FromText(Written_, [Plain EXCEPT !.in = Nested], 16, 8) EXCEPT
             !.written = "nested"]}

\* Trees of several levels, asked for by tiles of all zoom levels.
Spread == <<Point(-12, 12), Point(4, -4), Point(-2, 2), Point(14, 14), Point(-15, -3), Point(0, 0),
            Point(5, 9), Point(-6, -10), Point(8, 0), Point(1, -1), Point(-9, 6)>>
Scattered(m) == [i \in 1..m |-> Node(i, Spread[i].x, Spread[i].y, <<Tag(k, v)>>)]
                \o [i \in 1..m - 1 |-> Entity("way", i, Nds(<<i, i + 1>>))]
TreeScenarios ==
    {At_([Default EXCEPT !.doc = Scattered(m)], a[1], a[2], a[3]) : m \in {1, 2, 3, 5, 8, 11},
       a \in {<<"0", "0", "0">>, <<"1", "1", "0">>, <<"2", "0", "0">>, <<"2", "2", "1">>,
              <<"2", "1", "3">>, <<"2", "3", "3">>, <<"3", "3", "3">>, <<"3", "0", "5">>}}
    \cup {At_([Default EXCEPT !.doc = <<Node(1, x, y, << >>)>>], "2", "1", "1") :
            x \in {-16, -1, 0, 1, 2, 3}, y \in {16, 0, -1, -2, -3, -4}}
-----------------------------------------------------------------------------
\* Stylesheets of one rule: every type of object, condition and kind of zoom.
ObjectTypes == {"*", "node", "way", "relation", "area", "line"}
OneCondition ==
    { << >>, << <<"HasTag", k, Empty>> >>, << <<"!", k, Empty>> >>, << <<"-", k, Empty>> >>,
      << <<"=", k, v>> >>, << <<"!=", k, v>> >>, << <<"=~", k, Word("v*")>> >>,
      << <<"<", n, Num(5)>> >>, << <<"<=", n, Num(5)>> >>, << <<">", n, Num(5)>> >>,
      << <<">=", n, Num(5)>> >>, << <<"<", n, Word("x")>> >>,
      << <<"=", k, v>>, <<">", n, Num(4)>> >> }
Zooms == {Whole, Zoom(0, 1), Zoom(2, 2), Zoom(1, ZoomTop)}
Wide(w) == <<Says_("width", Text(Num(w)))>>
OneRule(selectors, declarations) == Sheet(Default, <<Rule(selectors, declarations)>>)
TypeScenarios ==
    {OneRule(<< <<On(t, z, c)>> >>, Wide(2)) : t \in ObjectTypes, z \in Zooms, c \in OneCondition}
    \cup {[s EXCEPT !.unset = 7] : s \in {OneRule(<< <<On("node", Whole, c)>> >>, Wide(2)) :
                                           c \in OneCondition}}

\* Selectors of two and three items.  (A relation as a later item is an assertion.)
Conditioned == {<< >>, << <<"=", k, v>> >>, << <<"!", k, Empty>> >>}
ChainScenarios ==
    {OneRule(<< <<On(t, Whole, c), On(u, z, d)>> >>, Wide(2)) :
       t \in ObjectTypes, c \in Conditioned, u \in ObjectTypes \ {"relation"},
       z \in {Whole, Zoom(0, 1)}, d \in Conditioned}
    \cup {OneRule(<< <<Every(t), Every(u), On("node", Whole, d)>> >>, Wide(2)) :
            t \in ObjectTypes, u \in {"way", "area", "*"}, d \in Conditioned}

\* Lists of selectors, and rules that say something of the same attributes.
Values == {Text(Num(3)), TagOf(n), TagOf(k), Text(Word("red")), <<S("("), <<"leaf", k>> >>}
CascadeScenarios ==
    {Sheet([Default EXCEPT !.unset = 7],
           <<Rule(<< <<On("*", Whole, << <<"HasTag", k, Empty>> >>)>>, <<Every("line")>> >>,
                  <<Says_(a, x), Says_("width", Text(Num(4)))>>),
             Rule(<< <<Every("node")>>, <<Every("way"), Every("node")>> >>,
                  <<Says_("width", x), Says_(b, y)>>)>>) :
       a, b \in {"color", "z-index", "icon-width", "linecap", "font-family"},
       x, y \in Values}

\* Sheets that are rejected or end the program, or that have no canvas or a second one;
\* lists, also with nothing between commas; attributes that are not known; and semicolons
\* with nothing between them.
Other_(name_) == [kind |-> name_, name |-> name_, spec |-> Text(v)]
Dashes == <<Says_("dashes", Text(Num(1)) \o <<S(",")>> \o TagOf(n) \o <<S(",")>> \o TagOf(k))>>
Gaps == <<Says_("dashes", Text(Num(1)) \o <<S(","), S(",")>> \o TagOf(n) \o <<S(",")>>)>>
AllOdd(declarations) == OneRule(<< <<Every("*")>> >>, declarations)
Flawed_(s) == [s EXCEPT !.flawed = TRUE]
Empties(token) ==
    CASE token = S("{") -> <<token, S(";"), S(";")>>
      [] token \in {S(";"), S("}")} -> <<S(";"), token>>
      [] OTHER -> <<token>>
WithEmpties(s) ==
    [s EXCEPT !.tokens = FlattenSeq([i \in DOMAIN s.tokens |-> Empties(s.tokens[i])])]
OddScenarios ==
    {AllOdd(d) : d \in {Wide(2) \o <<Other_("unknown")>>, <<Other_("unknown")>> \o Wide(2), << >>,
                       Dashes, Dashes \o Wide(2), Gaps \o Wide(2)}}
    \cup {WithEmpties(AllOdd(d)) : d \in {Wide(2) \o <<Other_("unknown")>> \o Wide(3), Gaps}}
    \cup {Flawed_(AllOdd(Wide(2) \o <<Other_("prefixed")>>)),
          Flawed_(WithEmpties(AllOdd(Wide(2) \o <<Other_("prefixed")>>))),
          Flawed_(OneRule(<< <<On("way", Whole, << <<"=~", k, Word("bad")>> >>)>> >>, Wide(2)))}
    \cup {[Default EXCEPT !.tokens = tokens] :
            tokens \in {Written(Lines, << >>), Written(Lines, White) \o Written(<< >>, White)}}
    \cup {Flawed_([Default EXCEPT !.tokens = tokens]) :
            tokens \in {Written(Lines, White) \o <<S(";")>>, Tail(Written(Lines, White)),
                       Front(Written(Lines, White))}}
    \cup {[OneRule(<< <<Every("*")>> >>, << >>) EXCEPT
             !.tokens = << <<"type", "*">>, S("{"), S(";"), S("}")>>]}

\* Expressions with two operators.
Operators == UNION {Levels[i] : i \in DOMAIN Levels}
Half == <<"dec", 3>>
Operands(op1, op2) ==
    {<<Num(2), Num(3), Num(3)>>, <<Num(3), Num(2), Num(0)>>, <<Num(3), Word("x"), Num(2)>>}
    \cup IF "." \in {op1, op2} THEN {<<Word("x"), Num(2), Num(3)>>}
         ELSE {<<Half, Num(2), Num(3)>>, <<Num(2), Half, Num(4)>>}
Infix(e) == << <<"leaf", e[1]>>, S(e[2]), <<"leaf", e[3]>>, S(e[4]), <<"leaf", e[5]>> >>
EvalScenarios ==
    {Sheet([Tiny EXCEPT !.expression = e],
           <<Rule(<< <<Every("node")>> >>, <<Says_("font-family", Infix(e))>>)>>) :
       e \in UNION {{<<o[1], op1, o[2], op2, o[3]>> : o \in Operands(op1, op2)} :
                      op1, op2 \in Operators}}
-----------------------------------------------------------------------------
\* Objects in layers, with z-indices in them.
InLayer(l) == IF l = 0 THEN << >> ELSE <<Tag(layer, Num(l))>>
LayerDoc(l1, l2, l3) ==
    << Node(1, -12, 12, <<Tag(k, v)>> \o InLayer(l1)), Node(2, -4, 12, InLayer(l2)),
       Node(3, -4, 4, <<Tag(n, v)>>),
       Entity("way", 1, Nds(<<1, 2, 3, 1>>) \o InLayer(l2)),
       Entity("way", 2, Nds(<<1, 3>>) \o <<Tag(k, v)>> \o InLayer(l3)),
       Entity("relation", 1, <<Member("way", 1, v)>> \o InLayer(l1)) >>
Icons == Rule(<< <<On("node", Whole, << <<"HasTag", n, Empty>> >>)>> >>,
              <<Says_("icon-image", Text(v))>>)
Deep(z) == Rule(<< <<On("*", Whole, << <<"HasTag", k, Empty>> >>)>> >>,
                <<Says_("z-index", Text(Num(z))), Says_("casing-width", Text(Num(1)))>>)
LayerScenarios ==
    {Sheet([Default EXCEPT !.doc = LayerDoc(l1, l2, l3)], Lines \o <<Deep(z), Icons>>) :
       l1, l2, l3 \in -1..1, z \in {-5, 5, 100}}

\* One label at the borders of meta tiles, and up to three labels and shields close together.
Labelled(size) == <<Rule(<< <<Every("node")>> >>,
                         <<Says_("text", Text(name)), Says_("font-size", Text(size))>>)>>
Named(i, x, y) == Node(i, x, y, <<Tag(name, Word("A"))>>)
BorderScenarios ==
    {At_(Sheet([Default EXCEPT !.doc = <<Named(1, x, y)>>], Labelled(Num(size))), "2", tx, "1") :
       x \in -7..7, y \in {-2, 0, 1, 5}, size \in {1, 2, 3}, tx \in {"1", "2"}}
Shielded == <<Rule(<< <<On("node", Whole, << <<"HasTag", k, Empty>> >>)>>, <<Every("way")>> >>,
                   <<Says_("shield-text", Text(name)), Says_("font-size", Text(Num(1)))>>)>>
Crowd(x2, x3, y3) ==
    << Named(1, -10, 8), Named(2, x2, 8), Node(3, x3, y3, <<Tag(name, Word("A")), Tag(k, v)>>),
       Entity("way", 1, Nds(<<1, 2>>) \o <<Tag(name, Word("x"))>>) >>
CrowdScenarios ==
    {Sheet([Default EXCEPT !.doc = Crowd(x2, x3, y3)], Labelled(Num(size)) \o more) :
       x2 \in {-10, -9, -7, -5}, x3 \in {-11, -8, -6}, y3 \in {8, 9, 7}, size \in {1, 2},
       more \in {<< >>, Shielded,
                 <<Rule(<< <<On("way", Whole, << >>)>> >>,
                        <<Says_("text", Text(name)), Says_("font-size", Text(Num(1))),
                          Says_("text-position", Text(Word("line")))>>)>>}}

\* Relations of ways that form one ring, two rings or none, also with an end that belongs to
\* more than two ways, in every order and direction.
Corners == <<Named(1, -12, 12), Named(2, -4, 12), Named(3, -4, 4), Named(4, -12, 4)>>
RingSets == {<< <<1, 2>>, <<2, 3>>, <<3, 4, 1>> >>, << <<1, 2, 3, 1>>, <<4, 2>>, <<2, 4>> >>,
             << <<1, 2>>, <<2, 3>> >>, << <<1, 2>>, <<2, 3, 1>>, <<4, 3, 4>> >>,
             << <<1, 2>>, <<4, 1>>, <<2, 1>> >>, << <<1, 2>>, <<2, 3>>, <<2, 4>> >>}
Orders(m) == {o \in [1..m -> 1..m] : \A i, j \in 1..m : i # j => o[i] # o[j]}
RingDoc(ways, order, turned) ==
    Corners \o [i \in DOMAIN ways |->
                  Entity("way", i, Nds(IF order[i] \in turned THEN Reverse(ways[order[i]])
                                       ELSE ways[order[i]]))]
    \o <<Entity("relation", 1, [i \in DOMAIN ways |-> Member("way", i, v)])>>
FourWays == << <<1, 2>>, <<2, 1>>, <<3, 4>>, <<4, 3>> >>
RingScenarios ==
    {[Default EXCEPT !.doc = doc] :
       doc \in UNION {{RingDoc(ways, o, turned) : o \in Orders(Len(ways)),
                                                  turned \in SUBSET DOMAIN ways} :
                        ways \in RingSets}
               \cup {RingDoc(FourWays, o, {2, 3}) : o \in Orders(4)}}

McScenarios ==
    RequestScenarios \cup UrlScenarios \cup DocumentScenarios \cup TextScenarios \cup TreeScenarios
    \cup TypeScenarios \cup ChainScenarios \cup CascadeScenarios \cup OddScenarios
    \cup EvalScenarios \cup LayerScenarios \cup BorderScenarios \cup CrowdScenarios
    \cup RingScenarios
=============================================================================
