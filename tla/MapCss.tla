-------------------------------- MODULE MapCss --------------------------------
(***************************************************************************)
(* MapCSSGrammar and MapCssParser: the rules that a stylesheet is parsed   *)
(* to.  A sheet is a sequence of tokens: <<"sym", s>>, <<"type", t>>,      *)
(* <<"num", n>>, <<"tag", k>>, <<"bop", op>>, <<"uop", op>>,               *)
(* <<"value", text>>, <<"attr", name>>, <<"unknown", name>> and            *)
(* <<"prefixed", name>>, which begins with the name of an attribute, and   *)
(* <<"spec", expression>>.                                                 *)
(*                                                                         *)
(* Almost everything is expected once its beginning was read, so that what *)
(* does not fit rejects the whole sheet.  A parse is a value and the rest  *)
(* of the tokens; Rejected as the rest fits nowhere.                       *)
(***************************************************************************)
EXTENDS Selectors

CONSTANTS
    ZoomTop,    \* ALAC_ZOOM_TOP
    NoRegex     \* texts that are no regular expressions

Sym(s) == <<"sym", s>>
Rejected == << <<"rejected">> >>
\* The exception of a regular expression is nobody's: it ends the process.
Killed == << <<"killed">> >>
NotThere(rest) == IF rest = Killed THEN Killed ELSE Rejected

At(tokens, kinds) == tokens # << >> /\ Head(tokens)[1] \in kinds
AtSym(tokens, s)  == tokens # << >> /\ Head(tokens) = Sym(s)
Expect(parse, s) ==
    [parse EXCEPT !.rest = IF AtSym(@, s) THEN Tail(@) ELSE NotThere(@)]

\* rule_styleset: declarations with semicolons between them, each of which may be missing,
\* so that any number of semicolons is read.  An unknown attribute is passed over, but of a
\* prefixed one the beginning is read as an attribute, which no colon follows.
AtDeclaration(tokens) == At(tokens, {"attr", "unknown", "prefixed"})
Declared(template, tokens) ==
    IF Head(tokens)[1] = "attr"
    THEN addAttributeToTemplate(template, Head(tokens)[2], tokens[3][2]) ELSE template
OptionalDeclaration(template, tokens) ==
    CASE ~AtDeclaration(tokens) -> [val |-> template, rest |-> tokens]
      [] /\ At(tokens, {"attr", "unknown"}) /\ Len(tokens) >= 3
         /\ tokens[2] = Sym(":") /\ tokens[3][1] = "spec" ->
           [val |-> Declared(template, tokens), rest |-> SubSeq(tokens, 4, Len(tokens))]
      [] OTHER -> [val |-> template, rest |-> Rejected]
RECURSIVE Declarations(_)
Declarations(parse) ==
    LET next == OptionalDeclaration(parse.val, parse.rest)
    IN  IF AtSym(next.rest, ";") THEN Declarations([next EXCEPT !.rest = Tail(@)]) ELSE next
rule_styleset(tokens) == Declarations([val |-> << >>, rest |-> tokens])

\* Zoom, and the zoom levels that two of them share.
Zoom(bottom, top) == [bottom |-> bottom, top |-> top]
WholeZoom == Zoom(0, ZoomTop)
focus(a, b) == Zoom(IF a.bottom >= b.bottom THEN a.bottom ELSE b.bottom,
                    IF a.top <= b.top THEN a.top ELSE b.top)

\* rule_zoom, after the |z: a range with a minus, whose ends may be left out, or one level.
rule_zoom(tokens) ==
    LET low == At(tokens, {"num"})
        after == IF low THEN Tail(tokens) ELSE tokens
        high == AtSym(after, "-") /\ At(Tail(after), {"num"})
        bottom == IF low THEN Head(tokens)[2] ELSE 0
    IN  CASE high -> [val |-> Zoom(bottom, after[2][2]), rest |-> Tail(Tail(after))]
          [] ~high /\ AtSym(after, "-") -> [val |-> Zoom(bottom, ZoomTop), rest |-> Tail(after)]
          [] low /\ ~AtSym(after, "-") -> [val |-> Zoom(bottom, bottom), rest |-> after]
          [] OTHER -> [val |-> WholeZoom, rest |-> Rejected]

\* rule_binary_condition, or else rule_unary_condition; one without operator is HasTag.
Condition(tokens) ==
    LET kinds == [i \in DOMAIN tokens \cap 1..3 |-> tokens[i][1]]
    IN  CASE kinds = <<"tag", "bop", "value">> ->
               [val |-> <<tokens[2][2], tokens[1][2], tokens[3][2]>>,
                rest |-> SubSeq(tokens, 4, Len(tokens))]
          [] kinds # <<"tag", "bop", "value">> /\ At(tokens, {"tag"}) ->
               [val |-> <<"HasTag", tokens[1][2], Empty>>, rest |-> Tail(tokens)]
          [] At(tokens, {"uop"}) /\ At(Tail(tokens), {"tag"}) ->
               [val |-> <<tokens[1][2], tokens[2][2], Empty>>, rest |-> Tail(Tail(tokens))]
          [] OTHER -> [val |-> << >>, rest |-> Rejected]

\* rule_subselector: a type, its zoom levels and its conditions.
Item(type, zoom) == [type |-> type, zoom |-> zoom, conditions |-> << >>]
RECURSIVE Conditions(_)
Conditions(parse) ==
    LET with(condition) ==
          Expect([val |-> [parse.val EXCEPT !.conditions = Append(@, condition.val)],
                  rest |-> condition.rest], "]")
    IN  IF ~AtSym(parse.rest, "[") THEN parse
        ELSE Conditions(with(Condition(Tail(parse.rest))))
rule_subselector(tokens) ==
    LET from(zoom) == Conditions([val |-> Item(Head(tokens)[2], zoom.val), rest |-> zoom.rest])
    IN  IF ~At(tokens, {"type"}) THEN [val |-> << >>, rest |-> NotThere(tokens)]
        ELSE from(IF AtSym(Tail(tokens), "|z") THEN rule_zoom(Tail(Tail(tokens)))
                  ELSE [val |-> WholeZoom, rest |-> Tail(tokens)])

\* createSelectorFromUnaryCondition: a minus is an assertion, and nothing in a release.
FromUnary(next, cond) ==
    CASE cond[1] = "HasTag" -> <<cond>> \o next
      [] cond[1] = "!" -> << <<"Not", cond[2], cond[3]>> >> \o next
      [] cond[1] = "-" -> next
\* createSelectorFromBinaryCondition: the comparison with a text is left out.
Numeric == {"<", ">", "<=", ">="}
FromBinary(next, cond) ==
    CASE cond[1] \notin Numeric -> <<cond>> \o next
      [] cond[1] \in Numeric /\ cond[3][1] = "int" ->
           << <<cond[1], cond[2], cond[3][2]>> >> \o next
      [] OTHER -> next
FromCondition(next, cond) ==
    IF cond[1] \in {"HasTag", "!", "-"} THEN FromUnary(next, cond) ELSE FromBinary(next, cond)

\* createSelectorFromObjectType: the first item says what the rule accepts.
FromObjectType(next, type) ==
    IF type \in {"line", "area"}
    THEN << <<IF type = "line" THEN "Line" ELSE "Area", Empty, Empty>> >> \o next ELSE next
AcceptableType(type) ==
    CASE type = "*" -> {"nodes", "ways", "relations"}
      [] type = "node" -> {"nodes"}
      [] type = "relation" -> {"relations"}
      [] OTHER -> {"ways"}
\* createChildSelectorFromObjectType: a relation as a child is an assertion, and nothing
\* in a release.
FromChildType(next, type) ==
    CASE type = "node" -> << <<"ChildNodes", Empty, Empty>> >> \o next
      [] type \in {"way", "line", "area"} ->
           << <<"ChildWays", Empty, Empty>> >> \o FromObjectType(next, type)
      [] OTHER -> next

\* createSelectorChain: from the last item to the first.
ChainUnreversed(items) ==   \* mutant: the items are taken in their order
    FoldLeft(LAMBDA next, i :
               LET conds == FoldLeft(FromCondition, next, items[i].conditions)
               IN  IF i = Len(items) THEN FromObjectType(conds, items[i].type)
                   ELSE FromChildType(conds, items[i].type),
             << >>, [i \in DOMAIN items |-> i])
Chain(items) ==
    FoldLeft(LAMBDA next, i :
               LET conds == FoldLeft(FromCondition, next, items[i].conditions)
               IN  IF i = 1 THEN FromObjectType(conds, items[i].type)
                   ELSE FromChildType(conds, items[i].type),
             << >>, Reverse([i \in DOMAIN items |-> i]))
createSelectorChain(items) ==
    LET zoom == FoldLeft(LAMBDA z, item : focus(z, item.zoom), WholeZoom, items)
    IN  [chain |-> Chain(items), bottom |-> zoom.bottom, top |-> zoom.top,
         accepts |-> AcceptableType(items[1].type)]

\* rule_selector: items without anything between them.
RECURSIVE Items(_)
Before(first, more) == [more EXCEPT !.val = <<first>> \o @]
Items(tokens) ==
    LET from(item) == IF ~At(item.rest, {"type"}) THEN [item EXCEPT !.val = <<@>>]
                      ELSE Before(item.val, Items(item.rest))
    IN  from(rule_subselector(tokens))
Regexes(items) == {c[3] : c \in UNION {{c \in ToSet(item.conditions) : c[1] = "=~"} :
                                         item \in ToSet(items)}}
SelectorOf(items) ==
    CASE items.rest \in {Rejected, Killed} -> [val |-> << >>, rest |-> items.rest]
      [] Regexes(items.val) \cap NoRegex # {} -> [val |-> << >>, rest |-> Killed]
      [] OTHER -> [val |-> createSelectorChain(items.val), rest |-> items.rest]
rule_selector(tokens) == SelectorOf(Items(tokens))

\* rule_cssrule: selectors with commas between them, and the style they share.
RECURSIVE SelectorList(_)
SelectorList(tokens) ==
    LET from(first) == IF ~AtSym(first.rest, ",") THEN [first EXCEPT !.val = <<@>>]
                       ELSE Before(first.val, SelectorList(Tail(first.rest)))
    IN  from(rule_selector(tokens))
\* What is in the braces after this parse.
Block(parse) == Expect(rule_styleset(Expect(parse, "{").rest), "}")
\* applyStyleToRules.
WithTemplate(selectors, template, number) ==
    [i \in DOMAIN selectors |-> [number |-> number, template |-> template] @@ selectors[i]]

\* rule_stylesheet: the last canvas counts, and everything must be read.  sheet.rest is
\* what there is still to read.
WithCanvas(sheet, block) == [sheet EXCEPT !.canvas = <<block.val>>, !.rest = block.rest]
WithRules(sheet, selectors, block) ==
    LET number == sheet.number + 1
    IN  IF block.rest \in {Rejected, Killed} THEN [sheet EXCEPT !.rest = block.rest]
        ELSE [sheet EXCEPT !.number = number, !.rest = block.rest,
                           !.rules = @ \o WithTemplate(selectors, block.val, number)]
RECURSIVE rule_stylesheet(_)
rule_stylesheet(sheet) ==
    LET rule(selectors) == WithRules(sheet, selectors.val, Block(selectors))
    IN  CASE sheet.rest = << >>     -> sheet
          [] sheet.rest = Rejected -> [sheet EXCEPT !.outcome = "ParseException"]
          [] sheet.rest = Killed   -> [sheet EXCEPT !.outcome = "killed"]
          [] AtSym(sheet.rest, "canvas") ->
               rule_stylesheet(WithCanvas(sheet, Block([rest |-> Tail(sheet.rest)])))
          [] OTHER -> rule_stylesheet(rule(SelectorList(sheet.rest)))
LoadSheet(tokens) ==
    rule_stylesheet([rules |-> << >>, canvas |-> << >>, number |-> 0, rest |-> tokens,
                     outcome |-> "parsed"])
-----------------------------------------------------------------------------
(* Reference: which objects the items of a selector mean.  An object is    *)
(* meant by the last item if it is one itself and the object it belongs to *)
(* is meant by the items before; but * means the same object.              *)

OfType(geo, obj, type) ==
    CASE type = "*" -> TRUE
      [] type = "line" -> IsWay(obj) /\ LineSelector(Get(geo, obj))
      [] type = "area" -> IsWay(obj) /\ AreaSelector(Get(geo, obj))
      [] OTHER -> obj[1] = ("node" :> "nodes" @@ "way" :> "ways"
                            @@ "relation" :> "relations")[type]
\* What a condition says, of those that are not left out.
Fulfils(geo, obj, cond, unset) ==
    \/ cond[1] = "-"
    \/ cond[1] \in Numeric /\ cond[3][1] # "int"
    \/ cond[1] \in {"HasTag", "=", "!=", "=~"} /\ Holds(geo, cond, obj, unset)
    \/ cond[1] = "!" /\ Holds(geo, <<"Not", cond[2], cond[3]>>, obj, unset)
    \/ /\ cond[1] \in Numeric /\ cond[3][1] = "int"
       /\ Holds(geo, <<cond[1], cond[2], cond[3][2]>>, obj, unset)
Parents(geo, obj) ==
    {<<"ways", i - 1>> : i \in {i \in DOMAIN geo.ways :
        obj[1] = "nodes" /\ obj[2] \in ToSet(geo.ways[i].nodeIDs)}}
    \cup {<<"relations", i - 1>> : i \in {i \in DOMAIN geo.relations :
        \/ obj[1] = "nodes" /\ obj[2] \in ToSet(geo.relations[i].nodeIDs)
        \/ obj[1] = "ways" /\ obj[2] \in ToSet(geo.relations[i].wayIDs)}}
RECURSIVE Means(_, _, _, _, _)
Means(geo, items, obj, found, unset) ==
    LET item == Last(items)
    IN  /\ OfType(geo, obj, item.type)
        /\ \A i \in DOMAIN item.conditions : Fulfils(geo, obj, item.conditions[i], unset)
        /\ CASE Len(items) = 1 -> obj \in found
             [] Len(items) > 1 /\ item.type = "*" ->
                  Means(geo, Front(items), obj, found, unset)
             [] OTHER -> \E p \in Parents(geo, obj) :
                           Means(geo, Front(items), p, found, unset)
=============================================================================
