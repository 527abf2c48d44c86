-------------------------------- MODULE Styles --------------------------------
(***************************************************************************)
(* StyleTemplate and Style: what the attributes of a rule say, how they    *)
(* are laid over the style of an object, and how a style is finished.      *)
(*                                                                         *)
(* A specifier is the tokens of its expression; one that is a single leaf  *)
(* stands for a text that is no eval(...).                                 *)
(***************************************************************************)
EXTENDS EvalExpr, TLC

CONSTANTS
    Colors,    \* texts that are colors
    Images     \* texts that name an image that exists

\* The members of StyleTemplate by their type.
Floats  == {"width", "casing-width", "font-size", "text-offset", "text-halo-radius",
            "icon-width", "icon-height", "icon-opacity", "shield-opacity",
            "shield-frame-width", "shield-casing-width"}
ColorAttributes == {"color", "fill-color", "casing-color", "text-color", "text-halo-color",
                    "shield-color", "shield-frame-color", "shield-casing-color"}
ImageAttributes == {"image", "fill-image", "icon-image", "shield-image"}
Strings == ImageAttributes \cup {"text", "font-family", "shield-text"}
Lists   == {"dashes", "casing-dashes"}
\* The words that are read; any other leaves what was there, or the first one.
Enums ==
    [a \in {"text-position"}   |-> <<"line", "center">>]
 @@ [a \in {"linecap", "casing-linecap"} |-> <<"none", "round", "square">>]
 @@ [a \in {"linejoin", "casing-linejoin"} |-> <<"miter", "bevel", "round">>]
 @@ [a \in {"shield-shape"}    |-> <<"rounded", "rectangular">>]
 @@ [a \in {"font-weight"}     |-> <<"normal", "bold">>]
 @@ [a \in {"font-style"}      |-> <<"normal", "italic">>]
AttributeTypes == Floats \cup ColorAttributes \cup Strings \cup Lists \cup DOMAIN Enums
                  \cup {"z-index"}

\* Conv to the type of an attribute, into a variable that holds old.
Conv(attr, text, old) ==
    CASE attr = "z-index" -> ConvInt(text, old)
      [] attr \in Floats \cup Lists -> ConvFloat(text, old)
      [] attr \in ColorAttributes ->
           [ok |-> text \in Colors, out |-> IF text \in Colors THEN text ELSE old]
      [] attr \in DOMAIN Enums ->
           [ok |-> TRUE,
            out |-> IF \E i \in DOMAIN Enums[attr] : text = Word(Enums[attr][i])
                       /\ (Enums[attr][i] # "none") THEN text ELSE old]
      [] OTHER -> [ok |-> TRUE, out |-> text]
\* A variable of the type that was just made.
Zero(attr) ==
    CASE attr \in Floats \cup Lists \cup {"z-index"} -> 0
      [] attr \in DOMAIN Enums -> Word(Enums[attr][1])
      [] attr \in ColorAttributes -> Word("white")
      [] OTHER -> Empty

\* The constructor of an Eval: an expression, or else a constant, or else an exception.
Direct(tokens) == Len(tokens) = 1 /\ Head(tokens)[1] = "leaf"
Constant(attr, text) == Conv(attr, text, Zero(attr))
Fixed(value) == [fixed |-> TRUE, value |-> value, node |-> NoParse.node]
Computed(parse) == [fixed |-> FALSE, value |-> 0, node |-> parse.node]
Failed == <<>>
NewText(attr, constant) == IF constant.ok THEN <<Fixed(constant.out)>> ELSE Failed
\* What is written eval(... and is no expression may still be a string.
NewExpression(attr, parse) ==
    CASE ~Fails(parse) -> <<Computed(parse)>>
      [] Fails(parse) /\ attr \in Strings \cup DOMAIN Enums ->
           NewText(attr, Constant(attr, Word("eval(")))
      [] OTHER -> Failed
NewEval(attr, tokens) ==
    IF Direct(tokens) THEN NewText(attr, Constant(attr, tokens[1][2]))
                      ELSE NewExpression(attr, parseEval(tokens))

\* The constructor for a list: the expression is cut at its commas outside of parentheses.
Nesting(tokens, depth, i) ==
    CASE tokens[i] = <<"sym", "(">> -> depth + 1
      [] tokens[i] = <<"sym", ")">> /\ depth > 0 -> depth - 1
      [] OTHER -> depth
Split(tokens) ==
    FoldLeft(LAMBDA acc, i :
               IF tokens[i] = <<"sym", ",">> /\ acc.depth = 0
               THEN [acc EXCEPT !.parts = Append(@, << >>)]
               ELSE [depth |-> Nesting(tokens, acc.depth, i),
                     parts |-> [acc.parts EXCEPT ![Len(acc.parts)] = Append(@, tokens[i])]],
             [depth |-> 0, parts |-> << << >> >>], [i \in DOMAIN tokens |-> i]).parts
AllOf(evals) ==
    IF Failed \in ToSet(evals) THEN Failed ELSE << [i \in DOMAIN evals |-> evals[i][1]] >>
\* addValue: a part is read as a value first, and nothing at all leaves that as it was made.
NewPart(attr, part) ==
    IF part = << >> THEN NewText(attr, Constant(attr, Empty)) ELSE NewEval(attr, part)
NewEvalList(attr, parts) == AllOf([i \in DOMAIN parts |-> NewPart(attr, parts[i])])

\* addAttributeToTemplate: an attribute whose value can not be made is left out.
Added(template, attr, new) == IF new = Failed THEN template ELSE (attr :> new[1]) @@ template
addAttributeToTemplate(template, attr, tokens) ==
    Added(template, attr, IF attr \in Lists THEN NewEvalList(attr, Split(tokens))
                                            ELSE NewEval(attr, tokens))

\* Style::Style.  The shield's opacity, frame, casing and shape are not set: locals of
\* their names are.  (Whatever is no ROUNDED is drawn as a rectangle.)
Style(unset) ==
    [a \in AttributeTypes |->
       CASE a \in Floats -> IF a \in {"icon-width", "icon-height"} THEN -2
                            ELSE IF a = "icon-opacity" THEN 2
                            ELSE IF a \in {"shield-opacity", "shield-frame-width",
                                           "shield-casing-width"} THEN unset ELSE 0
         [] a = "z-index" -> 0
         [] a \in Lists -> << >>
         [] a = "text-position" -> Word("center")
         [] a \in {"color", "text-color"} -> Word("black")
         [] a \in {"fill-color", "text-halo-color", "shield-color"} -> Word("clear")
         [] a = "font-family" -> Word("sans")
         [] a = "shield-shape" -> Word(IF unset = 0 THEN "rounded" ELSE "rectangular")
         [] OTHER -> Zero(a)]

\* Eval::overwrite: what the expression evaluates to is converted into the old value.
overwrite(attr, ev, old, tags, unset) ==
    IF ev.fixed THEN ev.value ELSE Conv(attr, Eval(ev.node, tags, unset), old).out
\* ... and for a list: an element that does not convert is left out when it is the first
\* failure of this list, and else is there with what the conversion left.
OverwriteList(attr, evs, tags, unset, failed) ==
    FoldLeft(LAMBDA acc, ev :
               LET c == IF ev.fixed THEN [ok |-> TRUE, out |-> ev.value]
                        ELSE Conv(attr, Eval(ev.node, tags, unset), unset)
               IN  IF c.ok \/ acc.failed THEN [acc EXCEPT !.list = Append(@, c.out)]
                   ELSE [acc EXCEPT !.failed = TRUE],
             [list |-> << >>, failed |-> failed], evs)

\* Style::overmerge: the attributes that the template has.  failed are the lists of it
\* that failed before.
overmerge(style, template, tags, unset, failed) ==
    [a \in AttributeTypes |->
       IF a \notin DOMAIN template THEN style[a]
       ELSE IF a \in Lists
       THEN OverwriteList(a, template[a], tags, unset, a \in failed).list
       ELSE overwrite(a, template[a], style[a], tags, unset)]
FailedLists(template, tags, unset, failed) ==
    {a \in Lists \cap DOMAIN template :
       OverwriteList(a, template[a], tags, unset, a \in failed).failed}

\* Style::finish: images that do not exist and dashes that can not be drawn are dropped...
FinishPaint(style) ==
    [a \in AttributeTypes |->
       CASE a \in ImageAttributes /\ style[a] \notin Images -> Empty
         [] a \in Lists /\ ((\A i \in DOMAIN style[a] : style[a][i] <= 0)
                            \/ (\E i \in DOMAIN style[a] : style[a][i] < 0)) -> << >>
         [] OTHER -> style[a]]
\* ... and for an object, texts are the tags they name and the layer is in the z-index.
finish(style, tags, unset) ==
    [FinishPaint(style) EXCEPT
       !["text"] = IF @ \in DOMAIN tags THEN tags[@] ELSE Empty,
       !["shield-text"] = IF @ \in DOMAIN tags THEN tags[@] ELSE Empty,
       !["z-index"] = IF Word("layer") \in DOMAIN tags
                      THEN @ + ConvInt(tags[Word("layer")], unset).out * 100 ELSE @]
=============================================================================
