------------------------------- MODULE EvalExpr -------------------------------
(***************************************************************************)
(* eval(...): the grammar of expressions, and what an expression says of   *)
(* an object.                                                              *)
(*                                                                         *)
(* A text is a pair of a kind and a value: <<"int", 7>>, <<"dec", 5>> for  *)
(* 2.5 (decimals are counted in halves), <<"lead", 7>> for a text that     *)
(* begins with the number 7, <<"word", w>> for any other, and <<"cat", ..>>*)
(* for parts put together.  A token is <<"leaf", text>> or a pair of       *)
(* another kind and a symbol.                                              *)
(*                                                                         *)
(* unset is what a variable holds that nobody initialized.                 *)
(***************************************************************************)
EXTENDS Integers, SequencesExt, FiniteSetsExt

Num(n)  == <<"int", n>>
Word(w) == <<"word", w>>
Empty   == Word("")
Truth(b) == Word(IF b THEN "true" ELSE "false")
Halves(h) == IF h % 2 = 0 THEN Num(h \div 2) ELSE <<"dec", h>>

\* The division of C++.
Divided(a, b) ==
    LET q == (IF a >= 0 THEN a ELSE -a) \div (IF b >= 0 THEN b ELSE -b)
    IN  IF (a >= 0) = (b >= 0) THEN q ELSE -q

\* Conv: whether the text was read to its end, and what is written meanwhile.  An empty
\* text is at its end before anything is read.
RECURSIVE ConvInt(_, _), ConvFloat(_, _)
ConvInt(text, unset) ==
    CASE text[1] = "int" -> [ok |-> TRUE, out |-> text[2]]
      [] text[1] = "cat" -> [ok |-> FALSE, out |-> ConvInt(text[2][1], unset).out]
      [] text = Empty    -> [ok |-> TRUE, out |-> unset]
      [] text[1] = "lead" -> [ok |-> FALSE, out |-> text[2]]
      [] text[1] = "dec"  -> [ok |-> FALSE, out |-> Divided(text[2], 2)]
      [] OTHER            -> [ok |-> FALSE, out |-> 0]
ConvFloat(text, unset) ==
    LET c == ConvInt(text, unset)
    IN  CASE text[1] = "dec" -> [ok |-> TRUE, out |-> text[2]]
          [] text = Empty -> [ok |-> TRUE, out |-> unset]
          [] text[1] = "cat" -> [ok |-> FALSE, out |-> ConvFloat(text[2][1], unset).out]
          [] OTHER -> [ok |-> c.ok, out |-> 2 * c.out]
ConvBool(text, unset) ==
    /\ text \notin {Empty, Word("false"), Word("no")}
    /\ ~(ConvInt(text, unset).ok /\ ConvInt(text, unset).out = 0)

\* first + second for strings; the digits of whole numbers that meet are one number.
Parts(text) == IF text[1] = "cat" THEN text[2] ELSE <<text>>
Glued(a, b) == LET high == a * (IF b < 10 THEN 10 ELSE 100)
               IN  Num(IF a >= 0 THEN high + b ELSE high - b)
Concat(first, second) ==
    LET p == Parts(first)  q == Parts(second)
        meet == Last(p)[1] = "int" /\ Head(q)[1] = "int" /\ Head(q)[2] \in 0..99
        parts == IF meet THEN Front(p) \o <<Glued(Last(p)[2], Head(q)[2])>> \o Tail(q)
                 ELSE p \o q
    IN  CASE first = Empty  -> second
          [] second = Empty -> first
          [] OTHER -> IF Len(parts) = 1 THEN Head(parts) ELSE <<"cat", parts>>

\* One of the four operations on numbers that are counted in units of 1 / unit.
Arithmetic(op, a, b, unit) ==
    CASE op = "+" -> a + b
      [] op = "-" -> a - b
      [] op = "*" -> Divided(a * b, unit)
      [] op = "/" -> Divided(unit * a, b)

\* With whole numbers if both are, else with decimals if both are.
calculation(op, left, right, unset) ==
    LET i1 == ConvInt(left, unset)    i2 == ConvInt(right, unset)
        f1 == ConvFloat(left, unset)  f2 == ConvFloat(right, unset)
    IN  CASE i1.ok /\ i2.ok -> Num(Arithmetic(op, i1.out, i2.out, 1))
          [] ~(i1.ok /\ i2.ok) /\ f1.ok /\ f2.ok -> Halves(Arithmetic(op, f1.out, f2.out, 2))
          [] OTHER -> Empty

\* Comparisons: as whole numbers or texts, as decimals, as texts.
Compare(op, first, second, unset) ==
    LET i1 == ConvInt(first, unset)    i2 == ConvInt(second, unset)
        f1 == ConvFloat(first, unset)  f2 == ConvFloat(second, unset)
        ints == i1.ok /\ i2.ok         floats == f1.ok /\ f2.ok
    IN  CASE op = "==" -> first = second \/ (ints /\ i1.out = i2.out)
          [] op = "!=" -> IF ints THEN i1.out # i2.out ELSE first # second
          [] op = "<"  -> floats /\ f1.out < f2.out
          [] op = "<=" -> floats /\ f1.out <= f2.out
          [] op = ">"  -> floats /\ f1.out > f2.out
          [] op = ">=" -> floats /\ f1.out >= f2.out
          [] op = "eq" -> first = second
          [] op = "ne" -> first # second

\* BinaryOperationNode::eval.
Binary(op, first, second, unset) ==
    CASE op \in {"+", "-", "*"} -> calculation(op, first, second, unset)
      [] op = "/" -> IF ConvInt(second, unset).ok /\ ConvInt(second, unset).out = 0 THEN Empty
                     ELSE calculation(op, first, second, unset)
      [] op = "." -> Concat(first, second)
      [] OTHER -> Truth(Compare(op, first, second, unset))

\* STNode::eval of an object with these tags: a leaf is its text, an operation is that of
\* its evaluated operands, and a function is FunctionOperationNode::eval.
RECURSIVE Eval(_, _, _)
Eval(node, tags, unset) ==
    LET first == Eval(node.args[1], tags, unset)
        float == ConvFloat(first, unset)
    IN  CASE node.op = "leaf" -> node.text
          [] node.op = "call" ->
             (CASE node.fun \in {"", "str"} -> first
                [] node.fun = "boolean" -> Truth(ConvBool(first, unset))
                [] node.fun = "not" -> Truth(~ConvBool(first, unset))
                [] node.fun = "num" -> IF float.ok THEN first ELSE Empty
                [] node.fun = "int" -> IF float.ok THEN Num(float.out \div 2) ELSE Empty
                [] node.fun = "tag" -> IF first \in DOMAIN tags THEN tags[first] ELSE Empty
                [] node.fun = "cond" /\ Len(node.args) # 3 -> Empty
                [] node.fun = "cond" /\ Len(node.args) = 3 ->
                     Eval(node.args[IF ConvBool(first, unset) THEN 2 ELSE 3], tags, unset))
          [] OTHER -> Binary(node.op, first, Eval(node.args[2], tags, unset), unset)
-----------------------------------------------------------------------------
(* EvalGrammer: each level is an operand of the next one, an operator, and *)
(* the level again.  A parse is a node and what is behind it.              *)

Lvl1OpSymbols == {"==", "!=", "<", "<=", ">", ">=", "eq", "ne"}
Lvl2OpSymbols == {"+", "-"}
Lvl3OpSymbols == {"*"}
Lvl4OpSymbols == {"/", "."}
LevelsSwapped == <<Lvl1OpSymbols, Lvl3OpSymbols, Lvl2OpSymbols, Lvl4OpSymbols>>   \* mutant
Levels == <<Lvl1OpSymbols, Lvl2OpSymbols, Lvl3OpSymbols, Lvl4OpSymbols>>
FuncOpSymbols == {"boolean", "str", "num", "int", "not", "tag", "cond"}

NoParse == [node |-> [op |-> "none"], rest |-> << >>]
Fails(parse) == parse.node.op = "none"
Leaf(text) == [op |-> "leaf", text |-> text, args |-> << >>]
Call(f, args) == [op |-> "call", fun |-> f, args |-> args]
Begins(tokens, symbols) == tokens # << >> /\ Head(tokens) \in {<<"sym", s>> : s \in symbols}

RECURSIVE rule_expr(_, _), Arguments(_)
\* A list of expressions up to the closing parenthesis, as the args of its node.
WithFirst(first, more) ==
    IF Fails(more) THEN NoParse ELSE [more EXCEPT !.node.args = <<first>> \o @]
ArgumentsFrom(first) ==
    CASE Fails(first) -> NoParse
      [] Begins(first.rest, {")"}) ->
           [node |-> Call("", <<first.node>>), rest |-> Tail(first.rest)]
      [] Begins(first.rest, {","}) -> WithFirst(first.node, Arguments(Tail(first.rest)))
      [] OTHER -> NoParse
Arguments(tokens) == ArgumentsFrom(rule_expr(1, tokens))
\* rule_func_expr and rule_string.
Applied(f, inner) ==
    IF Fails(inner) \/ (f = "" /\ Len(inner.node.args) # 1) THEN NoParse
    ELSE [inner EXCEPT !.node.fun = f]
Operand(tokens) ==
    CASE tokens = << >> -> NoParse
      [] Head(tokens)[1] = "leaf" ->
           [node |-> Leaf(Head(tokens)[2]), rest |-> Tail(tokens)]
      [] Begins(tokens, {"("}) -> Applied("", Arguments(Tail(tokens)))
      [] Head(tokens)[1] = "fun" /\ Begins(Tail(tokens), {"("}) ->
           Applied(Head(tokens)[2], Arguments(SubSeq(tokens, 3, Len(tokens))))
      [] OTHER -> NoParse
Operation(left, right) ==
    IF Fails(right) THEN left
    ELSE [node |-> [op |-> Head(left.rest)[2], args |-> <<left.node, right.node>>],
          rest |-> right.rest]
Continued(level, left) ==
    IF Fails(left) \/ ~Begins(left.rest, Levels[level]) THEN left
    ELSE Operation(left, rule_expr(level, Tail(left.rest)))
rule_expr(level, tokens) ==
    Continued(level, IF level = 4 THEN Operand(tokens) ELSE rule_expr(level + 1, tokens))

\* parseEval: a parse of everything there is.
parseEval(tokens) ==
    LET parse == rule_expr(1, tokens) IN IF parse.rest = << >> THEN parse ELSE NoParse
-----------------------------------------------------------------------------
(* Reference: a op b op c as it is read everywhere, by the precedence of   *)
(* the operators and from the left for equal ones.                         *)

Precedence(op) == CHOOSE l \in 1..3 : op \in <<Lvl1OpSymbols, Lvl2OpSymbols,
                                              Lvl3OpSymbols \cup Lvl4OpSymbols>>[l]
AsWritten(a, op1, b, op2, c, unset) ==
    IF Precedence(op2) > Precedence(op1)
    THEN Binary(op1, a, Binary(op2, b, c, unset), unset)
    ELSE Binary(op2, Binary(op1, a, b, unset), c, unset)
\* Where the grammar, which groups to the right, agrees with that: the operators are of
\* different levels for both, or the operation is associative, as it is for numbers.
Number(text) == ConvFloat(text, 0).ok
GroupsAlike(op1, op2, operands) ==
    \/ Precedence(op1) # Precedence(op2)
    \/ op1 = "." /\ op2 = "."
    \/ /\ <<op1, op2>> \in {<<"+", "+">>, <<"+", "-">>, <<"*", "*">>}
       /\ \A text \in operands : Number(text)
=============================================================================
