-------------------------- MODULE TileRequestProofs --------------------------
(***************************************************************************)
(* Theorems about TileRequest for any scenarios: HttpRequestParser reads   *)
(* the requests of the grammar; however the network cuts a request, it is  *)
(* read as one, and its url names the tile that is made.                   *)
(*                                                                         *)
(* The grammar speaks of parts of a text, the parser of the next           *)
(* character.  In between are the places of a text: for each state the set *)
(* of the places where a parser is in it (AtMethod, AtUri, ...), which     *)
(* follow from each other as the tables of the parser do, and which are    *)
(* also told by what parts the text has before them (LineParts,            *)
(* HeaderParts, ContParts).  Lines are the one thing that goes in a circle *)
(* - a header begins where the parser has read the line before - so these  *)
(* sets are told for any places where lines begin (LinesBegin), and then   *)
(* shown to hold of those where the grammar has them (LineStarts).         *)
(***************************************************************************)
EXTENDS TileRequest, FoldLemmas

(* The parser, character by character.                                     *)

\* The states that characters lead on from.
Sources ==
    {"method_start", "method", "uri", "http_version_h", "http_version_t_1", "http_version_t_2",
     "http_version_p", "http_version_slash", "http_version_major_start", "http_version_major",
     "http_version_minor_start", "http_version_minor", "expecting_newline_1",
     "header_line_start", "header_lws", "header_name", "space_before_header_value",
     "header_value", "expecting_newline_2", "expecting_newline_3"}
States == Sources \cup Final
Parsers == [state : States, uri : Seq(Chars), headers : Nat]

\* What a character does to a parser.
Took(p, c) == IF p.state \in Final THEN p ELSE Consume(p, c)

\* Where a character leads from a state, row by row.
Goes(p, c, s) ==
    LET From(state, chars, next) == p.state = state /\ c \in chars /\ s = next
    IN  \/ From("method_start", Token, "method")
        \/ From("method", {" "}, "uri")
        \/ From("method", Token, "method")
        \/ From("uri", {" "}, "http_version_h")
        \/ From("uri", Printed \ {" "}, "uri")
        \/ From("http_version_h", {"H"}, "http_version_t_1")
        \/ From("http_version_t_1", {"T"}, "http_version_t_2")
        \/ From("http_version_t_2", {"T"}, "http_version_p")
        \/ From("http_version_p", {"P"}, "http_version_slash")
        \/ From("http_version_slash", {"/"}, "http_version_major_start")
        \/ From("http_version_major_start", Digit, "http_version_major")
        \/ From("http_version_major", {"."}, "http_version_minor_start")
        \/ From("http_version_major", Digit, "http_version_major")
        \/ From("http_version_minor_start", Digit, "http_version_minor")
        \/ From("http_version_minor", {"\r"}, "expecting_newline_1")
        \/ From("http_version_minor", Digit, "http_version_minor")
        \/ From("expecting_newline_1", {"\n"}, "header_line_start")
        \/ From("header_line_start", {"\r"}, "expecting_newline_3")
        \/ From("header_line_start", IF p.headers > 0 THEN {" ", "\t"} ELSE {}, "header_lws")
        \/ From("header_line_start", Token, "header_name")
        \/ From("header_lws", {"\r"}, "expecting_newline_2")
        \/ From("header_lws", {" ", "\t"}, "header_lws")
        \/ From("header_lws", Printed \ {" "}, "header_value")
        \/ From("header_name", {":"}, "space_before_header_value")
        \/ From("header_name", Token, "header_name")
        \/ From("space_before_header_value", {" "}, "header_value")
        \/ From("header_value", {"\r"}, "expecting_newline_2")
        \/ From("header_value", Printed, "header_value")
        \/ From("expecting_newline_2", {"\n"}, "header_line_start")
        \/ From("expecting_newline_3", {"\n"}, "true")

NextOf(p, c) == {row[3] : row \in {row \in RequestLine \cup HeaderLines(p) :
                                     row[1] = p.state /\ c \in row[2]}}

\* The rows that lead somewhere are those of the tables.
LEMMA GoesByRows ==
    ASSUME NEW p, NEW c, NEW s
    PROVE  s \in NextOf(p, c) <=> Goes(p, c, s)
<1> DEFINE Is(row) == row[1] = p.state /\ c \in row[2] /\ s = row[3]
<1>1. s \in NextOf(p, c) <=>
        (\E row \in RequestLine : Is(row)) \/ (\E row \in HeaderLines(p) : Is(row))
  BY DEF NextOf
<1>0. \A state, chars, next :
         Is(<<state, chars, next>>) <=> p.state = state /\ c \in chars /\ s = next
  OBVIOUS
<1> HIDE DEF Is
<1>2. Goes(p, c, s) <=>
         \/ Is(<<"method_start", Token, "method">>)
         \/ Is(<<"method", {" "}, "uri">>)
         \/ Is(<<"method", Token, "method">>)
         \/ Is(<<"uri", {" "}, "http_version_h">>)
         \/ Is(<<"uri", Printed \ {" "}, "uri">>)
         \/ Is(<<"http_version_h", {"H"}, "http_version_t_1">>)
         \/ Is(<<"http_version_t_1", {"T"}, "http_version_t_2">>)
         \/ Is(<<"http_version_t_2", {"T"}, "http_version_p">>)
         \/ Is(<<"http_version_p", {"P"}, "http_version_slash">>)
         \/ Is(<<"http_version_slash", {"/"}, "http_version_major_start">>)
         \/ Is(<<"http_version_major_start", Digit, "http_version_major">>)
         \/ Is(<<"http_version_major", {"."}, "http_version_minor_start">>)
         \/ Is(<<"http_version_major", Digit, "http_version_major">>)
         \/ Is(<<"http_version_minor_start", Digit, "http_version_minor">>)
         \/ Is(<<"http_version_minor", {"\r"}, "expecting_newline_1">>)
         \/ Is(<<"http_version_minor", Digit, "http_version_minor">>)
         \/ Is(<<"expecting_newline_1", {"\n"}, "header_line_start">>)
         \/ Is(<<"header_line_start", {"\r"}, "expecting_newline_3">>)
         \/ Is(<<"header_line_start", IF p.headers > 0 THEN {" ", "\t"} ELSE {}, "header_lws">>)
         \/ Is(<<"header_line_start", Token, "header_name">>)
         \/ Is(<<"header_lws", {"\r"}, "expecting_newline_2">>)
         \/ Is(<<"header_lws", {" ", "\t"}, "header_lws">>)
         \/ Is(<<"header_lws", Printed \ {" "}, "header_value">>)
         \/ Is(<<"header_name", {":"}, "space_before_header_value">>)
         \/ Is(<<"header_name", Token, "header_name">>)
         \/ Is(<<"space_before_header_value", {" "}, "header_value">>)
         \/ Is(<<"header_value", {"\r"}, "expecting_newline_2">>)
         \/ Is(<<"header_value", Printed, "header_value">>)
         \/ Is(<<"expecting_newline_2", {"\n"}, "header_line_start">>)
         \/ Is(<<"expecting_newline_3", {"\n"}, "true">>)
  BY <1>0 DEF Goes
<1>3. (\E row \in RequestLine : Is(row)) <=>
         \/ Is(<<"method_start", Token, "method">>)
         \/ Is(<<"method", {" "}, "uri">>)
         \/ Is(<<"method", Token, "method">>)
         \/ Is(<<"uri", {" "}, "http_version_h">>)
         \/ Is(<<"uri", Printed \ {" "}, "uri">>)
         \/ Is(<<"http_version_h", {"H"}, "http_version_t_1">>)
         \/ Is(<<"http_version_t_1", {"T"}, "http_version_t_2">>)
         \/ Is(<<"http_version_t_2", {"T"}, "http_version_p">>)
         \/ Is(<<"http_version_p", {"P"}, "http_version_slash">>)
         \/ Is(<<"http_version_slash", {"/"}, "http_version_major_start">>)
         \/ Is(<<"http_version_major_start", Digit, "http_version_major">>)
         \/ Is(<<"http_version_major", {"."}, "http_version_minor_start">>)
         \/ Is(<<"http_version_major", Digit, "http_version_major">>)
         \/ Is(<<"http_version_minor_start", Digit, "http_version_minor">>)
         \/ Is(<<"http_version_minor", {"\r"}, "expecting_newline_1">>)
         \/ Is(<<"http_version_minor", Digit, "http_version_minor">>)
         \/ Is(<<"expecting_newline_1", {"\n"}, "header_line_start">>)
  BY DEF RequestLine
<1>4. (\E row \in HeaderLines(p) : Is(row)) <=>
         \/ Is(<<"header_line_start", {"\r"}, "expecting_newline_3">>)
         \/ Is(<<"header_line_start", IF p.headers > 0 THEN {" ", "\t"} ELSE {}, "header_lws">>)
         \/ Is(<<"header_line_start", Token, "header_name">>)
         \/ Is(<<"header_lws", {"\r"}, "expecting_newline_2">>)
         \/ Is(<<"header_lws", {" ", "\t"}, "header_lws">>)
         \/ Is(<<"header_lws", Printed \ {" "}, "header_value">>)
         \/ Is(<<"header_name", {":"}, "space_before_header_value">>)
         \/ Is(<<"header_name", Token, "header_name">>)
         \/ Is(<<"space_before_header_value", {" "}, "header_value">>)
         \/ Is(<<"header_value", {"\r"}, "expecting_newline_2">>)
         \/ Is(<<"header_value", Printed, "header_value">>)
         \/ Is(<<"expecting_newline_2", {"\n"}, "header_line_start">>)
         \/ Is(<<"expecting_newline_3", {"\n"}, "true">>)
  BY DEF HeaderLines
<1>5. QED
  BY <1>1, <1>2, <1>3, <1>4

\* At most one state is next.
LEMMA GoesOneWay ==
    ASSUME NEW p, NEW c \in Chars, NEW s, NEW t, Goes(p, c, s), Goes(p, c, t)
    PROVE  s = t /\ s \in States
<1>1. /\ c \in Token => c \notin {" ", ":", "\r", "\t"}
      /\ c \in Digit => c \notin {".", "\r"}
      /\ c \in Printed => c \notin {"\r", "\t"}
  BY DEF Printed, Token, Tspecial, Ctl, Digit
<1> DEFINE space == c = " "   tab == c = "\t"   colon == c = ":"   dot == c = "."
           cr == c = "\r"   token == c \in Token   digit == c \in Digit
           printed == c \in Printed   more == p.headers > 0
<1>2. ASSUME NEW u, Goes(p, c, u)
      PROVE  p.state \in Sources
  BY <1>2 DEF Goes, Sources
<1>11. ASSUME NEW u, Goes(p, c, u), p.state = "method_start"
      PROVE  u = "method"
  BY <1>1, <1>11 DEF Goes
<1>12. ASSUME NEW u, Goes(p, c, u), p.state = "method"
      PROVE  u = IF space THEN "uri" ELSE "method"
  BY <1>1, <1>12 DEF Goes
<1>13. ASSUME NEW u, Goes(p, c, u), p.state = "uri"
      PROVE  u = IF space THEN "http_version_h" ELSE "uri"
  BY <1>1, <1>13 DEF Goes
<1>14. ASSUME NEW u, Goes(p, c, u), p.state = "http_version_h"
      PROVE  u = "http_version_t_1"
  BY <1>1, <1>14 DEF Goes
<1>15. ASSUME NEW u, Goes(p, c, u), p.state = "http_version_t_1"
      PROVE  u = "http_version_t_2"
  BY <1>1, <1>15 DEF Goes
<1>16. ASSUME NEW u, Goes(p, c, u), p.state = "http_version_t_2"
      PROVE  u = "http_version_p"
  BY <1>1, <1>16 DEF Goes
<1>17. ASSUME NEW u, Goes(p, c, u), p.state = "http_version_p"
      PROVE  u = "http_version_slash"
  BY <1>1, <1>17 DEF Goes
<1>18. ASSUME NEW u, Goes(p, c, u), p.state = "http_version_slash"
      PROVE  u = "http_version_major_start"
  BY <1>1, <1>18 DEF Goes
<1>19. ASSUME NEW u, Goes(p, c, u), p.state = "http_version_major_start"
      PROVE  u = "http_version_major"
  BY <1>1, <1>19 DEF Goes
<1>20. ASSUME NEW u, Goes(p, c, u), p.state = "http_version_major"
      PROVE  u = IF dot THEN "http_version_minor_start" ELSE "http_version_major"
  BY <1>1, <1>20 DEF Goes
<1>21. ASSUME NEW u, Goes(p, c, u), p.state = "http_version_minor_start"
      PROVE  u = "http_version_minor"
  BY <1>1, <1>21 DEF Goes
<1>22. ASSUME NEW u, Goes(p, c, u), p.state = "http_version_minor"
      PROVE  u = IF cr THEN "expecting_newline_1" ELSE "http_version_minor"
  BY <1>1, <1>22 DEF Goes
<1>23. ASSUME NEW u, Goes(p, c, u), p.state = "expecting_newline_1"
      PROVE  u = "header_line_start"
  BY <1>1, <1>23 DEF Goes
<1>24. ASSUME NEW u, Goes(p, c, u), p.state = "header_line_start"
      PROVE  u = IF cr THEN "expecting_newline_3" ELSE IF token THEN "header_name" ELSE "header_lws"
  BY <1>1, <1>24 DEF Goes
<1>25. ASSUME NEW u, Goes(p, c, u), p.state = "header_lws"
      PROVE  u = IF cr THEN "expecting_newline_2"
                 ELSE IF space \/ tab THEN "header_lws" ELSE "header_value"
  BY <1>1, <1>25 DEF Goes
<1>26. ASSUME NEW u, Goes(p, c, u), p.state = "header_name"
      PROVE  u = IF colon THEN "space_before_header_value" ELSE "header_name"
  BY <1>1, <1>26 DEF Goes
<1>27. ASSUME NEW u, Goes(p, c, u), p.state = "space_before_header_value"
      PROVE  u = "header_value"
  BY <1>1, <1>27 DEF Goes
<1>28. ASSUME NEW u, Goes(p, c, u), p.state = "header_value"
      PROVE  u = IF cr THEN "expecting_newline_2" ELSE "header_value"
  BY <1>1, <1>28 DEF Goes
<1>29. ASSUME NEW u, Goes(p, c, u), p.state = "expecting_newline_2"
      PROVE  u = "header_line_start"
  BY <1>1, <1>29 DEF Goes
<1>30. ASSUME NEW u, Goes(p, c, u), p.state = "expecting_newline_3"
      PROVE  u = "true"
  BY <1>1, <1>30 DEF Goes
<1> HIDE DEF space, tab, colon, dot, cr, token, digit, printed, more
<1>3. s = t
  BY <1>2, <1>11, <1>12, <1>13, <1>14, <1>15, <1>16, <1>17, <1>18, <1>19, <1>20, <1>21,
     <1>22, <1>23, <1>24, <1>25, <1>26, <1>27, <1>28, <1>29, <1>30 DEF Sources
<1>4. s \in States
  BY <1>2, <1>11, <1>12, <1>13, <1>14, <1>15, <1>16, <1>17, <1>18, <1>19, <1>20, <1>21,
     <1>22, <1>23, <1>24, <1>25, <1>26, <1>27, <1>28, <1>29, <1>30 DEF Sources, States, Final
<1>5. QED
  BY <1>3, <1>4

\* A parser stays one.
LEMMA TookType ==
    ASSUME NEW p \in Parsers, NEW c \in Chars
    PROVE  Took(p, c) \in Parsers
<1> DEFINE next == NextOf(p, c)
<1>1. next \subseteq States
  BY GoesByRows, GoesOneWay
<1>2. CASE next = {}
  <2>1. Consume(p, c) = [p EXCEPT !.state = "false"]
    BY <1>2 DEF Consume, NextOf
  <2>2. [p EXCEPT !.state = "false"] \in Parsers
    <3>1. "false" \in States
      BY DEF States, Final
    <3>2. QED
      BY <3>1, Zenon DEF Parsers
  <2>3. QED
    BY <2>1, <2>2 DEF Took
<1>3. CASE next # {}
  <2> DEFINE new == [state   |-> CHOOSE s \in next : TRUE,
              uri     |-> IF p.state = "uri" /\ c # " " THEN Append(p.uri, c) ELSE p.uri,
              headers |-> p.headers + IF p.state = "header_line_start" /\ c \in Token
                                      THEN 1 ELSE 0]
  <2>1. Consume(p, c) = new
    BY <1>3 DEF Consume, NextOf
  <2>2. (CHOOSE s \in next : TRUE) \in States
    BY <1>1, <1>3
  <2> HIDE DEF next
  <2>3. new \in Parsers
    <3>1. p.uri \in Seq(Chars) /\ p.headers \in Nat
      BY DEF Parsers
    <3>2. Append(p.uri, c) \in Seq(Chars)
      BY <3>1
    <3>3. (p.headers + IF p.state = "header_line_start" /\ c \in Token THEN 1 ELSE 0) \in Nat
      BY <3>1
    <3>4. (IF p.state = "uri" /\ c # " " THEN Append(p.uri, c) ELSE p.uri) \in Seq(Chars)
      BY <3>1, <3>2
    <3>5. QED
      BY <2>2, <3>3, <3>4, Zenon DEF Parsers
  <2>4. QED
    BY <2>1, <2>3 DEF Took
<1>4. QED
  BY <1>2, <1>3

\* A run: what the parser is after each character.
Runs(q, p, text) ==
    /\ q \in [0..Len(text) -> Parsers]
    /\ q[0] = p /\ \A k \in 0..Len(text) - 1 : q[k + 1] = Took(q[k], text[k + 1])

\* There is one, and Parse is where it ends.
LEMMA ParseRuns ==
    ASSUME NEW p \in Parsers, NEW text \in Seq(Chars)
    PROVE  \E q : Runs(q, p, text) /\ Parse(p, text) = q[Len(text)]
<1> DEFINE n == Len(text)
           W == CHOOSE iter : iter = [s \in SUBSET (DOMAIN text) |->
                    IF s = {} THEN p
                    ELSE LET x == Max(s) IN Took(iter[s \ {x}], text[x])]
<1>0. n \in Nat /\ DOMAIN text = 1..n /\ \A i \in 1..n : text[i] \in Chars
  OBVIOUS
<1>1. Parse(p, text) = W[DOMAIN text]
  BY DEF Parse, FoldLeft, MapThenFoldSet, Took
<1> DEFINE step == [a \in Parsers \X (1..n) |-> Took(a[1], text[a[2]])]
<1>2. step \in [Parsers \X (1..n) -> Parsers]
  <2>1. ASSUME NEW a \in Parsers \X (1..n) PROVE Took(a[1], text[a[2]]) \in Parsers
    BY <1>0, TookType
  <2>2. QED
    BY <2>1
<1>3. PICK it \in [SUBSET (1..n) -> Parsers] : FoldsBy(it, n, p, step)
  <2> HIDE DEF step, n
  <2>2. QED
    BY <1>0, <1>2, FoldExists
<1>4. ASSUME NEW s \in SUBSET (1..n), s # {}
      PROVE  step[<<it[s \ {Max(s)}], Max(s)>>] = Took(it[s \ {Max(s)}], text[Max(s)])
  BY <1>4, <1>0, MaxOfSome
<1> HIDE DEF step
<1>5. it = [s \in SUBSET (1..n) |->
              IF s = {} THEN p ELSE Took(it[s \ {Max(s)}], text[Max(s)])]
  BY <1>3, <1>4 DEF FoldsBy
<1>6. W = [s \in SUBSET (1..n) |->
              IF s = {} THEN p ELSE Took(W[s \ {Max(s)}], text[Max(s)])]
  BY <1>5, <1>0
<1> HIDE DEF W, n
<1> DEFINE q == [k \in 0..n |-> W[1..k]]
<1>7. /\ W[1..0] = p
      /\ \A k \in 0..n - 1 : 
            1..k \in SUBSET (1..n) /\ W[1..k + 1] = Took(W[1..k], text[k + 1])
  <2>1. 1..0 = {}
    OBVIOUS
  <2>2. ASSUME NEW k \in 0..n - 1
        PROVE  1..k \in SUBSET (1..n) /\ W[1..k + 1] = Took(W[1..k], text[k + 1])
    <3>1. /\ 1..k + 1 \in SUBSET (1..n) /\ 1..k + 1 # {} /\ Max(1..k + 1) = k + 1
          /\ (1..k + 1) \ {k + 1} = 1..k
      <4>1. k \in Nat /\ k + 1 <= n /\ n \in Nat
        BY <1>0
      <4>2. QED
        BY <4>1, NextPlace
    <3>2. 1..k \in SUBSET (1..n)
      BY <3>1
    <3>3. QED
      BY <3>1, <3>2, <1>6
  <2>3. QED
    BY <2>1, <2>2, <1>6
<1> DEFINE S == {k \in Nat : k <= n => W[1..k] \in Parsers}
<1>8. 0 \in S
  BY <1>7
<1>9. ASSUME NEW k \in S PROVE k + 1 \in S
  <2>1. k \in Nat /\ (k <= n => W[1..k] \in Parsers)
    OBVIOUS
  <2> SUFFICES ASSUME k + 1 <= n PROVE W[1..k + 1] \in Parsers
    BY <2>1
  <2>2. W[1..k] \in Parsers /\ k \in 0..n - 1 /\ text[k + 1] \in Chars
    BY <2>1, <1>0
  <2>3. W[1..k + 1] = Took(W[1..k], text[k + 1])
    BY <2>2, <1>7
  <2>4. QED
    BY <2>2, <2>3, TookType
<1> HIDE DEF S
<1>10. S = Nat
  <2>1. S \subseteq Nat
    BY DEF S
  <2>2. QED
    BY <2>1, <1>8, <1>9, SetInduction
<1>11. \A k \in 0..n : W[1..k] \in Parsers
  BY <1>10, <1>0 DEF S
<1>12. Runs(q, p, text)
  <2>1. q \in [0..n -> Parsers]
    BY <1>11
  <2>2. q[0] = p /\ \A k \in 0..n - 1 : q[k + 1] = Took(q[k], text[k + 1])
    BY <1>7, <1>0
  <2> HIDE DEF q
  <2>3. QED
    BY <2>1, <2>2 DEF Runs, n
<1>13. Parse(p, text) = q[Len(text)]
  BY <1>1, <1>0 DEF n
<1>14. QED
  BY <1>12, <1>13

\* So a parser goes on along the first characters of a text.
Follows(q, p, text, n) ==
    q[0] = p /\ \A k \in 0..n - 1 : q[k + 1] = Took(q[k], text[k + 1])

\* It goes one way only, along texts that begin alike.
LEMMA RunsAgree ==
    ASSUME NEW p, NEW n \in Nat, NEW q, NEW r, NEW a, NEW b,
           Follows(q, p, a, n), Follows(r, p, b, n), \A k \in 1..n : a[k] = b[k]
    PROVE  \A k \in 0..n : q[k] = r[k]
<1> DEFINE S == {k \in Nat : k <= n => q[k] = r[k]}
<1>1. 0 \in S
  BY DEF Follows
<1>2. ASSUME NEW k \in S PROVE k + 1 \in S
  <2>1. k \in Nat /\ (k <= n => q[k] = r[k])
    OBVIOUS
  <2> SUFFICES ASSUME k + 1 <= n PROVE q[k + 1] = r[k + 1]
    BY <2>1
  <2>2. k \in 0..n - 1 /\ k + 1 \in 1..n /\ q[k] = r[k]
    BY <2>1
  <2>3. q[k + 1] = Took(q[k], a[k + 1]) /\ r[k + 1] = Took(r[k], b[k + 1])
    BY <2>2 DEF Follows
  <2>4. QED
    BY <2>2, <2>3
<1> HIDE DEF S
<1>3. S = Nat
  <2>1. S \subseteq Nat
    BY DEF S
  <2>2. QED
    BY <2>1, <1>1, <1>2, SetInduction
<1>4. QED
  BY <1>3 DEF S

\* So whatever goes that way ends where Parse does.
LEMMA RunEnds ==
    ASSUME NEW p \in Parsers, NEW text \in Seq(Chars), NEW q, Follows(q, p, text, Len(text))
    PROVE  Parse(p, text) = q[Len(text)]
<1> DEFINE n == Len(text)
<1>1. PICK r : Runs(r, p, text) /\ Parse(p, text) = r[n]
  BY ParseRuns
<1>2. Follows(r, p, text, n)
  BY <1>1 DEF Runs, Follows
<1>3. n \in Nat /\ n \in 0..n
  OBVIOUS
<1> HIDE DEF n
<1>4. \A k \in 0..n : q[k] = r[k]
  BY <1>2, <1>3, RunsAgree DEF n
<1>5. QED
  BY <1>1, <1>3, <1>4 DEF n

\* Where a character leads to, state by state.
LEMMA Arrivals ==
    ASSUME NEW p, NEW c
    PROVE  /\ ~Goes(p, c, "method_start")
           /\ Goes(p, c, "method") <=>
                (p.state = "method_start" \/ p.state = "method") /\ c \in Token
           /\ Goes(p, c, "uri") <=> \/ p.state = "method" /\ c \in {" "}
                                    \/ p.state = "uri" /\ c \in Printed \ {" "}
           /\ Goes(p, c, "http_version_h") <=> p.state = "uri" /\ c \in {" "}
           /\ Goes(p, c, "http_version_t_1") <=> p.state = "http_version_h" /\ c \in {"H"}
           /\ Goes(p, c, "http_version_t_2") <=> p.state = "http_version_t_1" /\ c \in {"T"}
           /\ Goes(p, c, "http_version_p") <=> p.state = "http_version_t_2" /\ c \in {"T"}
           /\ Goes(p, c, "http_version_slash") <=> p.state = "http_version_p" /\ c \in {"P"}
           /\ Goes(p, c, "http_version_major_start") <=>
                p.state = "http_version_slash" /\ c \in {"/"}
           /\ Goes(p, c, "http_version_major") <=>
                (p.state = "http_version_major_start" \/ p.state = "http_version_major")
                /\ c \in Digit
           /\ Goes(p, c, "http_version_minor_start") <=>
                p.state = "http_version_major" /\ c \in {"."}
           /\ Goes(p, c, "http_version_minor") <=>
                (p.state = "http_version_minor_start" \/ p.state = "http_version_minor")
                /\ c \in Digit
           /\ Goes(p, c, "expecting_newline_1") <=>
                p.state = "http_version_minor" /\ c \in {"\r"}
           /\ Goes(p, c, "header_line_start") <=>
                (p.state = "expecting_newline_1" \/ p.state = "expecting_newline_2")
                /\ c \in {"\n"}
           /\ Goes(p, c, "header_lws") <=>
                \/ p.state = "header_line_start" /\ p.headers > 0 /\ c \in {" ", "\t"}
                \/ p.state = "header_lws" /\ c \in {" ", "\t"}
           /\ Goes(p, c, "header_name") <=>
                (p.state = "header_line_start" \/ p.state = "header_name") /\ c \in Token
           /\ Goes(p, c, "space_before_header_value") <=>
                p.state = "header_name" /\ c \in {":"}
           /\ Goes(p, c, "header_value") <=>
                \/ p.state = "header_lws" /\ c \in Printed \ {" "}
                \/ p.state = "space_before_header_value" /\ c \in {" "}
                \/ p.state = "header_value" /\ c \in Printed
           /\ Goes(p, c, "expecting_newline_2") <=>
                (p.state = "header_lws" \/ p.state = "header_value") /\ c \in {"\r"}
           /\ Goes(p, c, "expecting_newline_3") <=>
                p.state = "header_line_start" /\ c \in {"\r"}
           /\ Goes(p, c, "true") <=> p.state = "expecting_newline_3" /\ c \in {"\n"}
           /\ ~Goes(p, c, "false")
BY DEF Goes

\* So this is the state after a character, and how many headers there are.
LEMMA StateAfter ==
    ASSUME NEW p \in Parsers, NEW c \in Chars
    PROVE  /\ \A s \in Sources : Took(p, c).state = s <=> Goes(p, c, s)
           /\ Took(p, c).state = "true" <=> p.state = "true" \/ Goes(p, c, "true")
           /\ Took(p, c).headers = IF p.state = "header_line_start" /\ c \in Token
                                   THEN p.headers + 1 ELSE p.headers
<1>1. \A s : Goes(p, c, s) => p.state \in Sources
  BY DEF Goes, Sources
<1>2. Sources \cap Final = {}
  BY DEF Sources, Final
<1>3. p.headers \in Nat /\ p.state \in States
  BY DEF Parsers
<1>4. CASE p.state \in Final
  <2>1. Took(p, c) = p /\ p.state # "header_line_start"
    BY <1>4 DEF Took, Final
  <2>2. \A s : ~Goes(p, c, s)
    BY <1>1, <1>2, <1>4
  <2>3. QED
    BY <2>1, <2>2, <1>2, <1>4
<1>5. CASE p.state \notin Final /\ NextOf(p, c) = {}
  <2>1. Took(p, c) = [p EXCEPT !.state = "false"]
    BY <1>5 DEF Took, Consume, NextOf
  <2>2. Took(p, c).state = "false" /\ Took(p, c).headers = p.headers
    <3>1. p = [state |-> p.state, uri |-> p.uri, headers |-> p.headers]
      BY Zenon DEF Parsers
    <3>2. [p EXCEPT !.state = "false"] = [state |-> "false", uri |-> p.uri, headers |-> p.headers]
      BY <3>1
    <3>3. QED
      BY <2>1, <3>2
  <2>3. \A s : ~Goes(p, c, s)
    BY <1>5, GoesByRows
  <2>4. "false" \notin Sources /\ "true" # "false" /\ "true" \in Final
    BY DEF Sources, Final
  <2>5. ~(p.state = "header_line_start" /\ c \in Token)
    BY <2>3 DEF Goes
  <2>6. QED
    BY <2>2, <2>3, <2>4, <2>5, <1>5
<1>6. CASE p.state \notin Final /\ NextOf(p, c) # {}
  <2>1. /\ Took(p, c).state = CHOOSE s \in NextOf(p, c) : TRUE
        /\ Took(p, c).headers = p.headers + (IF p.state = "header_line_start" /\ c \in Token
                                             THEN 1 ELSE 0)
    BY <1>6 DEF Took, Consume, NextOf
  <2>2. Goes(p, c, Took(p, c).state)
    BY <2>1, <1>6, GoesByRows
  <2>3. \A s : Goes(p, c, s) => s = Took(p, c).state
    BY <2>2, GoesOneWay
  <2>4. "true" \in Final
    BY DEF Final
  <2>5. ASSUME NEW s \in Sources PROVE Took(p, c).state = s <=> Goes(p, c, s)
    BY <2>2, <2>3
  <2>6. Took(p, c).state = "true" <=> p.state = "true" \/ Goes(p, c, "true")
    BY <2>2, <2>3, <2>4, <1>6
  <2>7. Took(p, c).headers = IF p.state = "header_line_start" /\ c \in Token
                             THEN p.headers + 1 ELSE p.headers
    BY <2>1, <1>3
  <2>8. QED
    BY <2>5, <2>6, <2>7
<1>7. QED
  BY <1>4, <1>5, <1>6
-----------------------------------------------------------------------------
(* Where a text may be cut into what a state has read and what is to come. *)

\* The places one character behind others, and those behind one or more.
One(t, from, chars) == {k \in 1..Len(t) : k - 1 \in from /\ t[k] \in chars}
Loop(t, from, first, more) ==
    {k \in 1..Len(t) : \E j \in from : /\ j < k /\ t[j + 1] \in first
                                       /\ \A m \in j + 2..k : t[m] \in more}

\* A loop is entered from where it begins, and goes on.
LEMMA LoopStep ==
    ASSUME NEW t, Len(t) \in Nat, NEW from \in SUBSET Nat, NEW first, NEW more,
           NEW k \in 0..Len(t) - 1
    PROVE  k + 1 \in Loop(t, from, first, more) <=>
             \/ k \in from /\ t[k + 1] \in first
             \/ k \in Loop(t, from, first, more) /\ t[k + 1] \in more
<1>1. ASSUME k + 1 \in Loop(t, from, first, more)
      PROVE  \/ k \in from /\ t[k + 1] \in first
             \/ k \in Loop(t, from, first, more) /\ t[k + 1] \in more
  <2>1. PICK j \in from : /\ j < k + 1 /\ t[j + 1] \in first
                          /\ \A m \in j + 2..k + 1 : t[m] \in more
    BY <1>1 DEF Loop
  <2>2. j \in Nat
    OBVIOUS
  <2>3. CASE j = k
    BY <2>1, <2>3
  <2>4. CASE j # k
    <3>1. /\ j < k /\ k \in 1..Len(t) /\ k + 1 \in j + 2..k + 1
          /\ \A m \in j + 2..k : m \in j + 2..k + 1
      BY <2>1, <2>2, <2>4
    <3>2. t[k + 1] \in more /\ \A m \in j + 2..k : t[m] \in more
      BY <2>1, <3>1
    <3>3. QED
      BY <2>1, <3>1, <3>2 DEF Loop
  <2>5. QED
    BY <2>3, <2>4
<1>2. ASSUME k \in from /\ t[k + 1] \in first
      PROVE  k + 1 \in Loop(t, from, first, more)
  <2>1. k + 1 \in 1..Len(t) /\ k < k + 1 /\ k + 2..k + 1 = {}
    OBVIOUS
  <2>2. QED
    BY <1>2, <2>1 DEF Loop
<1>3. ASSUME k \in Loop(t, from, first, more) /\ t[k + 1] \in more
      PROVE  k + 1 \in Loop(t, from, first, more)
  <2>1. PICK j \in from : /\ j < k /\ t[j + 1] \in first
                          /\ \A m \in j + 2..k : t[m] \in more
    BY <1>3 DEF Loop
  <2>2. j \in Nat /\ k + 1 \in 1..Len(t) /\ j < k + 1
    BY <2>1
  <2>3. \A m \in j + 2..k + 1 : m \in j + 2..k \/ m = k + 1
    BY <2>2
  <2>4. \A m \in j + 2..k + 1 : t[m] \in more
    BY <2>1, <2>3, <1>3
  <2>5. QED
    BY <2>1, <2>2, <2>4 DEF Loop
<1>4. QED
  BY <1>1, <1>2, <1>3

Blanks == {" ", "\t"}
AtMethod(t)     == Loop(t, {0}, Token, Token)
AtUri(t)        == Loop(t, AtMethod(t), {" "}, Printed \ {" "})
AtVersion(t)    == One(t, AtUri(t), {" "})
AtT1(t)         == One(t, AtVersion(t), {"H"})
AtT2(t)         == One(t, AtT1(t), {"T"})
AtP(t)          == One(t, AtT2(t), {"T"})
AtSlash(t)      == One(t, AtP(t), {"P"})
AtMajorStart(t) == One(t, AtSlash(t), {"/"})
AtMajor(t)      == Loop(t, AtMajorStart(t), Digit, Digit)
AtMinorStart(t) == One(t, AtMajor(t), {"."})
AtMinor(t)      == Loop(t, AtMinorStart(t), Digit, Digit)
AtNewline1(t)   == One(t, AtMinor(t), {"\r"})
FirstLine(t)    == One(t, AtNewline1(t), {"\n"})

\* Lines begin after the first one and after each header, where more follow.
AtName(t, starts)    == Loop(t, starts, Token, Token)
AtSpace(t, starts)   == One(t, AtName(t, starts), {":"})
AtBlanks(t, more)    == Loop(t, more, Blanks, Blanks)
AtValue(t, starts, more) == Loop(t, AtSpace(t, starts), {" "}, Printed)
                            \cup Loop(t, AtBlanks(t, more), Printed \ {" "}, Printed)
AtNewline2(t, starts, more) == One(t, AtValue(t, starts, more) \cup AtBlanks(t, more), {"\r"})
NextLine(t, starts, more)   == One(t, AtNewline2(t, starts, more), {"\n"})

\* Where the lines of headers begin, told by where they end.
LinesBegin(t, starts, more) == more = NextLine(t, starts, more) /\ starts = FirstLine(t) \cup more

\* What is known of a parser after the k first characters.
ReadSofar(p, t, k, starts, more) ==
    /\ p.state = "method_start" <=> k = 0
    /\ p.state = "method" <=> k \in AtMethod(t)
    /\ p.state = "uri" <=> k \in AtUri(t)
    /\ p.state = "http_version_h" <=> k \in AtVersion(t)
    /\ p.state = "http_version_t_1" <=> k \in AtT1(t)
    /\ p.state = "http_version_t_2" <=> k \in AtT2(t)
    /\ p.state = "http_version_p" <=> k \in AtP(t)
    /\ p.state = "http_version_slash" <=> k \in AtSlash(t)
    /\ p.state = "http_version_major_start" <=> k \in AtMajorStart(t)
    /\ p.state = "http_version_major" <=> k \in AtMajor(t)
    /\ p.state = "http_version_minor_start" <=> k \in AtMinorStart(t)
    /\ p.state = "http_version_minor" <=> k \in AtMinor(t)
    /\ p.state = "expecting_newline_1" <=> k \in AtNewline1(t)
    /\ p.state = "header_line_start" <=> k \in starts
    /\ p.state = "header_lws" <=> k \in AtBlanks(t, more)
    /\ p.state = "header_name" <=> k \in AtName(t, starts)
    /\ p.state = "space_before_header_value" <=> k \in AtSpace(t, starts)
    /\ p.state = "header_value" <=> k \in AtValue(t, starts, more)
    /\ p.state = "expecting_newline_2" <=> k \in AtNewline2(t, starts, more)

\* How many headers it has.
InFirstLine ==
    {"method_start", "method", "uri", "http_version_h", "http_version_t_1", "http_version_t_2",
     "http_version_p", "http_version_slash", "http_version_major_start", "http_version_major",
     "http_version_minor_start", "http_version_minor", "expecting_newline_1"}
InHeader == {"header_lws", "header_name", "space_before_header_value", "header_value",
             "expecting_newline_2"}
HeadersSofar(p, k, more) ==
    /\ p.state \in InFirstLine => p.headers = 0
    /\ p.state \in InHeader => p.headers > 0
    /\ p.state = "header_line_start" => (p.headers > 0 <=> k \in more)

\* It is kept by every character.
LEMMA ReadsOn ==
    ASSUME NEW t \in Seq(Chars), NEW starts, NEW more, LinesBegin(t, starts, more),
           NEW k \in 0..Len(t) - 1, NEW p \in Parsers, NEW r, r = Took(p, t[k + 1]),
           ReadSofar(p, t, k, starts, more), HeadersSofar(p, k, more)
    PROVE  ReadSofar(r, t, k + 1, starts, more) /\ HeadersSofar(r, k + 1, more)
<1> DEFINE n == Len(t)   c == t[k + 1]
<1>1. n \in Nat /\ c \in Chars /\ k + 1 \in 1..n /\ k + 1 # 0 /\ (k + 1) - 1 = k /\ k \in 0..n - 1
  OBVIOUS
<1>2. more \subseteq 1..n /\ FirstLine(t) \subseteq 1..n
  BY DEF LinesBegin, NextLine, FirstLine, One
<1>3. /\ {0} \in SUBSET Nat /\ AtMethod(t) \in SUBSET Nat /\ AtMajorStart(t) \in SUBSET Nat
      /\ AtMinorStart(t) \in SUBSET Nat /\ starts \in SUBSET Nat /\ more \in SUBSET Nat
      /\ AtSpace(t, starts) \in SUBSET Nat /\ AtBlanks(t, more) \in SUBSET Nat
  <2>1. \A from, chars : One(t, from, chars) \in SUBSET Nat
    BY DEF One
  <2>2. \A from, first, on : Loop(t, from, first, on) \in SUBSET Nat
    BY DEF Loop
  <2>3. AtMethod(t) \in SUBSET Nat /\ AtBlanks(t, more) \in SUBSET Nat
    BY <2>2, Zenon DEF AtMethod, AtBlanks
  <2>4. /\ AtMajorStart(t) \in SUBSET Nat /\ AtMinorStart(t) \in SUBSET Nat
        /\ AtSpace(t, starts) \in SUBSET Nat
    BY <2>1, Zenon DEF AtMajorStart, AtMinorStart, AtSpace
  <2>5. starts \in SUBSET Nat /\ more \in SUBSET Nat
    <3>1. starts = FirstLine(t) \cup more
      BY DEF LinesBegin
    <3>2. 1..n \subseteq Nat
      OBVIOUS
    <3>3. QED
      BY <3>1, <3>2, <1>2, Zenon
  <2>6. QED
    BY <2>3, <2>4, <2>5
<1>4. \A from, chars : k + 1 \in One(t, from, chars) <=> k \in from /\ c \in chars
  BY <1>1 DEF One
<1>5. \A from \in SUBSET Nat : \A first, on :
        k + 1 \in Loop(t, from, first, on) <=>
          \/ k \in from /\ c \in first
          \/ k \in Loop(t, from, first, on) /\ c \in on
  BY <1>1, LoopStep
<1>6. \A s \in Sources : r.state = s <=> Goes(p, c, s)
  BY <1>1, StateAfter
<1>7. r.headers = (IF p.state = "header_line_start" /\ c \in Token
                   THEN p.headers + 1 ELSE p.headers) /\ p.headers \in Nat
  BY <1>1, StateAfter DEF Parsers
<1> HIDE DEF n, c
<1>8. more \subseteq starts /\ (p.state = "header_line_start" => (p.headers > 0 <=> k \in more))
  BY DEF LinesBegin, HeadersSofar
<1>9. r.state = "method_start" <=> k + 1 = 0
  BY <1>1, <1>6, Arrivals DEF Sources
<1>10. r.state = "method" <=> k + 1 \in AtMethod(t)
  <2>1. r.state = "method" <=> Goes(p, c, "method")
    BY <1>6 DEF Sources
  <2>2. QED
    BY <2>1, <1>3, <1>5, <1>8, Arrivals DEF ReadSofar, AtMethod
<1>11. r.state = "uri" <=> k + 1 \in AtUri(t)
  <2>1. r.state = "uri" <=> Goes(p, c, "uri")
    BY <1>6 DEF Sources
  <2>2. k + 1 \in AtUri(t) <=>
          (k \in AtMethod(t) /\ c \in {" "}) \/ (k \in AtUri(t) /\ c \in Printed \ {" "})
    BY <1>3, <1>5 DEF AtUri
  <2>3. QED
    BY <2>1, <2>2, <1>8, Arrivals DEF ReadSofar
<1>12. r.state = "http_version_h" <=> k + 1 \in AtVersion(t)
  <2>1. r.state = "http_version_h" <=> Goes(p, c, "http_version_h")
    BY <1>6 DEF Sources
  <2>2. QED
    BY <2>1, <1>4, <1>8, Arrivals DEF ReadSofar, AtVersion
<1>13. r.state = "http_version_t_1" <=> k + 1 \in AtT1(t)
  <2>1. r.state = "http_version_t_1" <=> Goes(p, c, "http_version_t_1")
    BY <1>6 DEF Sources
  <2>2. QED
    BY <2>1, <1>4, <1>8, Arrivals DEF ReadSofar, AtT1
<1>14. r.state = "http_version_t_2" <=> k + 1 \in AtT2(t)
  <2>1. r.state = "http_version_t_2" <=> Goes(p, c, "http_version_t_2")
    BY <1>6 DEF Sources
  <2>2. QED
    BY <2>1, <1>4, <1>8, Arrivals DEF ReadSofar, AtT2
<1>15. r.state = "http_version_p" <=> k + 1 \in AtP(t)
  <2>1. r.state = "http_version_p" <=> Goes(p, c, "http_version_p")
    BY <1>6 DEF Sources
  <2>2. QED
    BY <2>1, <1>4, <1>8, Arrivals DEF ReadSofar, AtP
<1>16. r.state = "http_version_slash" <=> k + 1 \in AtSlash(t)
  <2>1. r.state = "http_version_slash" <=> Goes(p, c, "http_version_slash")
    BY <1>6 DEF Sources
  <2>2. QED
    BY <2>1, <1>4, <1>8, Arrivals DEF ReadSofar, AtSlash
<1>17. r.state = "http_version_major_start" <=> k + 1 \in AtMajorStart(t)
  <2>1. r.state = "http_version_major_start" <=> Goes(p, c, "http_version_major_start")
    BY <1>6 DEF Sources
  <2>2. QED
    BY <2>1, <1>4, <1>8, Arrivals DEF ReadSofar, AtMajorStart
<1>18. r.state = "http_version_major" <=> k + 1 \in AtMajor(t)
  <2>1. r.state = "http_version_major" <=> Goes(p, c, "http_version_major")
    BY <1>6 DEF Sources
  <2>2. QED
    BY <2>1, <1>3, <1>5, <1>8, Arrivals DEF ReadSofar, AtMajor
<1>19. r.state = "http_version_minor_start" <=> k + 1 \in AtMinorStart(t)
  <2>1. r.state = "http_version_minor_start" <=> Goes(p, c, "http_version_minor_start")
    BY <1>6 DEF Sources
  <2>2. QED
    BY <2>1, <1>4, <1>8, Arrivals DEF ReadSofar, AtMinorStart
<1>20. r.state = "http_version_minor" <=> k + 1 \in AtMinor(t)
  <2>1. r.state = "http_version_minor" <=> Goes(p, c, "http_version_minor")
    BY <1>6 DEF Sources
  <2>2. QED
    BY <2>1, <1>3, <1>5, <1>8, Arrivals DEF ReadSofar, AtMinor
<1>21. r.state = "expecting_newline_1" <=> k + 1 \in AtNewline1(t)
  <2>1. r.state = "expecting_newline_1" <=> Goes(p, c, "expecting_newline_1")
    BY <1>6 DEF Sources
  <2>2. QED
    BY <2>1, <1>4, <1>8, Arrivals DEF ReadSofar, AtNewline1
<1>22. r.state = "header_lws" <=> k + 1 \in AtBlanks(t, more)
  <2>1. r.state = "header_lws" <=> Goes(p, c, "header_lws")
    BY <1>6 DEF Sources
  <2>2. k + 1 \in AtBlanks(t, more) <=>
          (k \in more \/ k \in AtBlanks(t, more)) /\ c \in {" ", "\t"}
    BY <1>3, <1>5 DEF AtBlanks, Blanks
  <2>3. QED
    BY <2>1, <2>2, <1>8, Arrivals DEF ReadSofar
<1>23. r.state = "header_name" <=> k + 1 \in AtName(t, starts)
  <2>1. r.state = "header_name" <=> Goes(p, c, "header_name")
    BY <1>6 DEF Sources
  <2>2. QED
    BY <2>1, <1>3, <1>5, <1>8, Arrivals DEF ReadSofar, AtName
<1>24. r.state = "space_before_header_value" <=> k + 1 \in AtSpace(t, starts)
  <2>1. r.state = "space_before_header_value" <=> Goes(p, c, "space_before_header_value")
    BY <1>6 DEF Sources
  <2>2. QED
    BY <2>1, <1>4, <1>8, Arrivals DEF ReadSofar, AtSpace
<1>25. r.state = "header_value" <=> k + 1 \in AtValue(t, starts, more)
  <2>1. r.state = "header_value" <=> Goes(p, c, "header_value")
    BY <1>6 DEF Sources
  <2>2. k + 1 \in AtValue(t, starts, more) <=>
          ( \/ k \in AtSpace(t, starts) /\ c \in {" "}
            \/ k \in AtBlanks(t, more) /\ c \in Printed \ {" "}
            \/ k \in AtValue(t, starts, more) /\ c \in Printed )
    BY <1>3, <1>5 DEF AtValue
  <2>3. QED
    BY <2>1, <2>2, <1>8, Arrivals DEF ReadSofar
<1>26. r.state = "expecting_newline_2" <=> k + 1 \in AtNewline2(t, starts, more)
  <2>1. r.state = "expecting_newline_2" <=> Goes(p, c, "expecting_newline_2")
    BY <1>6 DEF Sources
  <2>2. k + 1 \in AtNewline2(t, starts, more) <=>
          (k \in AtValue(t, starts, more) \/ k \in AtBlanks(t, more)) /\ c \in {"\r"}
    BY <1>4 DEF AtNewline2
  <2>3. QED
    BY <2>1, <2>2, <1>8, Arrivals DEF ReadSofar
<1>30. k + 1 \in FirstLine(t) <=> p.state = "expecting_newline_1" /\ c \in {"\n"}
  BY <1>4 DEF FirstLine, ReadSofar
<1>31. k + 1 \in more <=> p.state = "expecting_newline_2" /\ c \in {"\n"}
  BY <1>4 DEF LinesBegin, NextLine, ReadSofar
<1>32. r.state = "header_line_start" <=> k + 1 \in starts
  <2>1. r.state = "header_line_start" <=> Goes(p, c, "header_line_start")
    BY <1>6 DEF Sources
  <2>2. QED
    BY <2>1, <1>30, <1>31, Arrivals DEF LinesBegin
<1>33. ReadSofar(r, t, k + 1, starts, more)
  BY <1>9, <1>10, <1>11, <1>12, <1>13, <1>14, <1>15, <1>16, <1>17, <1>18, <1>19, <1>20,
     <1>21, <1>22, <1>23, <1>24, <1>25, <1>26, <1>32 DEF ReadSofar
<1>34. HeadersSofar(r, k + 1, more)
  <2>1. r.state \in InFirstLine => p.state \in InFirstLine
    BY <1>6, Arrivals DEF InFirstLine, Sources
  <2>2. r.state \in InHeader =>
          \/ p.state \in InHeader
          \/ p.state = "header_line_start" /\ (p.headers > 0 \/ c \in Token)
    BY <1>6, Arrivals DEF InHeader, Sources
  <2>3. r.state = "header_line_start" =>
          p.state = "expecting_newline_1" \/ p.state = "expecting_newline_2"
    <3>1. r.state = "header_line_start" <=> Goes(p, c, "header_line_start")
      BY <1>6 DEF Sources
    <3>2. QED
      BY <3>1, Arrivals
  <2>4. r.state \in InFirstLine => r.headers = 0
    BY <2>1, <1>7 DEF InFirstLine, HeadersSofar
  <2>5. r.state \in InHeader => r.headers > 0
    <3>1. p.state \in InHeader => p.headers > 0
      BY DEF HeadersSofar
    <3>2. QED
      BY <2>2, <3>1, <1>7
  <2>6. r.state = "header_line_start" => (r.headers > 0 <=> k + 1 \in more)
    <3>1. p.state = "expecting_newline_1" => p.headers = 0
      BY DEF HeadersSofar, InFirstLine
    <3>2. p.state = "expecting_newline_2" => p.headers > 0
      BY DEF HeadersSofar, InHeader
    <3>3. r.state = "header_line_start" => c \in {"\n"}
      <4>1. r.state = "header_line_start" <=> Goes(p, c, "header_line_start")
        BY <1>6 DEF Sources
      <4>2. QED
        BY <4>1, Arrivals
    <3>4. QED
      BY <2>3, <3>1, <3>2, <3>3, <1>7, <1>31
  <2>7. QED
    BY <2>4, <2>5, <2>6 DEF HeadersSofar
<1>35. QED
  BY <1>33, <1>34

\* So it is all along a run that begins a request.
LEMMA ReadsAll ==
    ASSUME NEW t \in Seq(Chars), NEW starts, NEW more, LinesBegin(t, starts, more),
           NEW q, Runs(q, Start, t)
    PROVE  \A k \in 0..Len(t) : ReadSofar(q[k], t, k, starts, more)
<1> DEFINE Good(k) == ReadSofar(q[k], t, k, starts, more) /\ HeadersSofar(q[k], k, more)
           S == {k \in Nat : k <= Len(t) => Good(k)}
<1>1. 0 \in S
  <2>1. q[0].state = "method_start" /\ q[0].headers = 0
    BY DEF Runs, Start
  <2>2. /\ \A from, chars : 0 \notin One(t, from, chars)
        /\ \A from, first, on : 0 \notin Loop(t, from, first, on)
    BY DEF One, Loop
  <2>3. /\ 0 \notin AtMethod(t) /\ 0 \notin AtUri(t) /\ 0 \notin AtVersion(t)
        /\ 0 \notin AtT1(t) /\ 0 \notin AtT2(t) /\ 0 \notin AtP(t) /\ 0 \notin AtSlash(t)
        /\ 0 \notin AtMajorStart(t) /\ 0 \notin AtMajor(t) /\ 0 \notin AtMinorStart(t)
        /\ 0 \notin AtMinor(t) /\ 0 \notin AtNewline1(t)
    BY <2>2, Zenon DEF AtMethod, AtUri, AtVersion, AtT1, AtT2, AtP, AtSlash, AtMajorStart, AtMajor,
                AtMinorStart, AtMinor, AtNewline1
  <2>4. /\ 0 \notin starts /\ 0 \notin AtBlanks(t, more) /\ 0 \notin AtName(t, starts)
        /\ 0 \notin AtSpace(t, starts) /\ 0 \notin AtValue(t, starts, more)
        /\ 0 \notin AtNewline2(t, starts, more)
    BY <2>2, Zenon
        DEF LinesBegin, FirstLine, NextLine, AtBlanks, AtName, AtSpace, AtValue, AtNewline2
  <2>5. ReadSofar(q[0], t, 0, starts, more)
    BY <2>1, <2>3, <2>4 DEF ReadSofar
  <2>6. HeadersSofar(q[0], 0, more)
    BY <2>1 DEF HeadersSofar, InHeader
  <2>7. QED
    BY <2>5, <2>6
<1>2. ASSUME NEW k \in S PROVE k + 1 \in S
  <2>1. k \in Nat /\ (k <= Len(t) => Good(k))
    OBVIOUS
  <2> HIDE DEF Good
  <2> SUFFICES ASSUME k + 1 <= Len(t) PROVE Good(k + 1)
    BY <2>1
  <2>2. Len(t) \in Nat
    OBVIOUS
  <2>3. k \in 0..Len(t) - 1 /\ k \in 0..Len(t) /\ Good(k)
    BY <2>1, <2>2
  <2>4. q[k] \in Parsers /\ q[k + 1] = Took(q[k], t[k + 1])
    BY <2>3 DEF Runs
  <2>5. ReadSofar(q[k], t, k, starts, more) /\ HeadersSofar(q[k], k, more)
    BY <2>3 DEF Good
  <2>6. QED
    BY <2>3, <2>4, <2>5, ReadsOn DEF Good
<1> HIDE DEF S
<1>3. S = Nat
  <2>1. S \subseteq Nat
    BY DEF S
  <2>2. QED
    BY <2>1, <1>1, <1>2, SetInduction
<1>4. QED
  BY <1>3 DEF S

-----------------------------------------------------------------------------
(* Parts of a text.                                                        *)
\* A part of a text: how long it is, and what stands where.
LEMMA PartOf ==
    ASSUME NEW S, NEW t \in Seq(S), NEW a \in Nat \ {0}, NEW b \in Nat, b <= Len(t), a <= b + 1
    PROVE  /\ SubSeq(t, a, b) \in Seq(S) /\ Len(SubSeq(t, a, b)) = b + 1 - a
           /\ DOMAIN SubSeq(t, a, b) = 1..b + 1 - a
           /\ \A i \in 1..b + 1 - a : SubSeq(t, a, b)[i] = t[a + i - 1]
           /\ \A m \in a..b : SubSeq(t, a, b)[m + 1 - a] = t[m]
<1>1. /\ SubSeq(t, a, b) \in Seq(S) /\ Len(SubSeq(t, a, b)) = b + 1 - a
      /\ DOMAIN SubSeq(t, a, b) = 1..b + 1 - a
  OBVIOUS
<1>2. \A i \in 1..b + 1 - a : SubSeq(t, a, b)[i] = t[a + i - 1]
  OBVIOUS
<1>3. \A m \in a..b : m + 1 - a \in 1..b + 1 - a /\ a + (m + 1 - a) - 1 = m
  OBVIOUS
<1>4. \A m \in a..b : SubSeq(t, a, b)[m + 1 - a] = t[m]
  BY <1>2, <1>3
<1>5. QED
  BY <1>1, <1>2, <1>4

\* A part of a part is a part.
LEMMA PartOfPart ==
    ASSUME NEW S, NEW t \in Seq(S), NEW a \in Nat \ {0}, NEW b \in Nat, b <= Len(t), a <= b + 1,
           NEW c \in Nat \ {0}, NEW d \in Nat, d <= b + 1 - a, c <= d + 1
    PROVE  SubSeq(SubSeq(t, a, b), c, d) = SubSeq(t, a + c - 1, a + d - 1)
  OBVIOUS

\* What all characters of a part are, told where they stand in the text.
LEMMA AllOfPart ==
    ASSUME NEW S, NEW t \in Seq(S), NEW a \in Nat \ {0}, NEW b \in Nat, b <= Len(t), a <= b + 1,
           NEW chars
    PROVE  /\ All(SubSeq(t, a, b), chars) <=> \A m \in a..b : t[m] \in chars
           /\ Some(SubSeq(t, a, b), chars) <=> a <= b /\ \A m \in a..b : t[m] \in chars
<1> DEFINE s == SubSeq(t, a, b)
<1>1. /\ s \in Seq(S) /\ Len(s) = b + 1 - a /\ DOMAIN s = 1..b + 1 - a
      /\ \A i \in 1..b + 1 - a : s[i] = t[a + i - 1]
      /\ \A m \in a..b : s[m + 1 - a] = t[m]
  BY PartOf
<1> HIDE DEF s
<1>2. ASSUME All(s, chars), NEW m \in a..b PROVE t[m] \in chars
  <2>1. m + 1 - a \in 1..b + 1 - a
    OBVIOUS
  <2>2. s[m + 1 - a] \in chars
    BY <1>1, <1>2, <2>1 DEF All
  <2>3. QED
    BY <1>1, <2>2
<1>3. ASSUME \A m \in a..b : t[m] \in chars, NEW i \in 1..b + 1 - a PROVE s[i] \in chars
  <2>1. a + i - 1 \in a..b
    OBVIOUS
  <2>2. QED
    BY <1>1, <1>3, <2>1
<1>4. All(s, chars) <=> \A m \in a..b : t[m] \in chars
  BY <1>1, <1>2, <1>3 DEF All
<1>5. s # << >> <=> a <= b
  BY <1>1
<1>6. QED
  BY <1>4, <1>5 DEF Some, s
-----------------------------------------------------------------------------
(* The request line.                                                       *)

\* The blanks, the dot and the end of a request line.
LineParts(t, a, b, d, k) ==
    /\ 2 <= a /\ a < b /\ b + 7 <= d /\ d + 3 <= k /\ k <= Len(t)
    /\ \A m \in 1..a - 1 : t[m] \in Token
    /\ t[a] = " "
    /\ \A m \in a + 1..b - 1 : t[m] \in Printed \ {" "}
    /\ t[b] = " " /\ t[b + 1] = "H" /\ t[b + 2] = "T" /\ t[b + 3] = "T" /\ t[b + 4] = "P"
    /\ t[b + 5] = "/"
    /\ \A m \in b + 6..d - 1 : t[m] \in Digit
    /\ t[d] = "."
    /\ \A m \in d + 1..k - 2 : t[m] \in Digit
    /\ t[k - 1] = "\r" /\ t[k] = "\n"

\* Where a loop is, told without the loop.
LEMMA LoopOfOne ==
    ASSUME NEW t, Len(t) \in Nat, NEW from \in SUBSET Nat, NEW chars, NEW k \in Nat
    PROVE  k \in Loop(t, from, chars, chars) <=>
             k <= Len(t) /\ \E j \in from : j < k /\ \A m \in j + 1..k : t[m] \in chars
<1>1. ASSUME NEW j \in Nat, j < k
      PROVE  (t[j + 1] \in chars /\ \A m \in j + 2..k : t[m] \in chars)
             <=> \A m \in j + 1..k : t[m] \in chars
  <2>1. j + 1 \in j + 1..k /\ \A m \in j + 1..k : m = j + 1 \/ m \in j + 2..k
    BY <1>1
  <2>2. \A m \in j + 2..k : m \in j + 1..k
    OBVIOUS
  <2>3. QED
    BY <2>1, <2>2
<1>2. QED
  BY <1>1 DEF Loop

\* The parser has read the first line where the text has these parts.
LEMMA FirstLineHasParts ==
    ASSUME NEW t \in Seq(Chars), NEW k \in Nat
    PROVE  k \in FirstLine(t) <=> \E a, b, d \in Nat : LineParts(t, a, b, d, k)
<1>0. Len(t) \in Nat
  OBVIOUS
<1>1. \A from, chars : \A i : i \in One(t, from, chars) <=>
          i \in 1..Len(t) /\ i - 1 \in from /\ t[i] \in chars
  BY DEF One
<1>2. ASSUME k \in FirstLine(t) PROVE \E a, b, d \in Nat : LineParts(t, a, b, d, k)
  <2>1. k \in 1..Len(t) /\ t[k] = "\n" /\ k - 1 \in AtNewline1(t)
    BY <1>1, <1>2 DEF FirstLine
  <2>2. k - 1 \in 1..Len(t) /\ t[k - 1] = "\r" /\ (k - 1) - 1 \in AtMinor(t)
    BY <1>1, <2>1 DEF AtNewline1
  <2> DEFINE v == (k - 1) - 1
  <2>3. AtMinorStart(t) \in SUBSET Nat /\ AtMajorStart(t) \in SUBSET Nat
    BY DEF AtMinorStart, AtMajorStart, One
  <2>4. v \in Nat
    BY <2>2 DEF AtMinor, Loop
  <2>5. PICK d \in AtMinorStart(t) : d < v /\ \A m \in d + 1..v : t[m] \in Digit
    <3> HIDE DEF v
    <3>1. v \in Loop(t, AtMinorStart(t), Digit, Digit)
      BY <2>2 DEF AtMinor, v
    <3>2. QED
      BY <3>1, <1>0, <2>3, <2>4, LoopOfOne
  <2>6. d \in 1..Len(t) /\ t[d] = "." /\ d - 1 \in AtMajor(t)
    BY <1>1 DEF AtMinorStart
  <2>7. d - 1 \in Nat
    BY <2>6
  <2>8. PICK e \in AtMajorStart(t) : e < d - 1 /\ \A m \in e + 1..d - 1 : t[m] \in Digit
    <3>1. d - 1 \in Loop(t, AtMajorStart(t), Digit, Digit)
      BY <2>6 DEF AtMajor
    <3>2. QED
      BY <3>1, <1>0, <2>3, <2>7, LoopOfOne
  <2>9. e \in 1..Len(t) /\ t[e] = "/" /\ e - 1 \in AtSlash(t)
    BY <1>1 DEF AtMajorStart
  <2>10. e - 1 \in 1..Len(t) /\ t[e - 1] = "P" /\ (e - 1) - 1 \in AtP(t)
    BY <1>1, <2>9 DEF AtSlash
  <2>11. e - 2 \in 1..Len(t) /\ t[e - 2] = "T" /\ (e - 2) - 1 \in AtT2(t)
    <3>1. (e - 1) - 1 = e - 2
      BY <2>9
    <3>2. QED
      BY <1>1, <2>10, <3>1 DEF AtP
  <2>12. e - 3 \in 1..Len(t) /\ t[e - 3] = "T" /\ (e - 3) - 1 \in AtT1(t)
    <3>1. (e - 2) - 1 = e - 3
      BY <2>9
    <3>2. QED
      BY <1>1, <2>11, <3>1 DEF AtT2
  <2>13. e - 4 \in 1..Len(t) /\ t[e - 4] = "H" /\ (e - 4) - 1 \in AtVersion(t)
    <3>1. (e - 3) - 1 = e - 4
      BY <2>9
    <3>2. QED
      BY <1>1, <2>12, <3>1 DEF AtT1
  <2>14. e - 5 \in 1..Len(t) /\ t[e - 5] = " " /\ (e - 5) - 1 \in AtUri(t)
    <3>1. (e - 4) - 1 = e - 5 /\ (e - 4) - 1 \in AtVersion(t)
      BY <2>9, <2>13
    <3>2. e - 5 \in One(t, AtUri(t), {" "})
      BY <3>1 DEF AtVersion
    <3>3. QED
      BY <3>2 DEF One
  <2> DEFINE b == e - 5
  <2>15. PICK c \in AtMethod(t) : /\ c < b - 1 /\ t[c + 1] = " "
                                  /\ \A m \in c + 2..b - 1 : t[m] \in Printed \ {" "}
    BY <2>14 DEF AtUri, Loop
  <2>16. c \in 1..Len(t) /\ \A m \in 1..c : t[m] \in Token
    <3>1. c \in Loop(t, {0}, Token, Token) /\ c \in 1..Len(t) /\ {0} \in SUBSET Nat
      BY DEF AtMethod, Loop
    <3>2. \E j \in {0} : j < c /\ \A m \in j + 1..c : t[m] \in Token
      BY <3>1, <1>0, LoopOfOne
    <3>3. QED
      BY <3>1, <3>2
  <2>17. /\ c + 1 \in Nat /\ b \in Nat /\ d \in Nat /\ b + 5 = e
         /\ e \in Nat /\ c \in Nat /\ v \in Nat /\ v = k - 2
    <3>1. c \in Nat /\ d \in Nat /\ e \in Nat /\ e - 5 \in Nat
      <4>1. c \in Nat /\ d \in Nat /\ e \in Nat
        BY <2>6, <2>9, <2>16
      <4>2. e - 5 \in 1..Len(t)
        BY <2>14
      <4>3. QED
        BY <4>1, <4>2, <1>0
    <3>2. QED
      BY <3>1, <2>4
  <2>18. e < d - 1 /\ d < v /\ c < b - 1 /\ 1 <= c /\ k <= Len(t)
    <3>1. 1 <= c /\ k <= Len(t)
      BY <2>1, <2>16, <1>0
    <3>2. e < d - 1 /\ d < v /\ c < b - 1
      BY <2>5, <2>8, <2>15, Zenon
    <3>3. QED
      BY <3>1, <3>2
  <2>19. t[b] = " " /\ t[c + 1] = " " /\ \A m \in c + 2..b - 1 : t[m] \in Printed \ {" "}
    BY <2>14, <2>15
  <2> HIDE DEF b, v
  <2>20. /\ 2 <= c + 1 /\ c + 1 < b /\ b + 7 <= d /\ d + 3 <= k /\ k <= Len(t)
         /\ (c + 1) - 1 = c /\ (c + 1) + 1 = c + 2 /\ b + 6 = e + 1
         /\ b + 5 = e /\ b + 4 = e - 1 /\ b + 3 = e - 2 /\ b + 2 = e - 3 /\ b + 1 = e - 4
    <3>1. k \in Nat /\ Len(t) \in Nat
      OBVIOUS
    <3>2. QED
      BY <3>1, <2>17, <2>18
  <2>21. t[b + 1] = "H" /\ t[b + 2] = "T" /\ t[b + 3] = "T" /\ t[b + 4] = "P" /\ t[b + 5] = "/"
    BY <2>20, <2>9, <2>10, <2>11, <2>12, <2>13
  <2>22. /\ \A m \in b + 6..d - 1 : t[m] \in Digit
         /\ \A m \in d + 1..k - 2 : t[m] \in Digit
         /\ \A m \in 1..(c + 1) - 1 : t[m] \in Token
         /\ \A m \in (c + 1) + 1..b - 1 : t[m] \in Printed \ {" "}
    BY <2>20, <2>17, <2>5, <2>8, <2>16, <2>19
  <2>23. LineParts(t, c + 1, b, d, k)
    <3>1. t[c + 1] = " " /\ t[b] = " " /\ t[d] = "." /\ t[k - 1] = "\r" /\ t[k] = "\n"
      BY <2>1, <2>2, <2>6, <2>19
    <3>2. QED
      BY <3>1, <2>20, <2>21, <2>22, Zenon DEF LineParts
  <2>24. QED
    BY <2>17, <2>23
<1>3. ASSUME NEW a \in Nat, NEW b \in Nat, NEW d \in Nat, LineParts(t, a, b, d, k)
      PROVE  k \in FirstLine(t)
  <2>1. /\ 2 <= a /\ a < b /\ b + 7 <= d /\ d + 3 <= k /\ k <= Len(t)
        /\ k \in Nat /\ Len(t) \in Nat
    BY <1>3, <1>0 DEF LineParts
  <2>2. /\ t[a] \in {" "} /\ t[b] \in {" "} /\ t[b + 1] \in {"H"} /\ t[b + 2] \in {"T"}
        /\ t[b + 3] \in {"T"} /\ t[b + 4] \in {"P"} /\ t[b + 5] \in {"/"} /\ t[d] \in {"."}
        /\ t[k - 1] \in {"\r"} /\ t[k] \in {"\n"}
    <3>1. /\ t[a] = " " /\ t[b] = " " /\ t[b + 1] = "H" /\ t[b + 2] = "T"
          /\ t[b + 3] = "T" /\ t[b + 4] = "P" /\ t[b + 5] = "/" /\ t[d] = "."
          /\ t[k - 1] = "\r" /\ t[k] = "\n"
      BY <1>3, Zenon DEF LineParts
    <3>2. QED
      BY <3>1, Zenon
  <2>3. /\ \A m \in 1..a - 1 : t[m] \in Token
        /\ \A m \in a + 1..b - 1 : t[m] \in Printed \ {" "}
        /\ \A m \in b + 6..d - 1 : t[m] \in Digit
        /\ \A m \in d + 1..k - 2 : t[m] \in Digit
    BY <1>3, Zenon DEF LineParts
  <2>4. a - 1 \in AtMethod(t)
    <3>1. a - 1 \in Nat /\ a - 1 <= Len(t) /\ 0 < a - 1 /\ {0} \in SUBSET Nat /\ 0 + 1 = 1
      BY <2>1
    <3>2. \E j \in {0} : j < a - 1 /\ \A m \in j + 1..a - 1 : t[m] \in Token
      BY <3>1, <2>3
    <3>3. QED
      BY <3>1, <3>2, <1>0, LoopOfOne DEF AtMethod
  <2>5. b - 1 \in AtUri(t)
    <3>1. b - 1 \in 1..Len(t) /\ a - 1 < b - 1 /\ (a - 1) + 1 = a /\ (a - 1) + 2 = a + 1
      BY <2>1
    <3>2. t[(a - 1) + 1] \in {" "} /\ \A m \in (a - 1) + 2..b - 1 : t[m] \in Printed \ {" "}
      BY <3>1, <2>2, <2>3
    <3>3. QED
      BY <2>4, <3>1, <3>2 DEF AtUri, Loop
  <2>6. /\ b \in 1..Len(t) /\ b + 1 \in 1..Len(t) /\ b + 2 \in 1..Len(t) /\ b + 3 \in 1..Len(t)
        /\ b + 4 \in 1..Len(t) /\ b + 5 \in 1..Len(t) /\ d \in 1..Len(t)
        /\ k - 1 \in 1..Len(t) /\ k \in 1..Len(t)
        /\ (b + 1) - 1 = b /\ (b + 2) - 1 = b + 1 /\ (b + 3) - 1 = b + 2
        /\ (b + 4) - 1 = b + 3 /\ (b + 5) - 1 = b + 4 /\ (k - 1) - 1 = k - 2
    BY <2>1
  <2>7. b \in AtVersion(t)
    BY <1>1, <2>2, <2>5, <2>6 DEF AtVersion
  <2>8. b + 1 \in AtT1(t)
    <3>1. b + 1 \in 1..Len(t) /\ (b + 1) - 1 \in AtVersion(t) /\ t[b + 1] \in {"H"}
      BY <2>2, <2>6, <2>7
    <3>2. QED
      BY <3>1 DEF AtT1, One
  <2>9. b + 2 \in AtT2(t)
    BY <1>1, <2>2, <2>6, <2>8 DEF AtT2
  <2>10. b + 3 \in AtP(t)
    BY <1>1, <2>2, <2>6, <2>9 DEF AtP
  <2>11. b + 4 \in AtSlash(t)
    BY <1>1, <2>2, <2>6, <2>10 DEF AtSlash
  <2>12. b + 5 \in AtMajorStart(t)
    BY <1>1, <2>2, <2>6, <2>11 DEF AtMajorStart
  <2>13. AtMinorStart(t) \in SUBSET Nat /\ AtMajorStart(t) \in SUBSET Nat
    BY DEF AtMinorStart, AtMajorStart, One
  <2>14. d - 1 \in AtMajor(t)
    <3>1. d - 1 \in Nat /\ d - 1 <= Len(t) /\ b + 5 < d - 1 /\ (b + 5) + 1 = b + 6
      BY <2>1
    <3>2. \A m \in (b + 5) + 1..d - 1 : t[m] \in Digit
      BY <2>3, <3>1
    <3>3. QED
      BY <3>1, <3>2, <2>12, <2>13, <1>0, LoopOfOne DEF AtMajor
  <2>15. d \in AtMinorStart(t)
    BY <1>1, <2>2, <2>6, <2>14 DEF AtMinorStart
  <2>16. k - 2 \in AtMinor(t)
    <3>1. k - 2 \in Nat /\ k - 2 <= Len(t) /\ d < k - 2
      BY <2>1
    <3>2. QED
      BY <3>1, <2>3, <2>15, <2>13, <1>0, LoopOfOne DEF AtMinor
  <2>17. k - 1 \in AtNewline1(t)
    BY <1>1, <2>2, <2>6, <2>16 DEF AtNewline1
  <2>18. QED
    BY <1>1, <2>2, <2>6, <2>17 DEF FirstLine
<1>4. QED
  BY <1>2, <1>3

-----------------------------------------------------------------------------
\* A version, told where it is in a text.
LEMMA VersionOfPart ==
    ASSUME NEW t \in Seq(Chars), NEW b \in Nat, NEW n \in Nat, b <= n, n <= Len(t)
    PROVE  Version(SubSeq(t, b + 1, n)) <=>
             \E d \in Nat :
                /\ b + 7 <= d /\ d + 1 <= n
                /\ t[b + 1] = "H" /\ t[b + 2] = "T" /\ t[b + 3] = "T" /\ t[b + 4] = "P"
                /\ t[b + 5] = "/"
                /\ \A m \in b + 6..d - 1 : t[m] \in Digit
                /\ t[d] = "."
                /\ \A m \in d + 1..n : t[m] \in Digit
<1> DEFINE v == SubSeq(t, b + 1, n)
<1>0. Len(t) \in Nat
  OBVIOUS
<1>1. /\ v \in Seq(Chars) /\ Len(v) = n - b
      /\ \A i \in 1..n - b : v[i] = t[b + i]
  OBVIOUS
<1>2. \A x, y \in Nat : 1 <= x /\ x <= y + 1 /\ y <= n - b =>
         SubSeq(v, x, y) = SubSeq(t, b + x, b + y)
  <2> TAKE x, y \in Nat
  <2> HAVE 1 <= x /\ x <= y + 1 /\ y <= n - b
  <2>1. SubSeq(v, x, y) = SubSeq(t, (b + 1) + x - 1, (b + 1) + y - 1)
    <3>1. b + 1 \in Nat \ {0} /\ b + 1 <= n + 1 /\ x \in Nat \ {0} /\ y <= n + 1 - (b + 1)
      OBVIOUS
    <3>2. QED
      BY <3>1, PartOfPart
  <2>2. (b + 1) + x - 1 = b + x /\ (b + 1) + y - 1 = b + y
    OBVIOUS
  <2>3. QED
    BY <2>1, <2>2
<1> HIDE DEF v
<1>3. \A x, y \in Nat : 1 <= x /\ x <= y /\ y <= n - b =>
         (Some(SubSeq(v, x, y), Digit) <=> \A m \in b + x..b + y : t[m] \in Digit)
  <2> TAKE x, y \in Nat
  <2> HAVE 1 <= x /\ x <= y /\ y <= n - b
  <2>1. /\ b + x \in Nat \ {0} /\ b + y \in Nat /\ b + y <= Len(t)
        /\ b + x <= b + y /\ b + x <= b + y + 1
    BY <1>0
  <2>2. Some(SubSeq(t, b + x, b + y), Digit) <=> \A m \in b + x..b + y : t[m] \in Digit
    BY <2>1, AllOfPart
  <2>3. SubSeq(v, x, y) = SubSeq(t, b + x, b + y)
    <3>1. x <= y + 1
      OBVIOUS
    <3>2. QED
      BY <1>2, <3>1
  <2>4. QED
    BY <2>2, <2>3
<1>4. 8 <= n - b =>
        (SubSeq(v, 1, 5) = <<"H", "T", "T", "P", "/">> <=>
           /\ t[b + 1] = "H" /\ t[b + 2] = "T" /\ t[b + 3] = "T" /\ t[b + 4] = "P"
           /\ t[b + 5] = "/")
  <2> HAVE 8 <= n - b
  <2> DEFINE w == SubSeq(v, 1, 5)
  <2>1. /\ w \in Seq(Chars) /\ Len(w) = 5
        /\ w[1] = v[1] /\ w[2] = v[2] /\ w[3] = v[3] /\ w[4] = v[4] /\ w[5] = v[5]
    BY <1>1
  <2> HIDE DEF w
  <2>2. /\ w[1] = t[b + 1] /\ w[2] = t[b + 2] /\ w[3] = t[b + 3] /\ w[4] = t[b + 4]
        /\ w[5] = t[b + 5]
    <3>1. 1 \in 1..n - b /\ 2 \in 1..n - b /\ 3 \in 1..n - b /\ 4 \in 1..n - b /\ 5 \in 1..n - b
      OBVIOUS
    <3>2. /\ v[1] = t[b + 1] /\ v[2] = t[b + 2] /\ v[3] = t[b + 3] /\ v[4] = t[b + 4]
          /\ v[5] = t[b + 5]
      BY <1>1, <3>1
    <3>3. QED
      BY <2>1, <3>2
  <2>3. w = <<w[1], w[2], w[3], w[4], w[5]>>
    BY <2>1
  <2>4. w = <<"H", "T", "T", "P", "/">> <=>
          w[1] = "H" /\ w[2] = "T" /\ w[3] = "T" /\ w[4] = "P" /\ w[5] = "/"
    BY <2>3
  <2>5. QED
    BY <2>2, <2>4 DEF w
<1> DEFINE Http == /\ t[b + 1] = "H" /\ t[b + 2] = "T" /\ t[b + 3] = "T" /\ t[b + 4] = "P"
                   /\ t[b + 5] = "/"
           InDigits(x, y) == \A m \in x..y : t[m] \in Digit
<1>5. ASSUME NEW i \in 7..Len(v) - 1
      PROVE  /\ SubSeq(v, 1, 5) = <<"H", "T", "T", "P", "/">> <=> Http
             /\ Some(SubSeq(v, 6, i - 1), Digit) <=> InDigits(b + 6, b + i - 1)
             /\ v[i] = t[b + i]
             /\ Some(SubSeq(v, i + 1, Len(v)), Digit) <=> InDigits(b + i + 1, n)
  <2>1. /\ i \in Nat /\ 7 <= i /\ i + 1 <= n - b /\ 8 <= n - b /\ i - 1 \in Nat /\ n - b \in Nat
        /\ i + 1 \in Nat /\ 6 <= i - 1 /\ i - 1 <= n - b /\ b + (i - 1) = b + i - 1
        /\ b + (i + 1) = b + i + 1 /\ b + (n - b) = n /\ i \in 1..n - b
    BY <1>1
  <2>2. SubSeq(v, 1, 5) = <<"H", "T", "T", "P", "/">> <=> Http
    BY <1>4, <2>1
  <2>3. Some(SubSeq(v, 6, i - 1), Digit) <=> \A m \in b + 6..b + (i - 1) : t[m] \in Digit
    <3>1. 6 \in Nat /\ 1 <= 6
      OBVIOUS
    <3>2. QED
      BY <1>3, <2>1, <3>1, Zenon
  <2>4. Some(SubSeq(v, i + 1, n - b), Digit) <=> \A m \in b + (i + 1)..b + (n - b) : t[m] \in Digit
    <3>1. 1 <= i + 1
      BY <2>1
    <3>2. n - b <= n - b
      BY <2>1
    <3>3. QED
      BY <1>3, <2>1, <3>1, <3>2, Zenon
  <2>5. QED
    BY <2>1, <2>2, <2>3, <2>4, <1>1
<1>6. ASSUME Version(v)
      PROVE  \E d \in Nat : /\ b + 7 <= d /\ d + 1 <= n
                            /\ Http /\ InDigits(b + 6, d - 1) /\ t[d] = "." /\ InDigits(d + 1, n)
  <2>1. PICK i \in 7..Len(v) - 1 : 
           /\ SubSeq(v, 1, 5) = <<"H", "T", "T", "P", "/">>
           /\ Some(SubSeq(v, 6, i - 1), Digit) /\ v[i] = "."
           /\ Some(SubSeq(v, i + 1, Len(v)), Digit)
    BY <1>6 DEF Version
  <2>2. Http /\ InDigits(b + 6, b + i - 1) /\ t[b + i] = "." /\ InDigits(b + i + 1, n)
    BY <1>5, <2>1
  <2>3. b + i \in Nat /\ b + 7 <= b + i /\ (b + i) + 1 <= n
    BY <1>1
  <2> HIDE DEF Http, InDigits
  <2>4. QED
    BY <2>2, <2>3
<1>7. ASSUME NEW d \in Nat, b + 7 <= d, d + 1 <= n,
             Http, InDigits(b + 6, d - 1), t[d] = ".", InDigits(d + 1, n)
      PROVE  Version(v)
  <2> DEFINE i == d - b
  <2>1. i \in 7..Len(v) - 1 /\ b + i = d /\ b + i - 1 = d - 1 /\ b + i + 1 = d + 1
    BY <1>1, <1>7
  <2> HIDE DEF i
  <2>2. /\ SubSeq(v, 1, 5) = <<"H", "T", "T", "P", "/">>
        /\ Some(SubSeq(v, 6, i - 1), Digit) /\ v[i] = "."
        /\ Some(SubSeq(v, i + 1, Len(v)), Digit)
    <3> HIDE DEF Http, InDigits
    <3>1. QED
      BY <1>5, <1>7, <2>1
  <2>3. QED
    BY <2>1, <2>2, Zenon DEF Version
<1>8. QED
  BY <1>6, <1>7 DEF v

\* The text before the end of a line is a request line when it has these parts.
LEMMA RequestLineHasParts ==
    ASSUME NEW t \in Seq(Chars), NEW k \in 2..Len(t), t[k - 1] = "\r", t[k] = "\n"
    PROVE  RequestLineText(SubSeq(t, 1, k - 2)) <=> \E a, b, d \in Nat : LineParts(t, a, b, d, k)
<1> DEFINE n == k - 2
           s == SubSeq(t, 1, n)
<1>0. Len(t) \in Nat /\ n \in Nat /\ k \in Nat /\ n <= Len(t) /\ n + 2 = k
  OBVIOUS
<1>1. /\ s \in Seq(Chars) /\ Len(s) = n /\ DOMAIN s = 1..n
      /\ \A i \in 1..n : s[i] = t[i]
  <2> HIDE DEF n
  <2>1. QED
    BY <1>0
<1> HIDE DEF n
<1>2. \A x, y \in Nat : 1 <= x /\ x <= y + 1 /\ y <= n =>
         SubSeq(s, x, y) = SubSeq(t, x, y)
  BY <1>0
<1> HIDE DEF s
<1> DEFINE Middle(i, j) == /\ 2 <= i /\ i < j /\ t[i] = " " /\ t[j] = " " 
                           /\ \A m \in 1..i - 1 : t[m] \in Token
                           /\ \A m \in i + 1..j - 1 : t[m] \in Printed \ {" "}
<1>3. ASSUME NEW i \in 1..n, NEW j \in 1..n
      PROVE  Middle(i, j) <=>
               /\ i < j /\ s[i] = " " /\ s[j] = " "
               /\ Some(SubSeq(s, 1, i - 1), Token)
               /\ All(SubSeq(s, i + 1, j - 1), Printed \ {" "})
  <2>1. i - 1 \in Nat /\ 1 <= (i - 1) + 1 /\ i - 1 <= n /\ i - 1 <= Len(t) /\ i \in Nat /\ j \in Nat
        /\ 1 \in Nat \ {0} /\ 1 <= 1
    BY <1>0
  <2>2. Some(SubSeq(t, 1, i - 1), Token) <=> 1 <= i - 1 /\ \A m \in 1..i - 1 : t[m] \in Token
    BY <2>1, AllOfPart
  <2>3. SubSeq(s, 1, i - 1) = SubSeq(t, 1, i - 1)
    BY <2>1, <1>2
  <2>4. i < j => (All(SubSeq(s, i + 1, j - 1), Printed \ {" "}) <=>
                  \A m \in i + 1..j - 1 : t[m] \in Printed \ {" "})
    <3> HAVE i < j
    <3>1. /\ i + 1 \in Nat \ {0} /\ j - 1 \in Nat /\ j - 1 <= Len(t)
          /\ i + 1 <= (j - 1) + 1 /\ j - 1 <= n
          /\ 1 <= i + 1 /\ i + 1 \in Nat
      BY <1>0
    <3>2. SubSeq(s, i + 1, j - 1) = SubSeq(t, i + 1, j - 1)
      BY <3>1, <1>2
    <3>3. All(SubSeq(t, i + 1, j - 1), Printed \ {" "}) <=>
            \A m \in i + 1..j - 1 : t[m] \in Printed \ {" "}
      <4>1. \A chars : All(SubSeq(t, i + 1, j - 1), chars) <=>
                       \A m \in i + 1..j - 1 : t[m] \in chars
        BY <3>1, AllOfPart
      <4>2. QED
        BY <4>1, Zenon
    <3>4. QED
      BY <3>2, <3>3
  <2>5. (1 <= i - 1) <=> (2 <= i)
    OBVIOUS
  <2>6. s[i] = t[i] /\ s[j] = t[j]
    BY <1>1
  <2>7. QED
    BY <2>2, <2>3, <2>4, <2>5, <2>6
<1> DEFINE Spelt(b, d) == 
                /\ b + 7 <= d /\ d + 1 <= n
                /\ t[b + 1] = "H" /\ t[b + 2] = "T" /\ t[b + 3] = "T" /\ t[b + 4] = "P"
                /\ t[b + 5] = "/"
                /\ \A m \in b + 6..d - 1 : t[m] \in Digit
                /\ t[d] = "."
                /\ \A m \in d + 1..n : t[m] \in Digit
<1>4. ASSUME NEW j \in 1..n
      PROVE  Version(SubSeq(s, j + 1, Len(s))) <=> \E d \in Nat : Spelt(j, d)
  <2>1. j \in Nat /\ j <= n /\ j + 1 \in Nat /\ 1 <= j + 1 /\ j + 1 <= n + 1 /\ n <= n
    BY <1>0
  <2>2. SubSeq(s, j + 1, Len(s)) = SubSeq(t, j + 1, n)
    BY <2>1, <1>0, <1>1, <1>2
  <2>3. Version(SubSeq(t, j + 1, n)) <=> \E d \in Nat : Spelt(j, d)
    BY <2>1, <1>0, VersionOfPart
  <2>4. QED
    BY <2>2, <2>3
<1>5. ASSUME NEW a \in Nat, NEW b \in Nat, NEW d \in Nat
      PROVE  LineParts(t, a, b, d, k) <=> Middle(a, b) /\ Spelt(b, d)
  <2>1. (d + 3 <= k) <=> (d + 1 <= n)
    BY <1>0
  <2>2. k - 2 = n /\ k <= Len(t)
    BY DEF n
  <2>3. QED
    BY <2>1, <2>2 DEF LineParts
<1>6. ASSUME NEW a \in Nat, NEW b \in Nat, NEW d \in Nat, Middle(a, b), Spelt(b, d)
      PROVE  a \in 1..n /\ b \in 1..n
  <2>1. 2 <= a /\ a < b /\ b + 7 <= d /\ d + 1 <= n
    BY <1>6
  <2>2. QED
    BY <2>1, <1>0
<1> HIDE DEF Middle, Spelt
<1>7. RequestLineText(s) <=> \E i, j \in 1..n : Middle(i, j) /\ \E d \in Nat : Spelt(j, d)
  BY <1>1, <1>3, <1>4 DEF RequestLineText
<1>8. (\E i, j \in 1..n : Middle(i, j) /\ \E d \in Nat : Spelt(j, d))
      <=> \E a, b, d \in Nat : LineParts(t, a, b, d, k)
  <2>1. 1..n \subseteq Nat
    OBVIOUS
  <2>2. QED
    BY <1>5, <1>6, <2>1
<1>9. QED
  BY <1>7, <1>8 DEF s, n

-----------------------------------------------------------------------------
(* Headers, and the lines that continue them.                              *)

\* A header that begins behind j, with its colon at i, and the k first characters read.
HeaderParts(t, j, i, k) ==
    /\ j + 2 <= i /\ i + 1 <= k /\ k <= Len(t)
    /\ \A m \in j + 1..i - 1 : t[m] \in Token
    /\ t[i] = ":" /\ t[i + 1] = " "
    /\ \A m \in i + 2..k : t[m] \in Printed

\* A line that continues one: blanks up to i, and then anything printed.
ContParts(t, j, i, k) ==
    /\ j + 1 <= i /\ i <= k /\ k <= Len(t)
    /\ \A m \in j + 1..i : t[m] \in Blanks
    /\ \A m \in i + 1..k : t[m] \in Printed

\* Where a parser has read a header and some of its value...
LEMMA HeaderHasParts ==
    ASSUME NEW t \in Seq(Chars), NEW starts \in SUBSET Nat, NEW k \in Nat
    PROVE  k \in Loop(t, AtSpace(t, starts), {" "}, Printed) <=>
             \E j \in starts : \E i \in Nat : HeaderParts(t, j, i, k)
<1>0. Len(t) \in Nat
  OBVIOUS
<1>1. ASSUME k \in Loop(t, AtSpace(t, starts), {" "}, Printed)
      PROVE  \E j \in starts : \E i \in Nat : HeaderParts(t, j, i, k)
  <2>1. k <= Len(t) /\ \E i \in AtSpace(t, starts) :
           i < k /\ t[i + 1] = " " /\ \A m \in i + 2..k : t[m] \in Printed
    <3>1. k \in 1..Len(t) /\ \E i \in AtSpace(t, starts) :
             i < k /\ t[i + 1] \in {" "} /\ \A m \in i + 2..k : t[m] \in Printed
      BY <1>1, Zenon DEF Loop
    <3>2. \A x : x \in {" "} => x = " "
      OBVIOUS
    <3>3. k <= Len(t)
      <4>1. k \in 1..Len(t)
        BY <3>1
      <4>2. QED
        BY <4>1, <1>0
    <3>4. QED
      BY <3>1, <3>2, <3>3, Zenon
  <2>2. PICK i \in AtSpace(t, starts) :
           i < k /\ t[i + 1] = " " /\ \A m \in i + 2..k : t[m] \in Printed
    BY <2>1
  <2>3. i \in 1..Len(t) /\ i - 1 \in Loop(t, starts, Token, Token) /\ t[i] = ":"
    BY DEF AtSpace, AtName, One
  <2>4. i \in Nat /\ i - 1 \in Nat
    BY <2>3
  <2>5. PICK j \in starts : j < i - 1 /\ \A m \in j + 1..i - 1 : t[m] \in Token
    BY <2>3, <2>4, <1>0, LoopOfOne
  <2>6. j + 2 <= i /\ i + 1 <= k
    <3>1. j \in Nat /\ j < i - 1 /\ i < k
      BY <2>2, <2>5
    <3>2. QED
      BY <3>1, <2>4
  <2>7. HeaderParts(t, j, i, k)
    BY <2>1, <2>2, <2>3, <2>5, <2>6 DEF HeaderParts
  <2>8. QED
    BY <2>4, <2>7
<1>2. ASSUME NEW j \in starts, NEW i \in Nat, HeaderParts(t, j, i, k)
      PROVE  k \in Loop(t, AtSpace(t, starts), {" "}, Printed)
  <2>1. j \in Nat /\ j + 2 <= i /\ i + 1 <= k /\ k <= Len(t)
    BY <1>2 DEF HeaderParts
  <2>2. /\ \A m \in j + 1..i - 1 : t[m] \in Token
        /\ t[i] \in {":"} /\ t[i + 1] \in {" "}
        /\ \A m \in i + 2..k : t[m] \in Printed
    BY <1>2 DEF HeaderParts
  <2>3. i - 1 \in Nat /\ i - 1 <= Len(t) /\ j < i - 1 /\ i \in 1..Len(t) /\ k \in 1..Len(t) /\ i < k
    BY <2>1, <1>0
  <2>4. i - 1 \in AtName(t, starts)
    BY <2>2, <2>3, <1>0, LoopOfOne DEF AtName
  <2>5. i \in AtSpace(t, starts)
    BY <2>2, <2>3, <2>4 DEF AtSpace, One
  <2>6. QED
    BY <2>2, <2>3, <2>5 DEF Loop
<1>3. QED
  BY <1>1, <1>2

\* ... and where that is a header.
LEMMA HeaderTextHasParts ==
    ASSUME NEW t \in Seq(Chars), NEW j \in Nat, NEW k \in Nat, j <= k, k <= Len(t)
    PROVE  HeaderText(SubSeq(t, j + 1, k)) <=> \E i \in Nat : HeaderParts(t, j, i, k)
<1> DEFINE s == SubSeq(t, j + 1, k)
<1>0. Len(t) \in Nat
  OBVIOUS
<1>1. /\ s \in Seq(Chars) /\ Len(s) = k - j /\ DOMAIN s = 1..k - j
      /\ \A i \in 1..k - j : s[i] = t[j + i]
  OBVIOUS
<1>2. \A x, y \in Nat : 1 <= x /\ x <= y + 1 /\ y <= k - j =>
         SubSeq(s, x, y) = SubSeq(t, j + x, j + y)
  <2> TAKE x, y \in Nat
  <2> HAVE 1 <= x /\ x <= y + 1 /\ y <= k - j
  <2>1. SubSeq(s, x, y) = SubSeq(t, (j + 1) + x - 1, (j + 1) + y - 1)
    <3>1. j + 1 \in Nat \ {0} /\ j + 1 <= k + 1 /\ x \in Nat \ {0} /\ y <= k + 1 - (j + 1)
      OBVIOUS
    <3>2. QED
      BY <3>1, PartOfPart
  <2>2. (j + 1) + x - 1 = j + x /\ (j + 1) + y - 1 = j + y
    OBVIOUS
  <2>3. QED
    BY <2>1, <2>2
<1> HIDE DEF s
<1>3. ASSUME NEW x \in Nat, NEW y \in Nat, 1 <= x, x <= y + 1, y <= k - j, NEW chars
      PROVE  /\ All(SubSeq(s, x, y), chars) <=> \A m \in j + x..j + y : t[m] \in chars
             /\ Some(SubSeq(s, x, y), chars) <=> x <= y /\ \A m \in j + x..j + y : t[m] \in chars
  <2>1. /\ j + x \in Nat \ {0} /\ j + y \in Nat /\ j + y <= Len(t) /\ j + x <= (j + y) + 1
        /\ (j + x <= j + y <=> x <= y)
    BY <1>3, <1>0
  <2>2. SubSeq(s, x, y) = SubSeq(t, j + x, j + y)
    BY <1>2, <1>3
  <2>3. \A cs : /\ All(SubSeq(t, j + x, j + y), cs) <=> \A m \in j + x..j + y : t[m] \in cs
                /\ Some(SubSeq(t, j + x, j + y), cs) <=>
                     j + x <= j + y /\ \A m \in j + x..j + y : t[m] \in cs
    BY <2>1, AllOfPart
  <2>4. QED
    BY <2>1, <2>2, <2>3
<1>4. ASSUME NEW i \in 1..k - j
      PROVE  HeaderParts(t, j, j + i, k) <=>
               /\ s[i] = ":" /\ i < Len(s) /\ s[i + 1] = " "
               /\ Some(SubSeq(s, 1, i - 1), Token)
               /\ All(SubSeq(s, i + 2, Len(s)), Printed)
  <2>1. /\ i \in Nat /\ i - 1 \in Nat /\ 1 \in Nat /\ i + 2 \in Nat /\ k - j \in Nat
        /\ 1 <= (i - 1) + 1 /\ i - 1 <= k - j /\ 1 <= 1 /\ 1 <= i + 2 /\ k - j <= k - j
        /\ j + (k - j) = k /\ j + (i - 1) = (j + i) - 1 /\ j + (i + 2) = (j + i) + 2
        /\ (1 <= i - 1 <=> j + 2 <= j + i) /\ (i < k - j <=> (j + i) + 1 <= k)
        /\ (i < k - j <=> i + 2 <= (k - j) + 1) /\ j + (i + 1) = (j + i) + 1
        /\ i + 1 \in Nat /\ 1 <= i + 1 /\ (i < k - j => i + 1 \in 1..k - j)
    OBVIOUS
  <2>2. Some(SubSeq(s, 1, i - 1), Token) <=>
           j + 2 <= j + i /\ \A m \in j + 1..(j + i) - 1 : t[m] \in Token
    BY <1>3, <2>1
  <2>3. s[i] = t[j + i] /\ (i < k - j => s[i + 1] = t[(j + i) + 1])
    <3>1. i < k - j => s[i + 1] = t[j + (i + 1)]
      BY <1>1, <2>1
    <3>2. s[i] = t[j + i]
      BY <1>1
    <3>3. QED
      BY <3>1, <3>2, <2>1
  <2>4. i < k - j => (All(SubSeq(s, i + 2, k - j), Printed) <=>
                      \A m \in (j + i) + 2..k : t[m] \in Printed)
    <3>1. i < k - j => (All(SubSeq(s, i + 2, k - j), Printed) <=>
                        \A m \in j + (i + 2)..j + (k - j) : t[m] \in Printed)
      <4> HAVE i < k - j
      <4>1. i + 2 <= (k - j) + 1
        BY <2>1
      <4>2. QED
        BY <1>3, <2>1, <4>1
    <3>2. QED
      BY <2>1, <3>1
  <2>5. Len(s) = k - j
    BY <1>1
  <2>6. QED
    BY <2>1, <2>2, <2>3, <2>4, <2>5 DEF HeaderParts
<1>5. ASSUME NEW i \in Nat, HeaderParts(t, j, i, k)
      PROVE  \E e \in 1..k - j : HeaderParts(t, j, j + e, k)
  <2>1. j + 2 <= i /\ i + 1 <= k
    BY <1>5 DEF HeaderParts
  <2>2. i - j \in 1..k - j /\ j + (i - j) = i
    BY <2>1
  <2>3. QED
    BY <1>5, <2>2
<1>6. HeaderText(s) <=> \E i \in 1..k - j : HeaderParts(t, j, j + i, k)
  BY <1>1, <1>4 DEF HeaderText
<1>7. \A i \in 1..k - j : j + i \in Nat
  OBVIOUS
<1>8. QED
  BY <1>5, <1>6, <1>7 DEF s

\* Where a parser has read the blanks of a line that continues a header, and perhaps more...
LEMMA ContHasParts ==
    ASSUME NEW t \in Seq(Chars), NEW more \in SUBSET Nat, NEW k \in Nat
    PROVE  k \in AtBlanks(t, more) \cup Loop(t, AtBlanks(t, more), Printed \ {" "}, Printed) <=>
             \E j \in more : \E i \in Nat : ContParts(t, j, i, k)
<1> DEFINE blanks == AtBlanks(t, more)
           printed == Loop(t, blanks, Printed \ {" "}, Printed)
<1>0. Len(t) \in Nat
  OBVIOUS
<1>1. ASSUME NEW i \in blanks
      PROVE  /\ i \in Nat /\ i <= Len(t)
             /\ \E j \in more : j + 1 <= i /\ \A m \in j + 1..i : t[m] \in Blanks
  <2>1. i \in Loop(t, more, Blanks, Blanks)
    BY DEF AtBlanks
  <2>2. i \in 1..Len(t)
    BY <2>1 DEF Loop
  <2>3. i \in Nat /\ i <= Len(t)
    BY <2>2, <1>0
  <2>4. \E j \in more : j < i /\ \A m \in j + 1..i : t[m] \in Blanks
    BY <2>1, <2>3, <1>0, LoopOfOne
  <2>5. \A j \in more : j < i <=> j + 1 <= i
    BY <2>3
  <2>6. QED
    BY <2>3, <2>4, <2>5
<1>2. ASSUME k \in blanks
      PROVE  \E j \in more : \E i \in Nat : ContParts(t, j, i, k)
  <2>1. PICK j \in more : j + 1 <= k /\ \A m \in j + 1..k : t[m] \in Blanks
    BY <1>1, <1>2
  <2>2. k <= Len(t) /\ k <= k /\ k + 1..k = {}
    BY <1>1, <1>2
  <2>3. ContParts(t, j, k, k)
    BY <2>1, <2>2 DEF ContParts
  <2>4. QED
    BY <2>3
<1>3. ASSUME k \in printed
      PROVE  \E j \in more : \E i \in Nat : ContParts(t, j, i, k)
  <2> HIDE DEF blanks
  <2>1. PICK i \in blanks : /\ i < k /\ t[i + 1] \in Printed \ {" "}
                            /\ \A m \in i + 2..k : t[m] \in Printed
    BY <1>3, Zenon DEF Loop
  <2>2. i \in Nat
    BY <1>1
  <2>3. PICK j \in more : j + 1 <= i /\ \A m \in j + 1..i : t[m] \in Blanks
    BY <1>1
  <2>4. k \in 1..Len(t)
    BY <1>3, Zenon DEF Loop
  <2>5. k <= Len(t) /\ i <= k /\ \A m \in i + 1..k : m = i + 1 \/ m \in i + 2..k
    <3>1. i < k
      BY <2>1
    <3>2. QED
      BY <3>1, <2>4, <2>2, <1>0
  <2>6. \A m \in i + 1..k : t[m] \in Printed
    BY <2>5, <2>1
  <2>7. ContParts(t, j, i, k)
    BY <2>3, <2>5, <2>6 DEF ContParts
  <2>8. QED
    BY <2>2, <2>7
<1>4. ASSUME NEW j \in more, NEW i \in Nat, ContParts(t, j, i, k)
      PROVE  k \in blanks \cup printed
  <2>1. j \in Nat /\ j + 1 <= i /\ i <= k /\ k <= Len(t)
    BY <1>4 DEF ContParts
  <2>2. (\A m \in j + 1..i : t[m] \in Blanks) /\ \A m \in i + 1..k : t[m] \in Printed
    BY <1>4 DEF ContParts
  <2>3. i \in blanks
    <3>1. j < i /\ i <= Len(t)
      BY <2>1, <1>0
    <3>2. QED
      BY <2>2, <3>1, <1>0, LoopOfOne DEF AtBlanks
  <2> DEFINE X == blanks \cup printed
             S == {d \in Nat : i + d <= k => i + d \in X}
  <2>5. blanks \in SUBSET Nat
    BY <1>1
  <2> HIDE DEF blanks, printed
  <2>10. i \in X
    BY <2>3
  <2> HIDE DEF X
  <2>4. 0 \in S
    BY <2>10
  <2>6. ASSUME NEW d \in S PROVE d + 1 \in S
    <3>1. d \in Nat /\ (i + d <= k => i + d \in X)
      OBVIOUS
    <3> SUFFICES ASSUME i + (d + 1) <= k PROVE i + (d + 1) \in X
      BY <3>1
    <3> DEFINE e == i + d
    <3>2. /\ i + (d + 1) = e + 1 /\ e \in 0..Len(t) - 1 /\ e \in X
          /\ e + 1 \in i + 1..k
      BY <3>1, <2>1, <1>0
    <3>3. t[e + 1] \in Printed
      BY <3>2, <2>2
    <3>4. " " \in Blanks
      BY DEF Blanks
    <3> HIDE DEF e
    <3>5. e + 1 \in printed <=>
             \/ e \in blanks /\ t[e + 1] \in Printed \ {" "}
             \/ e \in printed /\ t[e + 1] \in Printed
      BY <3>2, <1>0, <2>5, LoopStep DEF printed
    <3>6. e + 1 \in blanks <=>
             \/ e \in more /\ t[e + 1] \in Blanks
             \/ e \in blanks /\ t[e + 1] \in Blanks
      BY <3>2, <1>0, LoopStep DEF blanks, AtBlanks
    <3>7. QED
      BY <3>2, <3>3, <3>4, <3>5, <3>6 DEF X
  <2> HIDE DEF S
  <2>7. S = Nat
    <3>1. S \subseteq Nat
      BY DEF S
    <3>2. QED
      BY <3>1, <2>4, <2>6, SetInduction
  <2>8. k - i \in Nat /\ i + (k - i) = k /\ k <= k
    BY <2>1
  <2>9. QED
    <3>1. k \in X
      BY <2>7, <2>8 DEF S
    <3>2. QED
      BY <3>1 DEF X
<1>5. QED
  BY <1>2, <1>3, <1>4

\* ... and where that is a line that continues one.
LEMMA ContTextHasParts ==
    ASSUME NEW t \in Seq(Chars), NEW j \in Nat, NEW k \in Nat, j <= k, k <= Len(t)
    PROVE  ContinuationText(SubSeq(t, j + 1, k)) <=> \E i \in Nat : ContParts(t, j, i, k)
<1> DEFINE s == SubSeq(t, j + 1, k)
<1>0. Len(t) \in Nat
  OBVIOUS
<1>1. s \in Seq(Chars) /\ Len(s) = k - j /\ DOMAIN s = 1..k - j
  OBVIOUS
<1>2. \A x, y \in Nat : 1 <= x /\ x <= y + 1 /\ y <= k - j =>
         SubSeq(s, x, y) = SubSeq(t, j + x, j + y)
  <2> TAKE x, y \in Nat
  <2> HAVE 1 <= x /\ x <= y + 1 /\ y <= k - j
  <2>1. SubSeq(s, x, y) = SubSeq(t, (j + 1) + x - 1, (j + 1) + y - 1)
    <3>1. j + 1 \in Nat \ {0} /\ j + 1 <= k + 1 /\ x \in Nat \ {0} /\ y <= k + 1 - (j + 1)
      OBVIOUS
    <3>2. QED
      BY <3>1, PartOfPart
  <2>2. (j + 1) + x - 1 = j + x /\ (j + 1) + y - 1 = j + y
    OBVIOUS
  <2>3. QED
    BY <2>1, <2>2
<1> HIDE DEF s
<1>3. ASSUME NEW x \in Nat, NEW y \in Nat, 1 <= x, x <= y + 1, y <= k - j, NEW chars
      PROVE  All(SubSeq(s, x, y), chars) <=> \A m \in j + x..j + y : t[m] \in chars
  <2>1. j + x \in Nat \ {0} /\ j + y \in Nat /\ j + y <= Len(t) /\ j + x <= (j + y) + 1
    BY <1>3, <1>0
  <2>2. SubSeq(s, x, y) = SubSeq(t, j + x, j + y)
    BY <1>2, <1>3
  <2>3. \A cs : All(SubSeq(t, j + x, j + y), cs) <=> \A m \in j + x..j + y : t[m] \in cs
    BY <2>1, AllOfPart
  <2>4. QED
    BY <2>2, <2>3
<1>4. ASSUME NEW i \in 1..k - j
      PROVE  ContParts(t, j, j + i, k) <=>
               All(SubSeq(s, 1, i), {" ", "\t"}) /\ All(SubSeq(s, i + 1, Len(s)), Printed)
  <2>1. /\ i \in Nat /\ 1 \in Nat /\ i + 1 \in Nat /\ k - j \in Nat
        /\ 1 <= i + 1 /\ i <= k - j /\ 1 <= 1 /\ k - j <= k - j /\ i + 1 <= (k - j) + 1
        /\ j + (k - j) = k /\ j + (i + 1) = (j + i) + 1
        /\ j + 1 <= j + i /\ j + i <= k
    OBVIOUS
  <2>2. All(SubSeq(s, 1, i), Blanks) <=> \A m \in j + 1..j + i : t[m] \in Blanks
    BY <1>3, <2>1
  <2>3. All(SubSeq(s, i + 1, k - j), Printed) <=> \A m \in (j + i) + 1..k : t[m] \in Printed
    <3>1. All(SubSeq(s, i + 1, k - j), Printed) <=>
            \A m \in j + (i + 1)..j + (k - j) : t[m] \in Printed
      BY <1>3, <2>1
    <3>2. QED
      BY <2>1, <3>1
  <2>4. Len(s) = k - j /\ Blanks = {" ", "\t"}
    BY <1>1 DEF Blanks
  <2>5. QED
    BY <2>1, <2>2, <2>3, <2>4 DEF ContParts
<1>5. ASSUME NEW i \in Nat, ContParts(t, j, i, k)
      PROVE  \E e \in 1..k - j : ContParts(t, j, j + e, k)
  <2>1. j + 1 <= i /\ i <= k
    BY <1>5 DEF ContParts
  <2>2. i - j \in 1..k - j /\ j + (i - j) = i
    BY <2>1
  <2>3. QED
    BY <1>5, <2>2
<1>6. ContinuationText(s) <=> \E i \in 1..k - j : ContParts(t, j, j + i, k)
  BY <1>1, <1>4 DEF ContinuationText
<1>7. \A i \in 1..k - j : j + i \in Nat
  OBVIOUS
<1>8. QED
  BY <1>5, <1>6, <1>7 DEF s

-----------------------------------------------------------------------------
(* The lines of a text.                                                    *)

\* The line that ends at e begins behind j.
LineFrom(t, j, e) ==
    \/ j = 0 /\ \A f \in LineEnds(t) : ~(f < e)
    \/ /\ j - 1 \in LineEnds(t) /\ j - 1 < e
       /\ \A f \in LineEnds(t) : f < e => f <= j - 1

\* Where the line begins, in Request's words.
FirstOf(t, i) == IF \E e \in LineEnds(t) : e < i
                 THEN 2 + CHOOSE e \in LineEnds(t) : e < i /\ \A f \in LineEnds(t) : f < i => f <= e
                 ELSE 1

\* Lines end at places of the text, and no two ends share a character.
LEMMA EndsOfLines ==
    ASSUME NEW t \in Seq(Chars)
    PROVE  /\ Len(t) \in Nat
           /\ LineEnds(t) \subseteq 1..Len(t)
           /\ \A e \in LineEnds(t) : /\ e \in Nat /\ 1 <= e /\ e + 1 <= Len(t)
                                     /\ t[e] = "\r" /\ t[e + 1] = "\n"
           /\ \A e \in Nat : 1 <= e /\ e + 1 <= Len(t) /\ t[e] = "\r" /\ t[e + 1] = "\n" =>
                 e \in LineEnds(t)
<1>1. Len(t) \in Nat
  OBVIOUS
<1>2. \A e : e \in LineEnds(t) <=> e \in 1..Len(t) - 1 /\ t[e] = "\r" /\ t[e + 1] = "\n"
  BY DEF LineEnds
<1>3. \A e : e \in 1..Len(t) - 1 <=> e \in Nat /\ 1 <= e /\ e + 1 <= Len(t)
  BY <1>1
<1>4. \A e : e \in 1..Len(t) - 1 => e \in 1..Len(t)
  BY <1>1
<1>5. QED
  BY <1>1, <1>2, <1>3, <1>4

\* Every line begins somewhere, and Request finds it there.
LEMMA LineBegins ==
    ASSUME NEW t \in Seq(Chars), NEW e \in LineEnds(t)
    PROVE  \E j \in Nat : LineFrom(t, j, e) /\ j + 1 <= e /\ FirstOf(t, e) = j + 1
<1> DEFINE ends == LineEnds(t)
           before == {f \in ends : f < e}
<1>0. /\ Len(t) \in Nat /\ ends \subseteq 1..Len(t)
      /\ \A x \in ends : /\ x \in Nat /\ 1 <= x /\ x + 1 <= Len(t)
                         /\ t[x] = "\r" /\ t[x + 1] = "\n"
  BY EndsOfLines
<1>1. CASE \A f \in ends : ~(f < e)
  <2>1. LineFrom(t, 0, e)
    BY <1>1 DEF LineFrom
  <2>2. FirstOf(t, e) = 1
    BY <1>1 DEF FirstOf
  <2>3. 0 + 1 <= e /\ 0 \in Nat /\ 0 + 1 = 1
    BY <1>0
  <2>4. QED
    BY <2>1, <2>2, <2>3
<1>2. CASE \E f \in ends : f < e
  <2>1. PICK x \in before : \A y \in before : y <= x
    <3>1. before \subseteq 1..Len(t) /\ before # {}
      BY <1>0, <1>2
    <3> HIDE DEF before
    <3>2. QED
      BY <3>1, <1>0, GreatestOfSome
  <2>2. x \in ends /\ x < e /\ \A f \in ends : f < e => f <= x
    BY <2>1
  <2>3. x \in Nat /\ e \in Nat /\ t[x + 1] = "\n" /\ t[e] = "\r"
    BY <1>0, <2>2
  <2>4. x + 1 # e
    BY <2>3
  <2>5. x + 1 \in Nat /\ (x + 1) - 1 = x /\ (x + 1) + 1 <= e /\ 2 + x = (x + 1) + 1
    BY <2>2, <2>3, <2>4
  <2>6. LineFrom(t, x + 1, e)
    BY <2>2, <2>5 DEF LineFrom
  <2>7. FirstOf(t, e) = (x + 1) + 1
    <3> DEFINE c == CHOOSE z \in ends : z < e /\ \A f \in ends : f < e => f <= z
    <3>1. c \in ends /\ c < e /\ \A f \in ends : f < e => f <= c
      BY <2>2
    <3>2. c = x
      <4>1. c <= x /\ x <= c /\ c \in Nat
        BY <3>1, <2>2, <1>0
      <4> HIDE DEF c
      <4>2. QED
        BY <4>1, <2>3
    <3>3. FirstOf(t, e) = 2 + c
      BY <1>2 DEF FirstOf
    <3>4. QED
      BY <3>2, <3>3, <2>5
  <2>8. QED
    BY <2>5, <2>6, <2>7
<1>3. QED
  BY <1>1, <1>2

\* A line begins in one place.
LEMMA LineBeginsOnce ==
    ASSUME NEW t \in Seq(Chars), NEW e, NEW j \in Nat, NEW i \in Nat,
           LineFrom(t, j, e), LineFrom(t, i, e)
    PROVE  i = j
<1>0. \A x \in LineEnds(t) : x \in Nat
  BY EndsOfLines
<1>1. CASE j = 0
  BY <1>0, <1>1 DEF LineFrom
<1>2. CASE i = 0
  BY <1>0, <1>2 DEF LineFrom
<1>3. CASE i # 0 /\ j # 0
  <2>1. j - 1 <= i - 1 /\ i - 1 <= j - 1
    BY <1>3 DEF LineFrom
  <2>2. QED
    BY <2>1
<1>4. QED
  BY <1>1, <1>2, <1>3

\* What a line has to be.
GoodLine(t, j, e) ==
    IF j = 0 THEN RequestLineText(SubSeq(t, 1, e - 1))
    ELSE \/ HeaderText(SubSeq(t, j + 1, e - 1))
         \/ ContinuationText(SubSeq(t, j + 1, e - 1)) /\ \E f \in LineEnds(t) : f < j - 1
GoodAt(t, e) == \E j \in Nat : LineFrom(t, j, e) /\ GoodLine(t, j, e)

\* Where lines of headers begin: where a line ends and all lines so far are what they have to be.
LineStarts(t) == {k \in 2..Len(t) : /\ k - 1 \in LineEnds(t)
                                    /\ \A e \in LineEnds(t) : e < k => GoodAt(t, e)}
MoreStarts(t) == {k \in LineStarts(t) : \E f \in LineEnds(t) : f < k - 1}

\* Behind the first line, headers begin when it is a request line.
LEMMA StartsAfterFirst ==
    ASSUME NEW t \in Seq(Chars), NEW k \in 2..Len(t), k - 1 \in LineEnds(t), LineFrom(t, 0, k - 1)
    PROVE  /\ k \in LineStarts(t) <=> RequestLineText(SubSeq(t, 1, k - 2))
           /\ k \notin MoreStarts(t)
<1>0. Len(t) \in Nat /\ k \in Nat /\ (\A x \in LineEnds(t) : x \in Nat) /\ (k - 1) - 1 = k - 2
  <2>1. Len(t) \in Nat /\ \A x \in LineEnds(t) : x \in Nat
    BY EndsOfLines
  <2>2. QED
    BY <2>1
<1>1. \A f \in LineEnds(t) : ~(f < k - 1)
  BY <1>0 DEF LineFrom
<1>2. \A e \in LineEnds(t) : e < k <=> e = k - 1
  <2>1. \A e \in LineEnds(t) : e \in Nat /\ ~(e < k - 1)
    BY <1>0, <1>1
  <2>2. QED
    BY <2>1, <1>0
<1>3. GoodAt(t, k - 1) <=> GoodLine(t, 0, k - 1)
  <2>1. \A j \in Nat : LineFrom(t, j, k - 1) => j = 0
    BY LineBeginsOnce
  <2>2. QED
    BY <2>1 DEF GoodAt
<1>4. GoodLine(t, 0, k - 1) <=> RequestLineText(SubSeq(t, 1, k - 2))
  BY <1>0 DEF GoodLine
<1>5. k \in LineStarts(t) <=> GoodAt(t, k - 1)
  BY <1>2 DEF LineStarts
<1>6. k \notin MoreStarts(t)
  BY <1>1 DEF MoreStarts
<1>7. QED
  BY <1>3, <1>4, <1>5, <1>6

\* Behind another one, a line begins where one did and is what it has to be.
LEMMA StartsAfterLine ==
    ASSUME NEW t \in Seq(Chars), NEW k \in 2..Len(t), k - 1 \in LineEnds(t),
           NEW j \in Nat \ {0}, LineFrom(t, j, k - 1)
    PROVE  /\ k \in MoreStarts(t) <=>
                \/ j \in LineStarts(t) /\ HeaderText(SubSeq(t, j + 1, k - 2))
                \/ j \in MoreStarts(t) /\ ContinuationText(SubSeq(t, j + 1, k - 2))
           /\ k \in LineStarts(t) => k \in MoreStarts(t)
           /\ j \in 2..Len(t) /\ j <= k - 2
<1>0. Len(t) \in Nat /\ k \in Nat /\ (k - 1) - 1 = k - 2 /\ j \in Nat
  <2>1. Len(t) \in Nat
    BY EndsOfLines
  <2>2. QED
    BY <2>1
<1>1. /\ j - 1 \in LineEnds(t) /\ j - 1 < k - 1
      /\ \A f \in LineEnds(t) : f < k - 1 => f <= j - 1
  BY <1>0 DEF LineFrom
<1>2. \A x \in LineEnds(t) : x \in Nat /\ 1 <= x
  BY EndsOfLines
<1>3. /\ t[(j - 1) + 1] = "\n" /\ t[k - 1] = "\r" /\ 1 <= j - 1 /\ (j - 1) + 1 <= Len(t)
      /\ (j - 1) + 1 = j
  BY <1>0, <1>1, EndsOfLines
<1>4. j # k - 1
  BY <1>3
<1>5. j \in 2..Len(t) /\ j <= k - 2
  BY <1>0, <1>1, <1>3, <1>4
<1>6. \A e \in LineEnds(t) : e < k <=> e < j \/ e = k - 1
  <2> TAKE e \in LineEnds(t)
  <2>1. e \in Nat /\ (e < k - 1 => e <= j - 1)
    BY <1>1, <1>2
  <2>2. QED
    BY <2>1, <1>0, <1>5
<1>7. GoodAt(t, k - 1) <=> GoodLine(t, j, k - 1)
  <2>1. \A i \in Nat : LineFrom(t, i, k - 1) => i = j
    BY LineBeginsOnce
  <2>2. QED
    BY <2>1 DEF GoodAt
<1>8. k \in LineStarts(t) <=> j \in LineStarts(t) /\ GoodLine(t, j, k - 1)
  BY <1>1, <1>5, <1>6, <1>7 DEF LineStarts
<1>9. k \in MoreStarts(t) <=> k \in LineStarts(t)
  BY <1>1 DEF MoreStarts
<1>10. GoodLine(t, j, k - 1) <=>
         \/ HeaderText(SubSeq(t, j + 1, k - 2))
         \/ ContinuationText(SubSeq(t, j + 1, k - 2)) /\ \E f \in LineEnds(t) : f < j - 1
  BY <1>0 DEF GoodLine
<1>11. j \in MoreStarts(t) <=> j \in LineStarts(t) /\ \E f \in LineEnds(t) : f < j - 1
  BY DEF MoreStarts
<1>12. QED
  BY <1>5, <1>8, <1>9, <1>10, <1>11

\* The characters of a line, and the one that ends it.
Inside == Token \cup Printed \cup Blanks \cup Digit
          \cup {" ", ":", ".", "/", "H", "T", "P", "\n"}

\* No line ends where there is nothing but the characters of a line.
LEMMA NoEndInside ==
    ASSUME NEW t \in Seq(Chars), NEW j \in Nat, NEW e \in LineEnds(t),
           j - 1 \in LineEnds(t) \/ j = 0,
           j < e, \A m \in j + 1..e - 1 : t[m] \in Inside
    PROVE  LineFrom(t, j, e)
<1>0. \A x \in LineEnds(t) : x \in Nat /\ 1 <= x /\ t[x] = "\r" /\ t[x + 1] = "\n"
  BY EndsOfLines
<1>1. "\r" \notin Inside
  BY DEF Inside, Printed, Token, Tspecial, Ctl, Digit, Blanks
<1>2. ASSUME NEW f \in LineEnds(t), f < e PROVE f <= j - 1
  <2>1. SUFFICES ASSUME ~(f <= j - 1) PROVE FALSE
    OBVIOUS
  <2>2. f \in Nat /\ 1 <= f /\ e \in Nat
    BY <1>0
  <2>3. f = j \/ f \in j + 1..e - 1
    BY <2>1, <2>2, <1>2
  <2>4. CASE f = j
    <3>1. j - 1 \in LineEnds(t)
      BY <2>2, <2>4
    <3>2. (j - 1) + 1 = j
      OBVIOUS
    <3>3. t[j] = "\n" /\ t[j] = "\r"
      BY <1>0, <2>4, <3>1, <3>2
    <3>4. QED
      BY <3>3
  <2>5. CASE f \in j + 1..e - 1
    BY <1>0, <1>1, <2>5
  <2>6. QED
    BY <2>3, <2>4, <2>5
<1>3. CASE j = 0
  <2>1. ASSUME NEW f \in LineEnds(t) PROVE ~(f < e)
    <3>1. f < e => f <= 0 - 1
      BY <1>2, <1>3
    <3>2. QED
      BY <3>1, <1>0
  <2>2. QED
    BY <2>1, <1>3 DEF LineFrom
<1>4. CASE j # 0
  <2>1. j - 1 \in LineEnds(t) /\ j - 1 < e
    <3>1. e \in Nat
      BY <1>0
    <3>2. QED
      BY <1>4, <3>1
  <2>2. QED
    BY <2>1, <1>2 DEF LineFrom
<1>5. QED
  BY <1>3, <1>4

\* The parts of lines are made of such characters, as far as their ends.
LEMMA PartsInside ==
    ASSUME NEW t \in Seq(Chars), NEW k \in Nat
    PROVE  /\ \A a, b, d \in Nat : LineParts(t, a, b, d, k) => \A m \in 1..k - 2 : t[m] \in Inside
           /\ \A j, i \in Nat : HeaderParts(t, j, i, k) => \A m \in j + 1..k : t[m] \in Inside
           /\ \A j, i \in Nat : ContParts(t, j, i, k) => \A m \in j + 1..k : t[m] \in Inside
<1>1. /\ \A c : c \in Token \/ c \in Printed \/ c \in Blanks \/ c \in Digit => c \in Inside
      /\ " " \in Inside /\ ":" \in Inside /\ "." \in Inside /\ "/" \in Inside
      /\ "H" \in Inside /\ "T" \in Inside /\ "P" \in Inside
  BY DEF Inside
<1>2. ASSUME NEW a \in Nat, NEW b \in Nat, NEW d \in Nat, LineParts(t, a, b, d, k),
             NEW m \in 1..k - 2
      PROVE  t[m] \in Inside
  <2>1. /\ \A x \in 1..a - 1 : t[x] \in Token
        /\ \A x \in a + 1..b - 1 : t[x] \in Printed
        /\ \A x \in b + 6..d - 1 : t[x] \in Digit
        /\ \A x \in d + 1..k - 2 : t[x] \in Digit
    BY <1>2, Zenon DEF LineParts
  <2>2. /\ t[a] = " " /\ t[b] = " " /\ t[b + 1] = "H" /\ t[b + 2] = "T" /\ t[b + 3] = "T"
        /\ t[b + 4] = "P" /\ t[b + 5] = "/" /\ t[d] = "."
    BY <1>2, Zenon DEF LineParts
  <2>3. m \in Nat /\ 1 <= m /\ m <= k - 2
    OBVIOUS
  <2>4. \/ m \in 1..a - 1 \/ m \in a + 1..b - 1 \/ m \in b + 6..d - 1 \/ m \in d + 1..k - 2
        \/ m = a \/ m = b \/ m = b + 1 \/ m = b + 2 \/ m = b + 3 \/ m = b + 4 \/ m = b + 5
        \/ m = d
    BY <2>3
  <2>5. \/ t[m] \in Token \/ t[m] \in Printed \/ t[m] \in Digit
        \/ t[m] = " " \/ t[m] = "H" \/ t[m] = "T" \/ t[m] = "P" \/ t[m] = "/" \/ t[m] = "."
    BY <2>1, <2>2, <2>4
  <2>6. QED
    BY <2>5, <1>1, Zenon
<1>3. ASSUME NEW j \in Nat, NEW i \in Nat, HeaderParts(t, j, i, k), NEW m \in j + 1..k
      PROVE  t[m] \in Inside
  <2>1. /\ \A x \in j + 1..i - 1 : t[x] \in Token
        /\ \A x \in i + 2..k : t[x] \in Printed
        /\ t[i] = ":" /\ t[i + 1] = " "
    BY <1>3, Zenon DEF HeaderParts
  <2>2. m \in j + 1..i - 1 \/ m \in i + 2..k \/ m = i \/ m = i + 1
    OBVIOUS
  <2>3. QED
    BY <2>1, <2>2, <1>1
<1>4. ASSUME NEW j \in Nat, NEW i \in Nat, ContParts(t, j, i, k), NEW m \in j + 1..k
      PROVE  t[m] \in Inside
  <2>1. /\ \A x \in j + 1..i : t[x] \in Blanks
        /\ \A x \in i + 1..k : t[x] \in Printed
    BY <1>4, Zenon DEF ContParts
  <2>2. m \in j + 1..i \/ m \in i + 1..k
    OBVIOUS
  <2>3. QED
    BY <2>1, <2>2, <1>1
<1>5. QED
  BY <1>2, <1>3, <1>4

\* So lines begin as the parser has it: where it has read a line.
LEMMA LinesDoBegin ==
    ASSUME NEW t \in Seq(Chars)
    PROVE  LinesBegin(t, LineStarts(t), MoreStarts(t))
<1> DEFINE starts == LineStarts(t)   more == MoreStarts(t)
<1>0. /\ Len(t) \in Nat
      /\ \A e \in LineEnds(t) : /\ e \in Nat /\ 1 <= e /\ e + 1 <= Len(t)
                                /\ t[e] = "\r" /\ t[e + 1] = "\n"
      /\ \A e \in Nat : 1 <= e /\ e + 1 <= Len(t) /\ t[e] = "\r" /\ t[e + 1] = "\n" =>
            e \in LineEnds(t)
  BY EndsOfLines
<1>2. starts \subseteq 2..Len(t) /\ more \subseteq starts
  BY DEF LineStarts, MoreStarts
<1>3. starts \in SUBSET Nat /\ more \in SUBSET Nat
  BY <1>2
<1> HIDE DEF starts, more
\* The places behind a line end...
<1>4. ASSUME NEW k \in 2..Len(t), t[k - 1] = "\r", t[k] = "\n"
      PROVE  k - 1 \in LineEnds(t) /\ k - 2 \in Nat /\ k \in Nat
  <2>1. k - 1 \in Nat /\ 1 <= k - 1 /\ (k - 1) + 1 <= Len(t) /\ (k - 1) + 1 = k /\ k - 2 \in Nat
    BY <1>0
  <2>2. QED
    BY <2>1, <1>4, <1>0
<1>5. ASSUME NEW k \in 2..Len(t), k - 1 \in LineEnds(t)
      PROVE  t[k - 1] = "\r" /\ t[k] = "\n" /\ (k - 1) + 1 = k
  <2>1. (k - 1) + 1 = k
    OBVIOUS
  <2>2. QED
    BY <2>1, <1>5, <1>0
<1>6. ASSUME NEW k, k \in more PROVE k \in NextLine(t, starts, more)
  <2>1. k \in 2..Len(t) /\ k - 1 \in LineEnds(t)
    BY <1>6, <1>2 DEF starts, LineStarts
  <2>2. t[k - 1] = "\r" /\ t[k] = "\n"
    BY <2>1, <1>5
  <2>3. /\ k - 2 \in Nat /\ k \in 1..Len(t) /\ k - 1 \in 1..Len(t) /\ (k - 1) - 1 = k - 2
        /\ k - 2 <= Len(t)
    BY <2>1, <1>0
  <2>4. PICK j \in Nat : LineFrom(t, j, k - 1)
    BY <2>1, LineBegins
  <2>5. j # 0
    BY <1>6, <2>1, <2>4, StartsAfterFirst DEF more
  <2>6. /\ j \in 2..Len(t) /\ j <= k - 2
        /\ \/ j \in starts /\ HeaderText(SubSeq(t, j + 1, k - 2))
           \/ j \in more /\ ContinuationText(SubSeq(t, j + 1, k - 2))
    BY <1>6, <2>1, <2>4, <2>5, StartsAfterLine DEF more, starts
  <2>7. CASE j \in starts /\ HeaderText(SubSeq(t, j + 1, k - 2))
    <3>1. \E i \in Nat : HeaderParts(t, j, i, k - 2)
      BY <2>3, <2>6, <2>7, HeaderTextHasParts
    <3>2. k - 2 \in Loop(t, AtSpace(t, starts), {" "}, Printed)
      BY <3>1, <2>3, <2>7, <1>3, HeaderHasParts
    <3>3. QED
      BY <3>2, <2>2, <2>3, Zenon DEF NextLine, AtNewline2, AtValue, One
  <2>8. CASE j \in more /\ ContinuationText(SubSeq(t, j + 1, k - 2))
    <3>1. \E i \in Nat : ContParts(t, j, i, k - 2)
      BY <2>3, <2>6, <2>8, ContTextHasParts
    <3>2. k - 2 \in AtBlanks(t, more) \cup Loop(t, AtBlanks(t, more), Printed \ {" "}, Printed)
      BY <3>1, <2>3, <2>8, <1>3, ContHasParts
    <3>3. QED
      BY <3>2, <2>2, <2>3, Zenon DEF NextLine, AtNewline2, AtValue, One
  <2>9. QED
    BY <2>6, <2>7, <2>8
<1>7. ASSUME NEW k, k \in NextLine(t, starts, more) PROVE k \in more
  <2>1. /\ k \in 1..Len(t) /\ t[k] = "\n" /\ k - 1 \in 1..Len(t) /\ t[k - 1] = "\r"
        /\ (k - 1) - 1 \in AtValue(t, starts, more) \cup AtBlanks(t, more)
    BY <1>7 DEF NextLine, AtNewline2, One
  <2>2. k \in 2..Len(t) /\ (k - 1) - 1 = k - 2
    <3>1. k \in 1..Len(t) /\ k - 1 \in 1..Len(t)
      BY <2>1
    <3>2. QED
      BY <3>1, <1>0
  <2>3. k - 1 \in LineEnds(t) /\ k - 2 \in Nat /\ k \in Nat
    BY <2>1, <2>2, <1>4
  <2>4. \A j \in starts : j \in Nat /\ 2 <= j /\ j <= Len(t) /\ j - 1 \in LineEnds(t)
    <3>1. \A j \in starts : j \in 2..Len(t) /\ j - 1 \in LineEnds(t)
      BY DEF starts, LineStarts
    <3>2. QED
      BY <3>1, <1>0
  <2>5. CASE k - 2 \in Loop(t, AtSpace(t, starts), {" "}, Printed)
    <3>1. PICK j \in starts : \E i \in Nat : HeaderParts(t, j, i, k - 2)
      BY <2>3, <2>5, <1>3, HeaderHasParts
    <3>2. PICK i \in Nat : HeaderParts(t, j, i, k - 2)
      BY <3>1
    <3>3. j + 2 <= i /\ i + 1 <= k - 2
      BY <3>2 DEF HeaderParts
    <3>4. j \in Nat \ {0} /\ j <= k - 2 /\ k - 2 <= Len(t) /\ j < k - 1 /\ (k - 1) - 1 = k - 2
      BY <3>3, <2>4, <2>3, <2>2, <1>0
    <3>5. \A m \in j + 1..k - 2 : t[m] \in Inside
      BY <3>2, <3>4, <2>3, PartsInside
    <3>6. LineFrom(t, j, k - 1)
      BY <3>4, <3>5, <2>3, <2>4, NoEndInside
    <3>7. HeaderText(SubSeq(t, j + 1, k - 2))
      BY <3>2, <3>4, <2>3, HeaderTextHasParts
    <3>8. QED
      BY <3>4, <3>6, <3>7, <2>2, <2>3, StartsAfterLine DEF more, starts
  <2>6. CASE k - 2 \in AtBlanks(t, more) \cup Loop(t, AtBlanks(t, more), Printed \ {" "}, Printed)
    <3>1. PICK j \in more : \E i \in Nat : ContParts(t, j, i, k - 2)
      BY <2>3, <2>6, <1>3, ContHasParts
    <3>2. PICK i \in Nat : ContParts(t, j, i, k - 2)
      BY <3>1
    <3>3. j + 1 <= i /\ i <= k - 2
      BY <3>2 DEF ContParts
    <3>4. /\ j \in Nat \ {0} /\ j <= k - 2 /\ k - 2 <= Len(t) /\ j < k - 1 /\ (k - 1) - 1 = k - 2
          /\ j - 1 \in LineEnds(t)
      <4>1. j \in Nat /\ 2 <= j /\ j - 1 \in LineEnds(t)
        BY <2>4, <1>2
      <4>2. QED
        BY <3>3, <4>1, <2>3, <2>2, <1>0
    <3>5. \A m \in j + 1..k - 2 : t[m] \in Inside
      BY <3>2, <3>4, <2>3, PartsInside
    <3>6. LineFrom(t, j, k - 1)
      BY <3>4, <3>5, <2>3, NoEndInside
    <3>7. ContinuationText(SubSeq(t, j + 1, k - 2))
      BY <3>2, <3>4, <2>3, ContTextHasParts
    <3>8. QED
      BY <3>4, <3>6, <3>7, <2>2, <2>3, StartsAfterLine DEF more, starts
  <2>7. QED
    BY <2>1, <2>2, <2>5, <2>6 DEF AtValue
<1>8. ASSUME NEW k, k \in starts PROVE k \in FirstLine(t) \/ k \in more
  <2>1. k \in 2..Len(t) /\ k - 1 \in LineEnds(t)
    BY <1>8 DEF starts, LineStarts
  <2>2. t[k - 1] = "\r" /\ t[k] = "\n" /\ k \in Nat
    BY <2>1, <1>5
  <2>3. PICK j \in Nat : LineFrom(t, j, k - 1)
    BY <2>1, LineBegins
  <2>4. CASE j = 0
    <3>1. RequestLineText(SubSeq(t, 1, k - 2))
      BY <1>8, <2>1, <2>3, <2>4, StartsAfterFirst DEF starts
    <3>2. \E a, b, d \in Nat : LineParts(t, a, b, d, k)
      BY <3>1, <2>1, <2>2, RequestLineHasParts
    <3>3. QED
      BY <3>2, <2>2, FirstLineHasParts
  <2>5. CASE j # 0
    BY <1>8, <2>1, <2>3, <2>5, StartsAfterLine DEF starts, more
  <2>6. QED
    BY <2>4, <2>5
<1>9. ASSUME NEW k, k \in FirstLine(t) PROVE k \in starts
  <2>1. k \in 1..Len(t)
    BY <1>9 DEF FirstLine, One
  <2>2. PICK a, b, d \in Nat : LineParts(t, a, b, d, k)
    BY <2>1, <1>9, FirstLineHasParts
  <2>3. /\ 2 <= a /\ a < b /\ b + 7 <= d /\ d + 3 <= k /\ k <= Len(t)
        /\ t[k - 1] = "\r" /\ t[k] = "\n"
    BY <2>2 DEF LineParts
  <2>4. k \in 2..Len(t)
    BY <2>1, <2>3, <1>0
  <2>5. k - 1 \in LineEnds(t) /\ k - 2 \in Nat /\ k \in Nat
    BY <2>3, <2>4, <1>4
  <2>6. 0 \in Nat /\ 0 < k - 1 /\ (k - 1) - 1 = k - 2 /\ 0 + 1 = 1
    BY <2>4
  <2>7. \A m \in 1..k - 2 : t[m] \in Inside
    BY <2>2, <2>5, PartsInside
  <2>8. LineFrom(t, 0, k - 1)
    BY <2>5, <2>6, <2>7, NoEndInside
  <2>9. RequestLineText(SubSeq(t, 1, k - 2))
    BY <2>2, <2>3, <2>4, RequestLineHasParts
  <2>10. QED
    BY <2>4, <2>5, <2>8, <2>9, StartsAfterFirst DEF starts
<1>10. more = NextLine(t, starts, more)
  BY <1>6, <1>7
<1>11. starts = FirstLine(t) \cup more
  BY <1>8, <1>9, <1>2
<1>12. QED
  BY <1>10, <1>11 DEF LinesBegin, starts, more

-----------------------------------------------------------------------------
\* So a text is a request when it is an empty line behind lines that are what they have to be.
LEMMA RequestByStarts ==
    ASSUME NEW t \in Seq(Chars)
    PROVE  Request(t) <=> /\ Len(t) - 1 \in LineEnds(t)
                          /\ Len(t) - 2 \in LineStarts(t)
<1> DEFINE n == Len(t)   ends == LineEnds(t)
           one == CHOOSE e \in ends : \A f \in ends : e <= f
           line(i) == SubSeq(t, FirstOf(t, i), i - 1)
           Good(e) == \/ HeaderText(line(e))
                      \/ ContinuationText(line(e)) /\ \E f \in ends \ {one} : f < e
<1>1. Request(t) <=> /\ n - 1 \in ends /\ line(n - 1) = << >>
                     /\ \A e \in ends \ {one, n - 1} : Good(e)
                     /\ RequestLineText(line(one)) /\ one # n - 1
  BY DEF Request, FirstOf
<1>2. SUFFICES ASSUME n - 1 \in ends PROVE Request(t) <=> n - 2 \in LineStarts(t)
  BY <1>1
<1>3. n \in Nat /\ \A e \in ends : e \in Nat /\ 1 <= e /\ e + 1 <= n
  BY EndsOfLines
<1>4. one \in ends /\ \A f \in ends : one <= f
  <2>1. ends \subseteq Nat /\ ends # {}
    BY <1>2, <1>3
  <2>2. \E e \in ends : \A f \in ends : e <= f
    <3> HIDE DEF ends
    <3>1. QED
      BY <2>1, LeastOfSome
  <2>3. QED
    BY <2>2
<1> HIDE DEF one
<1>5. PICK j \in Nat : LineFrom(t, j, n - 1) /\ j + 1 <= n - 1 /\ FirstOf(t, n - 1) = j + 1
  BY <1>2, LineBegins
<1>6. line(n - 1) = << >> <=> j = n - 2
  <2>1. line(n - 1) = SubSeq(t, j + 1, n - 2)
    <3>1. (n - 1) - 1 = n - 2
      BY <1>3
    <3>2. QED
      BY <1>5, <3>1
  <2>2. j + 1 \in Nat \ {0} /\ n - 2 \in Nat /\ n - 2 <= n /\ j + 1 <= (n - 2) + 1 /\ j <= n - 2
    BY <1>3, <1>5
  <2>3. Len(SubSeq(t, j + 1, n - 2)) = (n - 2) + 1 - (j + 1)
    BY <2>2, PartOf
  <2>4. (n - 2) + 1 - (j + 1) = (n - 2) - j
    BY <2>2
  <2>5. SubSeq(t, j + 1, n - 2) \in Seq(Chars)
    BY <2>2, PartOf
  <2>6. SubSeq(t, j + 1, n - 2) = << >> <=> Len(SubSeq(t, j + 1, n - 2)) = 0
    <3>1. \A x \in Seq(Chars) : x = << >> <=> Len(x) = 0
      OBVIOUS
    <3>2. QED
      BY <2>5, <3>1, Zenon
  <2>7. Len(SubSeq(t, j + 1, n - 2)) = 0 <=> j = n - 2
    BY <2>2, <2>3, <2>4
  <2>8. QED
    BY <2>1, <2>6, <2>7, Zenon
<1>7. GoodAt(t, one) <=> RequestLineText(line(one))
  <2>1. \A f \in ends : ~(f < one)
    BY <1>3, <1>4
  <2>2. LineFrom(t, 0, one)
    BY <2>1 DEF LineFrom
  <2>3. FirstOf(t, one) = 1
    BY <2>1 DEF FirstOf
  <2>4. \A i \in Nat : LineFrom(t, i, one) => i = 0
    BY <2>2, LineBeginsOnce
  <2>5. GoodAt(t, one) <=> GoodLine(t, 0, one)
    BY <2>2, <2>4 DEF GoodAt
  <2>6. GoodLine(t, 0, one) <=> RequestLineText(SubSeq(t, 1, one - 1))
    BY DEF GoodLine
  <2>7. QED
    BY <2>3, <2>5, <2>6
<1>8. ASSUME NEW e \in ends \ {one} PROVE GoodAt(t, e) <=> Good(e)
  <2>1. PICK i \in Nat : LineFrom(t, i, e) /\ FirstOf(t, e) = i + 1
    BY LineBegins
  <2>2. one < e
    BY <1>3, <1>4
  <2>3. i # 0 /\ i - 1 \in ends /\ i - 1 < e /\ \A f \in ends : f < e => f <= i - 1
    <3>1. \/ i = 0 /\ \A f \in ends : ~(f < e)
          \/ i - 1 \in ends /\ i - 1 < e /\ \A f \in ends : f < e => f <= i - 1
      BY <2>1, Zenon DEF LineFrom
    <3>2. ~(\A f \in ends : ~(f < e))
      BY <1>4, <2>2, Zenon
    <3>3. i - 1 \in ends => i # 0
      BY <1>3
    <3>4. QED
      BY <3>1, <3>2, <3>3, Zenon
  <2>4. (\E f \in ends : f < i - 1) <=> \E f \in ends \ {one} : f < e
    <3>1. one <= i - 1
      BY <1>4, <2>3
    <3>2. ASSUME NEW f \in ends, f < i - 1 PROVE \E g \in ends \ {one} : g < e
      <4>1. one <= f /\ f \in Nat /\ one \in Nat
        BY <1>3, <1>4
      <4>2. i - 1 # one
        BY <3>2, <4>1
      <4>3. QED
        BY <2>3, <4>2
    <3>3. ASSUME NEW f \in ends \ {one}, f < e PROVE \E g \in ends : g < i - 1
      <4>1. f <= i - 1 /\ one <= f /\ f # one /\ f \in Nat /\ one \in Nat
        BY <1>3, <1>4, <2>3, <3>3
      <4>2. one < i - 1
        BY <4>1
      <4>3. QED
        BY <4>2, <1>4
    <3>4. QED
      BY <3>2, <3>3
  <2>5. GoodAt(t, e) <=> GoodLine(t, i, e)
    <3>1. \A k \in Nat : LineFrom(t, k, e) => k = i
      BY <2>1, LineBeginsOnce
    <3>2. QED
      BY <2>1, <3>1 DEF GoodAt
  <2>6. line(e) = SubSeq(t, i + 1, e - 1)
    BY <2>1
  <2>7. QED
    BY <2>3, <2>4, <2>5, <2>6 DEF GoodLine
<1> HIDE DEF line, Good
<1>9. ASSUME Request(t) PROVE n - 2 \in LineStarts(t)
  <2>1. /\ j = n - 2 /\ \A e \in ends \ {one, n - 1} : Good(e)
        /\ RequestLineText(line(one)) /\ one # n - 1
    BY <1>1, <1>6, <1>9
  <2>2. one < n - 1
    BY <1>2, <1>3, <1>4, <2>1
  <2>3. j - 1 \in ends
    BY <1>4, <1>5, <2>2 DEF LineFrom
  <2>4. (n - 2) - 1 \in ends /\ n - 2 \in 2..n
    <3>1. 1 <= j - 1
      BY <1>3, <2>3
    <3>2. QED
      BY <2>1, <2>3, <3>1, <1>3, <1>5
  <2>5. ASSUME NEW e \in ends, e < n - 2 PROVE GoodAt(t, e)
    <3>1. e # n - 1
      BY <2>5, <1>3
    <3>2. QED
      BY <2>1, <3>1, <1>7, <1>8
  <2>6. QED
    BY <2>4, <2>5 DEF LineStarts
<1>10. ASSUME n - 2 \in LineStarts(t) PROVE Request(t)
  <2>1. /\ n - 2 \in 2..n /\ (n - 2) - 1 \in ends
        /\ \A e \in ends : e < n - 2 => GoodAt(t, e)
    BY <1>10 DEF LineStarts
  <2>2. (n - 2) - 1 < n - 1 /\ (n - 2) - 1 = n - 3
    BY <1>3
  <2>3. j - 1 \in ends /\ \A f \in ends : f < n - 1 => f <= j - 1
    BY <1>5, <2>1, <2>2 DEF LineFrom
  <2>4. j = n - 2
    <3>1. n - 3 <= j - 1
      BY <2>1, <2>2, <2>3
    <3>2. QED
      BY <3>1, <1>3, <1>5
  <2>5. one # n - 1
    <3>1. one <= n - 3
      BY <1>4, <2>1, <2>2
    <3>2. QED
      BY <3>1, <1>3
  <2>6. ASSUME NEW e \in ends, e # n - 1 PROVE GoodAt(t, e)
    <3>1. e \in Nat /\ e + 1 <= n
      BY <1>3
    <3>2. e < n - 1
      BY <3>1, <2>6, <1>3
    <3>3. e <= j - 1
      BY <2>3, <3>2
    <3>4. e < n - 2
      BY <3>1, <3>3, <2>4, <1>3
    <3>5. QED
      BY <2>1, <3>4
  <2>7. QED
    BY <1>1, <1>2, <1>4, <1>6, <1>7, <1>8, <2>4, <2>5, <2>6
<1>11. QED
  BY <1>9, <1>10

-----------------------------------------------------------------------------
(* What the parser makes of a whole text.                                  *)

\* A run along a text is one along what the text begins with.
LEMMA RunOfFirst ==
    ASSUME NEW t \in Seq(Chars), NEW p, NEW q, Runs(q, p, t), NEW k \in 0..Len(t)
    PROVE  /\ SubSeq(t, 1, k) \in Seq(Chars) /\ Len(SubSeq(t, 1, k)) = k
           /\ \A m \in 1..k : SubSeq(t, 1, k)[m] = t[m]
           /\ Runs([i \in 0..k |-> q[i]], p, SubSeq(t, 1, k))
<1> DEFINE s == SubSeq(t, 1, k)
           r == [i \in 0..k |-> q[i]]
<1>0. Len(t) \in Nat /\ k \in Nat /\ k <= Len(t)
  OBVIOUS
<1>1. s \in Seq(Chars) /\ Len(s) = k /\ \A m \in 1..k : s[m] = t[m]
  BY <1>0
<1> HIDE DEF s
<1>2. /\ q \in [0..Len(t) -> Parsers] /\ q[0] = p
      /\ \A i \in 0..Len(t) - 1 : q[i + 1] = Took(q[i], t[i + 1])
  BY DEF Runs
<1>3. \A i \in 0..k : i \in 0..Len(t)
  BY <1>0
<1>4. r \in [0..k -> Parsers]
  BY <1>2, <1>3
<1>5. r[0] = p
  BY <1>0, <1>2
<1>6. ASSUME NEW i \in 0..k - 1 PROVE r[i + 1] = Took(r[i], s[i + 1])
  <2>1. i \in 0..Len(t) - 1 /\ i \in 0..k /\ i + 1 \in 0..k /\ i + 1 \in 1..k
    BY <1>0
  <2>2. QED
    BY <1>1, <1>2, <2>1
<1> HIDE DEF r
<1>7. Runs(r, p, s)
  BY <1>1, <1>4, <1>5, <1>6 DEF Runs
<1>8. QED
  BY <1>1, <1>7 DEF r, s

\* A character makes a text one that the parser accepts when it ends a request.
LEMMA EndsRequest ==
    ASSUME NEW t \in Seq(Chars), NEW q, Runs(q, Start, t), NEW k \in 1..Len(t)
    PROVE  q[k].state = "true" <=> q[k - 1].state = "true" \/ Request(SubSeq(t, 1, k))
<1> DEFINE s == SubSeq(t, 1, k)
           r == [i \in 0..k |-> q[i]]
<1>0. Len(t) \in Nat /\ k \in Nat /\ k <= Len(t) /\ k \in 0..Len(t) /\ k - 1 \in 0..Len(t) - 1
      /\ k - 1 \in 0..Len(t) /\ (k - 1) + 1 = k /\ 1 <= k /\ (k - 1) - 1 = k - 2
  OBVIOUS
<1>1. s \in Seq(Chars) /\ Len(s) = k /\ (\A m \in 1..k : s[m] = t[m]) /\ Runs(r, Start, s)
  BY <1>0, RunOfFirst
<1> HIDE DEF s
<1>2. /\ q \in [0..Len(t) -> Parsers] /\ q[0] = Start
      /\ \A i \in 0..Len(t) - 1 : q[i + 1] = Took(q[i], t[i + 1])
  BY DEF Runs
<1>3. \A m \in 1..Len(t) : t[m] \in Chars
  OBVIOUS
<1>4. q[k].state = "true" <=>
        q[k - 1].state = "true" \/ (q[k - 1].state = "expecting_newline_3" /\ t[k] \in {"\n"})
  <2>1. q[k] = Took(q[k - 1], t[k]) /\ q[k - 1] \in Parsers /\ t[k] \in Chars
    BY <1>0, <1>2, <1>3
  <2>2. q[k].state = "true" <=> q[k - 1].state = "true" \/ Goes(q[k - 1], t[k], "true")
    BY <2>1, StateAfter
  <2>3. Goes(q[k - 1], t[k], "true") <=>
          q[k - 1].state = "expecting_newline_3" /\ t[k] \in {"\n"}
    BY Arrivals
  <2>4. QED
    BY <2>2, <2>3
<1>5. q[k - 1].state = "expecting_newline_3" <=>
        k - 1 \in 1..Len(t) /\ t[k - 1] \in {"\r"} /\ q[k - 2].state = "header_line_start"
  <2>1. CASE k = 1
    <3>1. q[k - 1].state = "method_start" /\ k - 1 \notin 1..Len(t)
      BY <1>2, <2>1 DEF Start
    <3>2. QED
      BY <3>1
  <2>2. CASE k # 1
    <3>1. /\ k - 2 \in 0..Len(t) - 1 /\ k - 2 \in 0..Len(t)
          /\ (k - 2) + 1 = k - 1 /\ k - 1 \in 1..Len(t)
      BY <1>0, <2>2
    <3>2. q[k - 1] = Took(q[k - 2], t[k - 1]) /\ q[k - 2] \in Parsers /\ t[k - 1] \in Chars
      BY <1>2, <1>3, <3>1
    <3>3. "expecting_newline_3" \in Sources
      BY DEF Sources
    <3>4. q[k - 1].state = "expecting_newline_3" <=> Goes(q[k - 2], t[k - 1], "expecting_newline_3")
      BY <3>2, <3>3, StateAfter
    <3>5. Goes(q[k - 2], t[k - 1], "expecting_newline_3") <=>
            q[k - 2].state = "header_line_start" /\ t[k - 1] \in {"\r"}
      BY Arrivals
    <3>6. QED
      BY <3>1, <3>4, <3>5
  <2>3. QED
    BY <2>1, <2>2
<1>6. ASSUME k - 1 \in 1..Len(t)
      PROVE  q[k - 2].state = "header_line_start" <=> k - 2 \in LineStarts(s)
  <2>1. k - 2 \in 0..k
    BY <1>0, <1>6
  <2>2. LinesBegin(s, LineStarts(s), MoreStarts(s))
    BY <1>1, LinesDoBegin
  <2>3. \A i \in 0..Len(s) : ReadSofar(r[i], s, i, LineStarts(s), MoreStarts(s))
    <3> HIDE DEF r
    <3>1. QED
      BY <1>1, <2>2, ReadsAll
  <2>4. r[k - 2] = q[k - 2]
    BY <2>1
  <2>5. ReadSofar(q[k - 2], s, k - 2, LineStarts(s), MoreStarts(s))
    <3> HIDE DEF r
    <3>1. QED
      BY <2>1, <2>3, <2>4, <1>1
  <2>6. QED
    BY <2>5 DEF ReadSofar
<1>7. k - 1 \in LineEnds(s) <=> k - 1 \in 1..Len(t) /\ t[k - 1] = "\r" /\ t[k] = "\n"
  <2>1. k - 1 \in LineEnds(s) <=> k - 1 \in 1..k - 1 /\ s[k - 1] = "\r" /\ s[k] = "\n"
    BY <1>0, <1>1 DEF LineEnds
  <2>2. k - 1 \in 1..k - 1 <=> k - 1 \in 1..Len(t)
    BY <1>0
  <2>3. k - 1 \in 1..k - 1 => s[k - 1] = t[k - 1]
    <3>1. k - 1 \in 1..k - 1 => k - 1 \in 1..k
      BY <1>0
    <3>2. QED
      BY <3>1, <1>1
  <2>4. s[k] = t[k]
    <3>1. k \in 1..k
      BY <1>0
    <3>2. QED
      BY <3>1, <1>1
  <2>5. QED
    BY <2>1, <2>2, <2>3, <2>4
<1>8. Request(s) <=> k - 1 \in LineEnds(s) /\ k - 2 \in LineStarts(s)
  BY <1>1, RequestByStarts
<1>9. Request(s) <=> q[k - 1].state = "expecting_newline_3" /\ t[k] \in {"\n"}
  BY <1>5, <1>6, <1>7, <1>8
<1>10. QED
  BY <1>4, <1>9 DEF s

\* Parse accepts a text when it begins with a request.
THEOREM AcceptsRequests ==
    ASSUME NEW t \in Seq(Chars)
    PROVE  Parse(Start, t).state = "true" <=> \E s \in Prefixes(t) : Request(s)
<1>0. Len(t) \in Nat
  OBVIOUS
<1>1. Start \in Parsers
  <2>1. "method_start" \in States /\ << >> \in Seq(Chars) /\ 0 \in Nat
    BY DEF States, Sources
  <2>2. QED
    BY <2>1, Zenon DEF Start, Parsers
<1>2. PICK q : Runs(q, Start, t) /\ Parse(Start, t) = q[Len(t)]
  BY <1>1, ParseRuns
<1> DEFINE Has(k) == \E l \in 1..k : Request(SubSeq(t, 1, l))
           S == {k \in Nat : k <= Len(t) => (q[k].state = "true" <=> Has(k))}
<1>3. 0 \in S
  <2>1. q[0].state = "method_start"
    BY <1>2 DEF Runs, Start
  <2>2. 1..0 = {}
    OBVIOUS
  <2>3. QED
    BY <2>1, <2>2
<1>4. ASSUME NEW k \in S PROVE k + 1 \in S
  <2>1. k \in Nat /\ (k <= Len(t) => (q[k].state = "true" <=> Has(k)))
    OBVIOUS
  <2> HIDE DEF Has
  <2> SUFFICES ASSUME k + 1 <= Len(t) PROVE q[k + 1].state = "true" <=> Has(k + 1)
    BY <2>1
  <2>2. q[k].state = "true" <=> Has(k)
    BY <2>1, <1>0
  <2>3. q[k + 1].state = "true" <=> q[k].state = "true" \/ Request(SubSeq(t, 1, k + 1))
    <3>1. k + 1 \in 1..Len(t) /\ (k + 1) - 1 = k
      BY <2>1, <1>0
    <3>2. q[k + 1].state = "true" <=> q[(k + 1) - 1].state = "true" \/ Request(SubSeq(t, 1, k + 1))
      BY <3>1, <1>2, EndsRequest
    <3>3. QED
      BY <3>1, <3>2
  <2>4. Has(k + 1) <=> Has(k) \/ Request(SubSeq(t, 1, k + 1))
    <3>1. \A l : l \in 1..k + 1 <=> l \in 1..k \/ l = k + 1
      BY <2>1
    <3>2. QED
      BY <3>1 DEF Has
  <2>5. QED
    BY <2>2, <2>3, <2>4
<1> HIDE DEF S
<1>5. S = Nat
  <2>1. S \subseteq Nat
    BY DEF S
  <2>2. QED
    BY <2>1, <1>3, <1>4, SetInduction
<1>6. q[Len(t)].state = "true" <=> Has(Len(t))
  <2>1. Len(t) \in S
    BY <1>0, <1>5
  <2>2. QED
    BY <2>1, <1>0 DEF S
<1>7. Has(Len(t)) <=> \E s \in Prefixes(t) : Request(s)
  <2>1. ~Request(SubSeq(t, 1, 0))
    <3>1. SubSeq(t, 1, 0) = << >> /\ << >> \in Seq(Chars) /\ Len(<< >>) = 0
      OBVIOUS
    <3>2. LineEnds(<< >>) = {}
      BY <3>1 DEF LineEnds
    <3>3. QED
      BY <3>1, <3>2, RequestByStarts
  <2>2. \A l : l \in 0..Len(t) <=> l = 0 \/ l \in 1..Len(t)
    BY <1>0
  <2>3. QED
    BY <2>1, <2>2 DEF Prefixes
<1>8. QED
  BY <1>2, <1>6, <1>7

\* Parse goes on where it stopped.
LEMMA ParseGoesOn ==
    ASSUME NEW p \in Parsers, NEW a \in Seq(Chars), NEW b \in Seq(Chars)
    PROVE  /\ Parse(p, a) \in Parsers
           /\ Parse(Parse(p, a), b) = Parse(p, a \o b)
<1> DEFINE m == Len(a)   n == Len(b)
<1>1. PICK q : Runs(q, p, a) /\ Parse(p, a) = q[m]
  BY ParseRuns
<1>2. m \in Nat /\ n \in Nat /\ a \o b \in Seq(Chars) /\ Len(a \o b) = m + n
      /\ (\A i \in 1..m : (a \o b)[i] = a[i]) /\ \A i \in 1..n : (a \o b)[m + i] = b[i]
  BY Concatenation
<1>3. /\ q \in [0..m -> Parsers] /\ q[0] = p /\ \A k \in 0..m - 1 : q[k + 1] = Took(q[k], a[k + 1])
  BY <1>1 DEF Runs
<1>4. q[m] \in Parsers
  BY <1>2, <1>3
<1>5. PICK r : Runs(r, q[m], b) /\ Parse(q[m], b) = r[n]
  BY <1>4, ParseRuns
<1>6. r[0] = q[m] /\ \A k \in 0..n - 1 : r[k + 1] = Took(r[k], b[k + 1])
  BY <1>5 DEF Runs
<1> HIDE DEF m, n
<1> DEFINE w == [k \in 0..m + n |-> IF k <= m THEN q[k] ELSE r[k - m]]
           ab == a \o b
<1>7. w[0] = p
  BY <1>2, <1>3
<1>8. ASSUME NEW k \in 0..(m + n) - 1 PROVE w[k + 1] = Took(w[k], ab[k + 1])
  <2>1. k \in 0..m + n /\ k + 1 \in 0..m + n /\ k \in Nat
    BY <1>2
  <2>2. CASE k < m
    <3>1. k \in 0..m - 1 /\ k + 1 \in 1..m /\ k <= m /\ k + 1 <= m
      BY <1>2, <2>1, <2>2
    <3>2. w[k] = q[k] /\ w[k + 1] = q[k + 1]
      BY <2>1, <3>1
    <3>3. ab[k + 1] = a[k + 1]
      BY <1>2, <3>1
    <3>4. QED
      BY <1>3, <3>1, <3>2, <3>3
  <2>3. CASE ~(k < m)
    <3>1. k - m \in 0..n - 1 /\ (k + 1) - m = (k - m) + 1 /\ ~(k + 1 <= m) /\ (k <= m <=> k = m)
          /\ k + 1 = m + ((k - m) + 1) /\ (k - m) + 1 \in 1..n /\ (k = m => k - m = 0)
      <4>1. m \in Nat /\ n \in Nat
        BY <1>2
      <4>2. QED
        BY <4>1, <2>1, <2>3
    <3>2. w[k] = r[k - m]
      BY <2>1, <3>1, <1>6
    <3>3. w[k + 1] = r[(k - m) + 1]
      BY <2>1, <3>1
    <3>4. ab[k + 1] = b[(k - m) + 1]
      <4>1. \A i \in 1..n : ab[m + i] = b[i]
        BY <1>2
      <4> DEFINE x == (k - m) + 1
      <4>2. x \in 1..n /\ k + 1 = m + x
        BY <3>1
      <4> HIDE DEF ab, x
      <4>3. ab[k + 1] = b[x]
        BY <4>1, <4>2
      <4>4. QED
        BY <4>3 DEF x
    <3>5. QED
      BY <1>6, <3>1, <3>2, <3>3, <3>4
  <2>4. QED
    BY <2>2, <2>3
<1>9. Follows(w, p, ab, m + n)
  <2> HIDE DEF w, ab
  <2>1. QED
    BY <1>7, <1>8, Zenon DEF Follows
<1>10. w[m + n] = r[n]
  <2>1. CASE n = 0
    <3>1. m + n \in 0..m + n /\ m + n <= m /\ m + n = m
      BY <1>2, <2>1
    <3>2. QED
      BY <3>1, <2>1, <1>6
  <2>2. CASE n # 0
    <3>1. m + n \in 0..m + n /\ ~(m + n <= m) /\ (m + n) - m = n
      BY <1>2, <2>2
    <3>2. QED
      BY <3>1
  <2>3. QED
    BY <2>1, <2>2
<1> HIDE DEF w, ab
<1>11. Parse(p, ab) = w[m + n]
  <2>1. ab \in Seq(Chars) /\ Len(ab) = m + n
    BY <1>2 DEF ab
  <2>2. QED
    BY <2>1, <1>9, RunEnds
<1>12. QED
  BY <1>1, <1>4, <1>5, <1>10, <1>11 DEF m, n, ab

-----------------------------------------------------------------------------
(* The numbers of an url: stringToInt wraps around, and is right where an int holds them. *)

\* The width of int: all of it, and the half of it that is not negative.
Whole == 2^IntBits
Half  == 2^(IntBits - 1)

\* The half of it is a half.
LEMMA Widths == Half \in Nat \ {0} /\ Whole = 2 * Half
<1>1. IntBits - 1 \in Nat /\ (IntBits - 1) + 1 = IntBits
  BY UrlAssumption
<1>2. QED
  BY <1>1, PowerDoubles, PowerPositive DEF Half, Whole

\* Two numbers that an int cannot tell apart.
Congruent(a, b) == \E q \in Int : a = b + Whole * q
InInt(a) == a \in -Half..Half - 1

\* Wrap makes an int that it cannot tell apart from the number.
LEMMA WrapIsCongruent ==
    ASSUME NEW i \in Int
    PROVE  Wrap(i) \in Int /\ InInt(Wrap(i)) /\ Congruent(Wrap(i), i)
<1> DEFINE m == i % Whole   k == i \div Whole
<1>0. Half \in Nat \ {0} /\ Whole = 2 * Half /\ Whole \in Nat \ {0}
  BY Widths
<1> HIDE DEF Whole, Half
<1>1. m \in 0..Whole - 1 /\ k \in Int /\ i = Whole * k + m
  <2>1. Whole \in Int /\ Whole > 0
    BY <1>0
  <2>2. QED
    BY <2>1, Division
<1>2. Wrap(i) = IF m >= Half THEN m - Whole ELSE m
  BY DEF Wrap, Whole, Half
<1> HIDE DEF m, k
<1>3. CASE m >= Half
  <2>1. Wrap(i) = m - Whole
    BY <1>2, <1>3
  <2>2. m - Whole = i + Whole * (-k - 1)
    BY <1>0, <1>1
  <2>3. -k - 1 \in Int
    BY <1>1
  <2>4. Congruent(Wrap(i), i)
    BY <2>1, <2>2, <2>3 DEF Congruent
  <2>5. Wrap(i) \in Int /\ InInt(Wrap(i))
    BY <2>1, <1>0, <1>1, <1>3 DEF InInt
  <2>6. QED
    BY <2>4, <2>5
<1>4. CASE m < Half
  <2>1. Wrap(i) = m
    BY <1>2, <1>4, <1>0, <1>1
  <2>2. m = i + Whole * (-k)
    BY <1>0, <1>1
  <2>3. -k \in Int
    BY <1>1
  <2>4. Congruent(Wrap(i), i)
    BY <2>1, <2>2, <2>3 DEF Congruent
  <2>5. Wrap(i) \in Int /\ InInt(Wrap(i))
    BY <2>1, <1>0, <1>1, <1>4 DEF InInt
  <2>6. QED
    BY <2>4, <2>5
<1>5. QED
  BY <1>3, <1>4, <1>0, <1>1

\* Numbers of an int that it cannot tell apart are the same.
LEMMA CongruentInInt ==
    ASSUME NEW a \in Int, NEW b \in Int, InInt(a), InInt(b), Congruent(a, b)
    PROVE  a = b
<1>0. Half \in Nat \ {0} /\ Whole = 2 * Half /\ Whole \in Nat \ {0}
  BY Widths
<1> HIDE DEF Whole, Half
<1>1. PICK q \in Int : a = b + Whole * q
  BY DEF Congruent
<1>2. a - b < Whole /\ b - a < Whole
  BY <1>0 DEF InInt
<1>3. CASE q >= 1
  <2>1. Whole * q = Whole + Whole * (q - 1) /\ Whole * (q - 1) >= 0
    BY <1>0, <1>3
  <2>2. QED
    BY <2>1, <1>1, <1>2, <1>0
<1>4. CASE q <= -1
  <2>1. Whole * q = -Whole - Whole * (-q - 1) /\ Whole * (-q - 1) >= 0
    BY <1>0, <1>4
  <2>2. QED
    BY <2>1, <1>1, <1>2, <1>0
<1>5. CASE q = 0
  BY <1>5, <1>1, <1>0
<1>6. QED
  BY <1>3, <1>4, <1>5

\* Congruence goes through a sign, and through one more digit.
LEMMA CongruentMinus ==
    ASSUME NEW a \in Int, NEW b \in Int, Congruent(a, b)
    PROVE  Congruent(-a, -b)
<1>0. Whole \in Nat \ {0}
  BY Widths
<1> HIDE DEF Whole
<1>1. PICK q \in Int : a = b + Whole * q
  BY DEF Congruent
<1>2. -a = -b + Whole * (-q) /\ -q \in Int
  BY <1>1, <1>0
<1>3. QED
  BY <1>2 DEF Congruent

\* It goes on from one number to the next.
LEMMA CongruentTrans ==
    ASSUME NEW a \in Int, NEW b \in Int, NEW c \in Int, Congruent(a, b), Congruent(b, c)
    PROVE  Congruent(a, c)
<1>0. Whole \in Nat \ {0}
  BY Widths
<1> HIDE DEF Whole
<1>1. PICK q \in Int : a = b + Whole * q
  BY DEF Congruent
<1>2. PICK r \in Int : b = c + Whole * r
  BY DEF Congruent
<1>3. a = c + Whole * (q + r) /\ q + r \in Int
  BY <1>1, <1>2, <1>0
<1>4. QED
  BY <1>3 DEF Congruent

\* It stays with one more digit on both sides.
LEMMA CongruentDigit ==
    ASSUME NEW a \in Int, NEW b \in Int, NEW d \in Int, Congruent(a, b)
    PROVE  Congruent(a * 10 + d, b * 10 + d)
<1>0. Whole \in Nat \ {0}
  BY Widths
<1> HIDE DEF Whole
<1>1. PICK q \in Int : a = b + Whole * q
  BY DEF Congruent
<1>2. a * 10 + d = (b * 10 + d) + Whole * (q * 10) /\ q * 10 \in Int
  BY <1>1, <1>0
<1>3. QED
  BY <1>2 DEF Congruent

\* A digit stands for one of the ten numbers.
LEMMA ValueType == \A d \in Digits : Value(d) \in 0..9
  BY DEF Digits, Value

\* The two numbers that are made of digits, as far as they are read.
LEMMA DigitsRead ==
    ASSUME NEW text \in Seq(Digits)
    PROVE  LET w == FoldLeft(LAMBDA v, d : Wrap(v * 10 + Value(d)), 0, text)
               u == FoldLeft(LAMBDA v, d : v * 10 + Value(d), 0, text)
           IN  w \in Int /\ u \in Int /\ InInt(w) /\ Congruent(w, u)
<1> DEFINE n == Len(text)
           W == CHOOSE iter : iter = [s \in SUBSET DOMAIN text |->
                  IF s = {} THEN 0 ELSE Wrap(iter[s \ {Max(s)}] * 10 + Value(text[Max(s)]))]
           U == CHOOSE iter : iter = [s \in SUBSET DOMAIN text |->
                  IF s = {} THEN 0 ELSE iter[s \ {Max(s)}] * 10 + Value(text[Max(s)])]
<1>0. n \in Nat /\ DOMAIN text = 1..n /\ \A i \in 1..n : Value(text[i]) \in 0..9
  BY ValueType
<1>1. FoldLeft(LAMBDA v, d : Wrap(v * 10 + Value(d)), 0, text) = W[1..n]
  BY <1>0 DEF FoldLeft, MapThenFoldSet
<1>2. FoldLeft(LAMBDA v, d : v * 10 + Value(d), 0, text) = U[1..n]
  BY <1>0 DEF FoldLeft, MapThenFoldSet
<1>3. W = [s \in SUBSET (1..n) |->
             IF s = {} THEN 0 ELSE Wrap(W[s \ {Max(s)}] * 10 + Value(text[Max(s)]))]
  <2> DEFINE step == [p \in Int \X (1..n) |-> Wrap(p[1] * 10 + Value(text[p[2]]))]
  <2>1. step \in [Int \X (1..n) -> Int]
    <3>1. ASSUME NEW p \in Int \X (1..n) PROVE Wrap(p[1] * 10 + Value(text[p[2]])) \in Int
      <4>1. p[1] \in Int /\ Value(text[p[2]]) \in 0..9
        BY <1>0
      <4>2. p[1] * 10 + Value(text[p[2]]) \in Int
        BY <4>1
      <4>3. QED
        BY <4>2, WrapIsCongruent
    <3>2. QED
      BY <3>1
  <2>2. PICK it \in [SUBSET (1..n) -> Int] : FoldsBy(it, n, 0, step)
    <3> HIDE DEF step, n
    <3>1. n \in Nat /\ 0 \in Int
      BY <1>0
    <3>2. QED
      BY <3>1, <2>1, FoldExists
  <2>3. ASSUME NEW s \in SUBSET (1..n), s # {}
        PROVE  step[<<it[s \ {Max(s)}], Max(s)>>]
                 = Wrap(it[s \ {Max(s)}] * 10 + Value(text[Max(s)]))
    BY <2>3, <1>0, MaxOfSome
  <2> HIDE DEF step
  <2>4. it = [s \in SUBSET (1..n) |->
                IF s = {} THEN 0 ELSE Wrap(it[s \ {Max(s)}] * 10 + Value(text[Max(s)]))]
    BY <2>2, <2>3 DEF FoldsBy
  <2>5. QED
    BY <2>4, <1>0
<1>4. U = [s \in SUBSET (1..n) |->
             IF s = {} THEN 0 ELSE U[s \ {Max(s)}] * 10 + Value(text[Max(s)])]
  <2> DEFINE step == [p \in Int \X (1..n) |-> p[1] * 10 + Value(text[p[2]])]
  <2>1. step \in [Int \X (1..n) -> Int]
    BY <1>0
  <2>2. PICK it \in [SUBSET (1..n) -> Int] : FoldsBy(it, n, 0, step)
    <3> HIDE DEF step, n
    <3>1. n \in Nat /\ 0 \in Int
      BY <1>0
    <3>2. QED
      BY <3>1, <2>1, FoldExists
  <2>3. ASSUME NEW s \in SUBSET (1..n), s # {}
        PROVE  step[<<it[s \ {Max(s)}], Max(s)>>]
                 = it[s \ {Max(s)}] * 10 + Value(text[Max(s)])
    BY <2>3, <1>0, MaxOfSome
  <2> HIDE DEF step
  <2>4. it = [s \in SUBSET (1..n) |->
                IF s = {} THEN 0 ELSE it[s \ {Max(s)}] * 10 + Value(text[Max(s)])]
    BY <2>2, <2>3 DEF FoldsBy
  <2>5. QED
    BY <2>4, <1>0
<1> HIDE DEF W, U
<1> DEFINE Good(k) == /\ W[1..k] \in Int /\ U[1..k] \in Int
                      /\ InInt(W[1..k]) /\ Congruent(W[1..k], U[1..k])
           S == {k \in Nat : k <= n => Good(k)}
<1>5. 0 \in S
  <2>1. 1..0 = {}
    OBVIOUS
  <2>2. W[1..0] = 0 /\ U[1..0] = 0
    BY <2>1, <1>3, <1>4
  <2>3. InInt(0) /\ Congruent(0, 0)
    <3>1. 0 = 0 + Whole * 0
      BY Widths
    <3>2. QED
      BY <3>1, Widths DEF InInt, Congruent
  <2>4. QED
    BY <2>2, <2>3
<1>6. ASSUME NEW k \in S PROVE k + 1 \in S
  <2>0. k \in Nat /\ (k <= n => Good(k))
    OBVIOUS
  <2> HIDE DEF Good
  <2> SUFFICES ASSUME k + 1 <= n PROVE Good(k + 1)
    BY <2>0
  <2>1. k <= n /\ k + 1 \in 1..n /\ Good(k)
    BY <2>0, <1>0
  <2>2. 1..k + 1 \in SUBSET (1..n) /\ 1..k + 1 # {} /\ Max(1..k + 1) = k + 1
    <3> HIDE DEF n
    <3>1. n \in Nat
      BY <1>0
    <3>2. QED
      BY <2>0, <3>1, NextPlace
  <2>3. (1..k + 1) \ {k + 1} = 1..k
    BY <2>0
  <2>4. W[1..k + 1] = Wrap(W[1..k] * 10 + Value(text[k + 1]))
    BY <2>2, <2>3, <1>3
  <2>5. U[1..k + 1] = U[1..k] * 10 + Value(text[k + 1])
    BY <2>2, <2>3, <1>4
  <2> DEFINE w == W[1..k]   u == U[1..k]   d == Value(text[k + 1])
  <2>6. w \in Int /\ u \in Int /\ d \in Int /\ Congruent(w, u)
    BY <2>1, <1>0 DEF Good
  <2> HIDE DEF w, u, d
  <2>7. w * 10 + d \in Int /\ u * 10 + d \in Int
    BY <2>6
  <2>8. Congruent(w * 10 + d, u * 10 + d)
    BY <2>6, CongruentDigit
  <2>9. /\ Wrap(w * 10 + d) \in Int /\ InInt(Wrap(w * 10 + d))
        /\ Congruent(Wrap(w * 10 + d), w * 10 + d)
    BY <2>7, WrapIsCongruent
  <2>10. Congruent(Wrap(w * 10 + d), u * 10 + d)
    BY <2>7, <2>8, <2>9, CongruentTrans
  <2>11. QED
    BY <2>4, <2>5, <2>7, <2>9, <2>10 DEF Good, w, u, d
<1> HIDE DEF S
<1>7. S = Nat
  <2>1. S \subseteq Nat
    BY DEF S
  <2>2. QED
    BY <1>5, <1>6, <2>1, SetInduction
<1>8. n \in S /\ n <= n
  BY <1>0, <1>7
<1>9. Good(n)
  BY <1>8 DEF S
<1>10. QED
  BY <1>9, <1>1, <1>2

\* What is left of a number without its sign is digits, and the number is in an int.
LEMMA NumberIsInt ==
    ASSUME NEW text \in Seq(STRING), IsInt(text)
    PROVE  Unsigned(text) \in Seq(Digits) /\ stringToInt(text) \in Int
<1> DEFINE un == Unsigned(text)
           w == FoldLeft(LAMBDA v, d : Wrap(v * 10 + Value(d)), 0, un)
<1>1. un \in Seq(Digits)
  <2>1. un \in Seq(STRING)
    <3>1. text # << >> => Tail(text) \in Seq(STRING)
      OBVIOUS
    <3>2. QED
      BY <3>1 DEF Unsigned
  <2>2. \A i \in 1..Len(un) : un[i] \in Digits
    BY <2>1 DEF IsInt
  <2>3. QED
    BY <2>1, <2>2
<1>2. w \in Int
  <2> HIDE DEF un
  <2>1. QED
    BY <1>1, DigitsRead
<1>3. stringToInt(text) = IF un = text THEN w ELSE Wrap(-w)
  BY DEF stringToInt
<1> HIDE DEF w, un
<1>4. Wrap(-w) \in Int
  BY <1>2, WrapIsCongruent
<1>5. QED
  BY <1>1, <1>2, <1>3, <1>4 DEF un

\* A number is what its text spells when that fits into an int.
LEMMA NumberIsSpelled ==
    ASSUME NEW text \in Seq(STRING), IsInt(text), Fits(text)
    PROVE  stringToInt(text) = Spelled(text)
<1> DEFINE un == Unsigned(text)
           w == FoldLeft(LAMBDA v, d : Wrap(v * 10 + Value(d)), 0, un)
           u == FoldLeft(LAMBDA v, d : v * 10 + Value(d), 0, un)
<1>1. un \in Seq(Digits)
  BY NumberIsInt
<1>2. w \in Int /\ u \in Int /\ InInt(w) /\ Congruent(w, u)
  <2> HIDE DEF un
  <2>1. QED
    BY <1>1, DigitsRead
<1>3. stringToInt(text) = IF un = text THEN w ELSE Wrap(-w)
  BY DEF stringToInt
<1>4. Spelled(text) = IF un = text THEN u ELSE -u
  BY DEF Spelled
<1> HIDE DEF w, u, un
<1>5. Spelled(text) \in Int /\ InInt(Spelled(text))
  <2>1. Spelled(text) \in Int
    BY <1>2, <1>4
  <2>2. QED
    BY <2>1 DEF Fits, InInt, Half
<1>6. CASE un = text
  <2>1. stringToInt(text) = w /\ Spelled(text) = u
    BY <1>3, <1>4, <1>6
  <2>2. QED
    BY <2>1, <1>2, <1>5, CongruentInInt
<1>7. CASE un # text
  <2>1. stringToInt(text) = Wrap(-w) /\ Spelled(text) = -u
    BY <1>3, <1>4, <1>7
  <2>2. Congruent(-w, -u) /\ -w \in Int /\ -u \in Int
    BY <1>2, CongruentMinus
  <2>3. Wrap(-w) \in Int /\ InInt(Wrap(-w)) /\ Congruent(Wrap(-w), -w)
    BY <2>2, WrapIsCongruent
  <2>4. Congruent(Wrap(-w), -u)
    BY <2>2, <2>3, CongruentTrans
  <2>5. QED
    BY <2>1, <2>2, <2>3, <2>4, <1>5, CongruentInInt
<1>8. QED
  BY <1>6, <1>7

\* The parts of a url that is long enough are texts.
LEMMA PartsAreTexts ==
    ASSUME NEW parts \in Seq(Seq(Seq(STRING)))
    PROVE  /\ Len(parts) \in Nat
           /\ Last(parts) = parts[Len(parts)]
           /\ \A i \in 1..Len(parts) :
                /\ parts[i] \in Seq(Seq(STRING)) /\ Len(parts[i]) \in Nat
                /\ \A j \in 1..Len(parts[i]) : parts[i][j] \in Seq(STRING)
           /\ NumbersFit(parts) => \A i \in 1..Len(parts) : \A j \in 1..Len(parts[i]) :
                                     Fits(parts[i][j])
<1>1. \A i \in 1..Len(parts) :
        /\ parts[i] \in Seq(Seq(STRING)) /\ Len(parts[i]) \in Nat
        /\ DOMAIN parts[i] = 1..Len(parts[i])
        /\ \A j \in 1..Len(parts[i]) : parts[i][j] \in Seq(STRING)
  OBVIOUS
<1>2. Len(parts) \in Nat /\ DOMAIN parts = 1..Len(parts)
  OBVIOUS
<1>3. Last(parts) = parts[Len(parts)]
  BY DEF Last
<1>4. QED
  BY <1>1, <1>2, <1>3 DEF NumbersFit

\* What makes a url one of a tile, told from its last three parts.
Named(z, x, last) ==
    /\ Len(last) >= 2 /\ Lower(last[2]) \in {<<"png">>, <<"svg">>}
    /\ PartIsInt(z) /\ stringToInt(z[1]) \in 0..MaxZoom
    /\ IsInt(last[1]) /\ InRange(stringToInt(last[1]), stringToInt(z[1]))
    /\ PartIsInt(x) /\ InRange(stringToInt(x[1]), stringToInt(z[1]))

\* A url that is accepted makes the tile of these parts; and an error is no tile.
LEMMA CreateCases ==
    ASSUME NEW parts \in Seq(Seq(Seq(STRING))), NEW styles, NEW default
    PROVE  LET n == Len(parts)
               made == Create(parts, styles, default)
               named == n >= 4 /\ Named(parts[n - 2], parts[n - 1], parts[n])
           IN  /\ made \in UrlErrors <=> ~named
               /\ made \notin UrlErrors =>
                    made = [x |-> stringToInt(parts[n - 1][1]), y |-> stringToInt(parts[n][1]),
                            zoom |-> stringToInt(parts[n - 2][1]),
                            format |-> Lower(parts[n][2])[1],
                            style |-> StylesheetPath(parts, styles, default)]
<1> DEFINE n == Len(parts)
           made == Create(parts, styles, default)
           last == parts[n]
           z == stringToInt(parts[n - 2][1])
           x == stringToInt(parts[n - 1][1])
           y == stringToInt(last[1])
           named == n >= 4 /\ Named(parts[n - 2], parts[n - 1], last)
           new == [x |-> x, y |-> y, zoom |-> z, format |-> Lower(last[2])[1],
                   style |-> StylesheetPath(parts, styles, default)]
<1>1. n \in Nat /\ Last(parts) = last
  BY PartsAreTexts
<1>2. CASE named
  <2>1. n >= 4 /\ Named(parts[n - 2], parts[n - 1], last)
    BY <1>2
  <2>2. ~(Len(parts) < 4) /\ (n >= 4 => Len(parts[n]) \in Nat)
    BY <2>1, <1>1, PartsAreTexts
  <2>3. made = new
    BY <2>1, <2>2, <1>1 DEF Create, Named
  <2>4. new \notin UrlErrors
    BY DEF UrlErrors, Malformed, UnknownImageFormat
  <2>5. QED
    BY <1>2, <2>3, <2>4
<1>3. CASE ~named
  <2>2. n >= 4 => Len(parts[n]) \in Nat
    BY <1>1, PartsAreTexts
  <2>3. made \in UrlErrors
    <3> DEFINE short == n < 4 \/ Len(last) < 2
               noFormat == Lower(last[2]) \notin {<<"png">>, <<"svg">>}
               noZoom == ~PartIsInt(parts[n - 2]) \/ z \notin 0..MaxZoom
               noY == ~IsInt(last[1]) \/ ~InRange(y, z)
               noX == ~PartIsInt(parts[n - 1]) \/ ~InRange(x, z)
    <3>1. made = CASE short -> Malformed [] noFormat -> UnknownImageFormat
                   [] noZoom -> Malformed [] noY -> Malformed [] noX -> Malformed
                   [] OTHER -> new
      BY <1>1 DEF Create
    <3>2. short \/ noFormat \/ noZoom \/ noY \/ noX
      <4>1. CASE n >= 4
        BY <1>3, <2>2, <4>1 DEF Named
      <4>2. CASE n < 4
        BY <4>2
      <4>3. QED
        BY <4>1, <4>2, <1>1
    <3> HIDE DEF short, noFormat, noZoom, noY, noX, new, made
    <3>3. QED
      BY <3>1, <3>2 DEF UrlErrors
  <2>4. QED
    BY <1>3, <2>3
<1>4. QED
  BY <1>2, <1>3

\* With numbers that fit, the url of a tile spells it, and the url of none spells none.
LEMMA UrlSpells ==
    ASSUME NEW parts \in Seq(Seq(Seq(STRING))), NEW styles, NEW default, NumbersFit(parts),
           NEW made, made = Create(parts, styles, default)
    PROVE  /\ made \notin UrlErrors => Spells(parts, made)
           /\ made \in UrlErrors => \A t \in Tiles : ~Spells(parts, t)
<1> DEFINE n == Len(parts)
           last == parts[n]
           named == n >= 4 /\ Named(parts[n - 2], parts[n - 1], last)
<1>1. /\ made \in UrlErrors <=> ~named
      /\ made \notin UrlErrors =>
           /\ made.x = stringToInt(parts[n - 1][1]) /\ made.y = stringToInt(last[1])
           /\ made.zoom = stringToInt(parts[n - 2][1]) /\ made.format = Lower(last[2])[1]
  <2>1. /\ made \in UrlErrors <=> ~named
        /\ made \notin UrlErrors =>
             made = [x |-> stringToInt(parts[n - 1][1]), y |-> stringToInt(last[1]),
                     zoom |-> stringToInt(parts[n - 2][1]), format |-> Lower(last[2])[1],
                     style |-> StylesheetPath(parts, styles, default)]
    BY CreateCases, Zenon
  <2> HIDE DEF named
  <2>2. QED
    BY <2>1
<1>2. n \in Nat
  BY PartsAreTexts
<1>3. ASSUME n >= 4
      PROVE  /\ \A i \in {n - 2, n - 1} : PartIsInt(parts[i]) =>
                  IsInt(parts[i][1]) /\ stringToInt(parts[i][1]) = Spelled(parts[i][1])
             /\ Len(last) >= 2 /\ IsInt(last[1]) => stringToInt(last[1]) = Spelled(last[1])
  <2>1. n - 2 \in 1..n /\ n - 1 \in 1..n /\ n \in 1..n
    BY <1>2, <1>3
  <2>2. ASSUME NEW i \in 1..n, Len(parts[i]) >= 1, IsInt(parts[i][1])
        PROVE  stringToInt(parts[i][1]) = Spelled(parts[i][1])
    <3>1. Len(parts[i]) \in Nat
      BY PartsAreTexts
    <3>2. 1 \in 1..Len(parts[i])
      BY <2>2, <3>1
    <3>3. parts[i][1] \in Seq(STRING) /\ Fits(parts[i][1])
      BY <3>2, PartsAreTexts
    <3>4. QED
      BY <3>3, <2>2, NumberIsSpelled
  <2>3. Len(last) \in Nat
    BY <2>1, PartsAreTexts
  <2>4. ASSUME NEW i \in 1..n, PartIsInt(parts[i])
        PROVE  IsInt(parts[i][1]) /\ stringToInt(parts[i][1]) = Spelled(parts[i][1])
    <3>1. Len(parts[i]) >= 1 /\ IsInt(parts[i][1])
      BY <2>4 DEF PartIsInt
    <3>2. QED
      BY <3>1, <2>2
  <2>5. Len(last) >= 2 /\ IsInt(last[1]) => stringToInt(last[1]) = Spelled(last[1])
    <3>1. Len(last) >= 2 => Len(last) >= 1
      BY <2>3
    <3>2. QED
      BY <2>1, <2>2, <3>1
  <2>6. QED
    BY <2>1, <2>4, <2>5
<1>4. CASE named
  <2>1. n >= 4 /\ Named(parts[n - 2], parts[n - 1], last)
    BY <1>4
  <2>2. Lower(last[2]) = <<made.format>>
    BY <2>1, <1>1 DEF Named
  <2>3. Spells(parts, made)
    BY <2>1, <2>2, <1>1, <1>3 DEF Named, Spells
  <2> HIDE DEF named
  <2>4. QED
    BY <2>3, <1>1, <1>4
<1>5. CASE ~named
  <2>1. ASSUME NEW t \in Tiles, Spells(parts, t) PROVE FALSE
    <3>2. PICK z \in 0..MaxZoom : t \in [zoom : {z}, x : 0..2^z - 1, y : 0..2^z - 1,
                                         format : {"png", "svg"}]
      BY <2>1 DEF Tiles
    <3>3. t.zoom = z /\ t.x \in 0..2^z - 1 /\ t.y \in 0..2^z - 1 /\ t.format \in {"png", "svg"}
      BY <3>2
    <3>4. n >= 4 /\ Len(last) >= 2
      BY <2>1 DEF Spells
    <3>5. /\ stringToInt(parts[n - 2][1]) = t.zoom /\ stringToInt(parts[n - 1][1]) = t.x
          /\ stringToInt(last[1]) = t.y
      BY <2>1, <3>4, <1>3 DEF Spells
    <3>6. 2^z \in Nat
      BY <3>2, UrlAssumption, PowerPositive
    <3>7. InRange(t.x, z) /\ InRange(t.y, z)
      BY <3>3, <3>6 DEF InRange, boundaries
    <3>8. Named(parts[n - 2], parts[n - 1], last)
      BY <2>1, <3>3, <3>4, <3>5, <3>7, <3>2 DEF Spells, Named
    <3>9. QED
      BY <3>8, <3>4, <1>5
  <2>2. made \in UrlErrors
    <3> HIDE DEF named
    <3>1. QED
      BY <1>1, <1>5
  <2>3. QED
    BY <2>1, <2>2
<1>6. QED
  BY <1>4, <1>5
-----------------------------------------------------------------------------
\* What is known of the tile: there is one once the url is accepted, and it is refused
\* after the request only for the url.
TileInv ==
    LET made == Create(sc.url, sc.styles, sc.default)
    IN  /\ sc \in Scenarios
        /\ stage \in JobStages => tile = made /\ made \notin UrlErrors
        /\ stage \notin JobStages => tile = << >>
        /\ stage = "refused" /\ http.state = "true" => made \in UrlErrors

\* No step changes that.
LEMMA TileInvSteps ==
    ASSUME TileInv, [RequestNext]_<<turn, asked>>
    PROVE  TileInv'
<1>1. CASE Prepares
  BY <1>1 DEF TileInv, Prepares, Prepared, TurnOf, asked, JobStages
<1>2. CASE ReadPiece
  BY <1>2 DEF TileInv, ReadPiece, JobStages
<1>3. CASE Quiet
  BY <1>3 DEF TileInv, Quiet, asked, JobStages
<1>4. CASE IdentifyTile
  <2>1. stage = "identify" /\ stage \notin JobStages /\ tile = << >>
    BY <1>4 DEF IdentifyTile, TileInv, JobStages
  <2>2. QED
    BY <1>4, <2>1 DEF TileInv, IdentifyTile, JobStages
<1>5. CASE JobGoesOn
  BY <1>5 DEF TileInv, JobGoesOn, TurnOf, asked, JobStages
<1>6. CASE UNCHANGED <<turn, asked>>
  BY <1>6 DEF TileInv, turn, asked
<1>7. QED
  BY <1>1, <1>2, <1>3, <1>4, <1>5, <1>6 DEF RequestNext

\* The tile of a job is one of those that the map has at its zoom level.
LEMMA TileOnMap ==
    ASSUME TileInv, stage \in JobStages
    PROVE  /\ tile.zoom \in 0..MaxZoom /\ tile.x \in Int /\ tile.y \in Int
           /\ InRange(tile.x, tile.zoom) /\ InRange(tile.y, tile.zoom)
<1> DEFINE parts == sc.url
           n == Len(parts)
           last == parts[n]
           made == Create(parts, sc.styles, sc.default)
<1>1. parts \in Seq(Seq(Seq(STRING)))
  BY ScenarioAssumption DEF TileInv
<1>2. tile = made /\ made \notin UrlErrors
  BY DEF TileInv
<1> HIDE DEF parts
<1>3. /\ n >= 4 /\ Named(parts[n - 2], parts[n - 1], last)
      /\ made.x = stringToInt(parts[n - 1][1]) /\ made.y = stringToInt(last[1])
      /\ made.zoom = stringToInt(parts[n - 2][1])
  BY <1>1, <1>2, CreateCases
<1> HIDE DEF made
<1>4. n \in Nat /\ n - 2 \in 1..n /\ n - 1 \in 1..n /\ n \in 1..n
  <2>1. n \in Nat
    BY <1>1
  <2>2. n >= 4
    BY <1>3
  <2> HIDE DEF n
  <2>3. QED
    BY <2>1, <2>2
<1>5. \A i \in 1..n : /\ Len(parts[i]) \in Nat
                      /\ \A j \in 1..Len(parts[i]) : parts[i][j] \in Seq(STRING)
  BY <1>1, PartsAreTexts
<1> HIDE DEF n
<1>6. /\ Len(parts[n - 2]) = 1 /\ IsInt(parts[n - 2][1])
      /\ Len(parts[n - 1]) = 1 /\ IsInt(parts[n - 1][1])
      /\ Len(last) >= 2 /\ IsInt(last[1])
      /\ stringToInt(parts[n - 2][1]) \in 0..MaxZoom
      /\ InRange(stringToInt(last[1]), stringToInt(parts[n - 2][1]))
      /\ InRange(stringToInt(parts[n - 1][1]), stringToInt(parts[n - 2][1]))
  BY <1>3 DEF Named, PartIsInt
<1>7. parts[n - 2][1] \in Seq(STRING) /\ parts[n - 1][1] \in Seq(STRING) /\ last[1] \in Seq(STRING)
  <2>1. 1 \in 1..Len(parts[n - 2]) /\ 1 \in 1..Len(parts[n - 1]) /\ 1 \in 1..Len(last)
    BY <1>4, <1>5, <1>6
  <2>2. QED
    BY <1>4, <1>5, <2>1
<1>8. stringToInt(parts[n - 1][1]) \in Int /\ stringToInt(last[1]) \in Int
  BY <1>6, <1>7, NumberIsInt
<1>9. QED
  BY <1>2, <1>3, <1>6, <1>8

\* The url of every request makes the tile that it spells, if its numbers fit into an int,
\* and is refused only if it spells none: no digit is lost, no overflow and no sign leads
\* elsewhere, and the borders of the map are where they should be.
THEOREM UrlsNameTiles == RequestSpec => []UrlNamesTile
<1>1. (\E scenario \in Scenarios : BeginsWith(scenario)) => TileInv
  BY DEF BeginsWith, TileInv, JobStages
<1>2. TileInv /\ [RequestNext]_<<turn, asked>> => TileInv'
  BY TileInvSteps
<1>3. TileInv => UrlNamesTile
  <2> SUFFICES ASSUME TileInv, NumbersFit(sc.url) PROVE UrlNamesTile
    BY DEF UrlNamesTile
  <2>1. sc.url \in Seq(Seq(Seq(STRING)))
    BY ScenarioAssumption DEF TileInv
  <2> DEFINE made == Create(sc.url, sc.styles, sc.default)
  <2>2. /\ made \notin UrlErrors => Spells(sc.url, made)
        /\ made \in UrlErrors => \A t \in Tiles : ~Spells(sc.url, t)
    BY <2>1, UrlSpells
  <2>3. tile # << >> => tile = made /\ made \notin UrlErrors
    BY DEF TileInv
  <2>4. stage = "refused" /\ http.state = "true" => made \in UrlErrors
    BY DEF TileInv
  <2>5. QED
    BY <2>2, <2>3, <2>4 DEF UrlNamesTile
<1>4. QED
  BY <1>1, <1>2, <1>3, PTL DEF RequestSpec

-----------------------------------------------------------------------------
(* However the network cuts the text, the parser is where the whole would have it. *)

\* A parser that has decided goes nowhere.
LEMMA DecidedStays ==
    ASSUME NEW p \in Parsers, p.state \in Final, NEW text \in Seq(Chars)
    PROVE  Parse(p, text) = p
<1> DEFINE q == [k \in 0..Len(text) |-> p]
<1>1. Len(text) \in Nat
  OBVIOUS
<1>2. q[0] = p /\ \A k \in 0..Len(text) - 1 : q[k] = p /\ q[k + 1] = p
  BY <1>1
<1>3. q[Len(text)] = p
  BY <1>1
<1> HIDE DEF q
<1>4. \A c : Took(p, c) = p
  BY DEF Took
<1>5. Follows(q, p, text, Len(text))
  BY <1>2, <1>4, Zenon DEF Follows
<1>6. QED
  BY <1>3, <1>5, RunEnds

\* What the parser has read, in which stages.
Sofar == FlattenSeq(SubSeq(sc.pieces, 1, at))
Reading == stage \in {"read", "identify", "unanswered"} \/ (stage = "refused" /\ tile = << >>)
ReadInv ==
    /\ sc \in Scenarios
    /\ stage \in {"import", "load", "parse sheet"} => http = Start
    /\ stage \in {"load", "parse sheet"} => at = 0
    /\ Reading => at \in 0..Len(sc.pieces) /\ http = Parse(Start, Sofar)

\* A new parser is one.
LEMMA StartIsParser == Start \in Parsers
<1>1. "method_start" \in States /\ << >> \in Seq(Chars) /\ 0 \in Nat
  BY DEF States, Sources
<1>2. QED
  BY <1>1, Zenon DEF Start, Parsers

\* From no pieces, it has read nothing.
LEMMA NothingRead ==
    ASSUME NEW seqs \in Seq(Seq(Chars))
    PROVE  FlattenSeq(SubSeq(seqs, 1, 0)) = << >> /\ Parse(Start, << >>) = Start
<1>1. SubSeq(seqs, 1, 0) = << >> /\ Len(<< >>) = 0 /\ << >> \in Seq(Chars)
  OBVIOUS
<1>2. FlattenSeq(<< >>) = << >>
  BY <1>1 DEF FlattenSeq
<1>3. PICK q : Runs(q, Start, << >>) /\ Parse(Start, << >>) = q[0]
  BY <1>1, StartIsParser, ParseRuns
<1>4. QED
  BY <1>1, <1>2, <1>3 DEF Runs

\* The stages that others move between.
LEMMA OthersTurns ==
    ASSUME Prepares \/ JobGoesOn
    PROVE  /\ UNCHANGED <<sc, http, tile>>
           /\ \/ /\ stage = "import" /\ stage' \in {"import", "load", "import failed", "hangs"}
                 /\ stage' = "load" => at' = 0
              \/ stage = "load" /\ stage' = "parse sheet" /\ at' = at
              \/ stage = "parse sheet" /\ stage' \in {"read", "no sheet", "killed"} /\ at' = at
              \/ stage \in JobStages /\ stage' \in JobStages
<1>1. CASE Prepares
  BY <1>1 DEF Prepares, Prepared, TurnOf, asked
<1>2. CASE JobGoesOn
  BY <1>2 DEF JobGoesOn, TurnOf, asked
<1>3. QED
  BY <1>1, <1>2

\* Every step keeps that.
LEMMA ReadInvSteps ==
    ASSUME ReadInv, [RequestNext]_<<turn, asked>>
    PROVE  ReadInv'
<1>0. sc \in Scenarios /\ sc.pieces \in Seq(Seq(Chars)) /\ Len(sc.pieces) \in Nat
  <2>1. sc \in Scenarios
    BY DEF ReadInv
  <2>2. sc.pieces \in Seq(Seq(Chars))
    BY <2>1, ScenarioAssumption
  <2>3. QED
    BY <2>1, <2>2
<1>1. CASE Prepares \/ JobGoesOn
  <2>0. /\ UNCHANGED <<sc, http, tile>>
        /\ \/ /\ stage = "import" /\ stage' \in {"import", "load", "import failed", "hangs"}
              /\ stage' = "load" => at' = 0
           \/ stage = "load" /\ stage' = "parse sheet" /\ at' = at
           \/ stage = "parse sheet" /\ stage' \in {"read", "no sheet", "killed"} /\ at' = at
           \/ stage \in JobStages /\ stage' \in JobStages
    BY <1>1, OthersTurns
  <2>1. CASE stage = "import"
    <3>1. stage' \in {"import", "load", "import failed", "hangs"} /\ (stage' = "load" => at' = 0)
      BY <2>0, <2>1 DEF JobStages
    <3>2. ~Reading'
      BY <3>1 DEF Reading
    <3>3. http' = Start /\ sc' \in Scenarios
      BY <2>0, <2>1, <1>0 DEF ReadInv
    <3>4. QED
      BY <3>1, <3>2, <3>3 DEF ReadInv
  <2>2. CASE stage = "load"
    <3>1. stage' = "parse sheet" /\ at' = at
      BY <2>0, <2>2 DEF JobStages
    <3>2. ~Reading'
      BY <3>1 DEF Reading
    <3>3. http' = Start /\ sc' \in Scenarios /\ at = 0
      BY <2>0, <2>2, <1>0 DEF ReadInv
    <3>4. QED
      BY <3>1, <3>2, <3>3 DEF ReadInv
  <2>3. CASE stage = "parse sheet"
    <3>1. stage' \in {"read", "no sheet", "killed"} /\ at' = at
      BY <2>0, <2>3 DEF JobStages
    <3>2. http' = Start /\ at' = 0 /\ sc' = sc
      BY <2>0, <2>3, <3>1 DEF ReadInv
    <3>3. Sofar' = << >>
      BY <1>0, <3>2, NothingRead DEF Sofar
    <3>4. 0 \in 0..Len(sc.pieces) /\ http' = Parse(Start, Sofar')
      BY <1>0, <3>2, <3>3, NothingRead
    <3>5. QED
      BY <3>1, <3>2, <3>4, <1>0 DEF ReadInv
  <2>4. CASE stage \in JobStages
    <3>1. stage' \in JobStages
      BY <2>0, <2>4 DEF JobStages
    <3>2. ~Reading' /\ stage' \notin {"import", "load", "parse sheet"}
      BY <3>1 DEF Reading, JobStages
    <3>3. QED
      BY <2>0, <3>2, <1>0 DEF ReadInv
  <2>5. QED
    BY <2>0, <2>1, <2>2, <2>3, <2>4
<1>2. CASE ReadPiece
  <2> DEFINE piece == sc.pieces[at + 1]
  <2>1. /\ stage = "read" /\ at < Len(sc.pieces) /\ http' = Parse(http, piece)
        /\ stage' \in {"identify", "refused", "read"} /\ at' = at + 1 /\ UNCHANGED <<sc, tile>>
    BY <1>2 DEF ReadPiece
  <2>2. at \in 0..Len(sc.pieces) /\ http = Parse(Start, Sofar)
    BY <2>1 DEF ReadInv, Reading
  <2>3. at' \in 0..Len(sc.pieces) /\ piece \in Seq(Chars)
    BY <2>1, <2>2, <1>0
  <2>4. Sofar \in Seq(Chars) /\ Sofar' = Sofar \o piece
    BY <2>1, <2>2, <1>0, FlattenBegins DEF Sofar
  <2>5. http' = Parse(Start, Sofar')
    <3> HIDE DEF piece
    <3>1. Parse(Parse(Start, Sofar), piece) = Parse(Start, Sofar \o piece)
      BY <2>3, <2>4, StartIsParser, ParseGoesOn
    <3>2. QED
      BY <2>1, <2>2, <2>4, <3>1
  <2>6. QED
    BY <2>1, <2>3, <2>5, <1>0 DEF ReadInv
<1>3. CASE Quiet
  <2>1. stage = "read" /\ stage' = "unanswered" /\ UNCHANGED <<sc, at, http, tile>>
    BY <1>3 DEF Quiet, asked
  <2>2. Sofar' = Sofar /\ Reading
    BY <2>1 DEF Sofar, Reading
  <2>3. QED
    BY <2>1, <2>2 DEF ReadInv
<1>4. CASE IdentifyTile
  <2>1. stage = "identify" /\ stage' \in {"refused", "query"} /\ UNCHANGED <<sc, at, http>>
    BY <1>4 DEF IdentifyTile
  <2>2. Sofar' = Sofar /\ Reading
    BY <2>1 DEF Sofar, Reading
  <2>3. QED
    BY <2>1, <2>2 DEF ReadInv
<1>5. CASE UNCHANGED <<turn, asked>>
  <2>1. UNCHANGED <<sc, stage, at, http, tile>>
    BY <1>5 DEF turn, asked
  <2>2. Sofar' = Sofar /\ Reading' = Reading
    BY <2>1 DEF Sofar, Reading
  <2>3. QED
    BY <2>1, <2>2 DEF ReadInv
<1>6. QED
  BY <1>1, <1>2, <1>3, <1>4, <1>5 DEF RequestNext

\* A request is read as one however the network cuts it: the parser accepts it when what has come
\* begins with a request of the grammar, and refuses only what begins with none.
THEOREM RequestsAreParsed == RequestSpec => []ParsesRequests
<1>1. (\E scenario \in Scenarios : BeginsWith(scenario)) => ReadInv
  BY DEF BeginsWith, ReadInv, Reading
<1>2. ReadInv /\ [RequestNext]_<<turn, asked>> => ReadInv'
  BY ReadInvSteps
<1>3. ReadInv => ParsesRequests
  <2> SUFFICES ASSUME ReadInv, Reading
               PROVE  /\ http.state = "true" <=> \E text \in Prefixes(Sofar) : Request(text)
                      /\ http.state = "false" =>
                            \A text \in Prefixes(FlattenSeq(sc.pieces)) : ~Request(text)
    BY DEF ParsesRequests, Reading, Sofar
  <2>1. sc.pieces \in Seq(Seq(Chars)) /\ at \in 0..Len(sc.pieces) /\ http = Parse(Start, Sofar)
    BY ScenarioAssumption DEF ReadInv
  <2>2. PICK rest \in Seq(Chars) : FlattenSeq(sc.pieces) = Sofar \o rest
    BY <2>1, FlattenBegins DEF Sofar
  <2>3. Sofar \in Seq(Chars)
    BY <2>1, FlattenBegins DEF Sofar
  <2>4. http \in Parsers /\ Parse(http, rest) = Parse(Start, Sofar \o rest)
    BY <2>1, <2>3, StartIsParser, ParseGoesOn
  <2>5. http.state = "true" <=> \E text \in Prefixes(Sofar) : Request(text)
    BY <2>1, <2>3, AcceptsRequests
  <2>6. ASSUME http.state = "false"
        PROVE  \A text \in Prefixes(FlattenSeq(sc.pieces)) : ~Request(text)
    <3>1. Parse(http, rest) = http
      BY <2>4, <2>6, DecidedStays DEF Final
    <3>2. Parse(Start, FlattenSeq(sc.pieces)).state # "true"
      BY <2>2, <2>4, <2>6, <3>1
    <3>3. FlattenSeq(sc.pieces) \in Seq(Chars)
      BY <2>2, <2>3, Concatenation
    <3>4. QED
      BY <3>2, <3>3, AcceptsRequests
  <2>7. QED
    BY <2>5, <2>6
<1>4. QED
  BY <1>1, <1>2, <1>3, PTL DEF RequestSpec
=============================================================================
