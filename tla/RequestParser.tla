---------------------------- MODULE RequestParser ----------------------------
(***************************************************************************)
(* HttpRequestParser: what the characters of a request do to it, and how   *)
(* handleRead feeds it the pieces that the network delivers.               *)
(*                                                                         *)
(* Characters are taken by class: "a" stands for the other characters of   *)
(* tokens, "ctl" for the other control characters, "8bit" for those above  *)
(* 127.  What is kept of a request is its uri and how many headers it has. *)
(***************************************************************************)
EXTENDS Naturals, SequencesExt

Digit    == {"1"}
Token    == {"a", "H", "T", "P", "."} \cup Digit   \* is_char, no is_ctl or is_tspecial
Tspecial == {"/", ":", " ", "\t"}
Ctl      == {"\r", "\n", "\t", "ctl"}
Chars    == Token \cup Tspecial \cup Ctl \cup {"8bit"}
Printed  == Chars \ Ctl

Start == [state |-> "method_start", uri |-> << >>, headers |-> 0]

\* consume: which characters lead from a state to the next one.  Every other character
\* is refused.  First the request line...
RequestLine ==
    { <<"method_start", Token, "method">>,
      <<"method", {" "}, "uri">>,
      <<"method", Token, "method">>,
      <<"uri", {" "}, "http_version_h">>,
      <<"uri", Printed \ {" "}, "uri">>,
      <<"http_version_h", {"H"}, "http_version_t_1">>,
      <<"http_version_t_1", {"T"}, "http_version_t_2">>,
      <<"http_version_t_2", {"T"}, "http_version_p">>,
      <<"http_version_p", {"P"}, "http_version_slash">>,
      <<"http_version_slash", {"/"}, "http_version_major_start">>,
      <<"http_version_major_start", Digit, "http_version_major">>,
      <<"http_version_major", {"."}, "http_version_minor_start">>,
      <<"http_version_major", Digit, "http_version_major">>,
      <<"http_version_minor_start", Digit, "http_version_minor">>,
      <<"http_version_minor", {"\r"}, "expecting_newline_1">>,
      <<"http_version_minor", Digit, "http_version_minor">>,
      <<"expecting_newline_1", {"\n"}, "header_line_start">> }

\* ... then the headers, where a line that begins with a blank continues a header, if
\* there is one, and the empty line ends the request.
HeaderLines(p) ==
    { <<"header_line_start", {"\r"}, "expecting_newline_3">>,
      <<"header_line_start", IF p.headers > 0 THEN {" ", "\t"} ELSE {}, "header_lws">>,
      <<"header_line_start", Token, "header_name">>,
      <<"header_lws", {"\r"}, "expecting_newline_2">>,
      <<"header_lws", {" ", "\t"}, "header_lws">>,
      <<"header_lws", Printed \ {" "}, "header_value">>,
      <<"header_name", {":"}, "space_before_header_value">>,
      <<"header_name", Token, "header_name">>,
      <<"space_before_header_value", {" "}, "header_value">>,
      <<"header_value", {"\r"}, "expecting_newline_2">>,
      <<"header_value", Printed, "header_value">>,
      <<"expecting_newline_2", {"\n"}, "header_line_start">>,
      <<"expecting_newline_3", {"\n"}, "true">> }

Final == {"true", "false"}

Consume(p, c) ==
    LET next == {row[3] : row \in {row \in RequestLine \cup HeaderLines(p) :
                                     row[1] = p.state /\ c \in row[2]}}
    IN  IF next = {} THEN [p EXCEPT !.state = "false"]
        ELSE [state   |-> CHOOSE s \in next : TRUE,
              uri     |-> IF p.state = "uri" /\ c # " " THEN Append(p.uri, c) ELSE p.uri,
              headers |-> p.headers + IF p.state = "header_line_start" /\ c \in Token
                                      THEN 1 ELSE 0]

\* mutant: every piece is parsed as the beginning of a request
ParseAnew(p, piece) ==
    FoldLeft(LAMBDA q, c : IF q.state \in Final THEN q ELSE Consume(q, c), Start, piece)
\* parse: up to the first character that decides; the rest of the piece is dropped.
Parse(p, piece) ==
    FoldLeft(LAMBDA q, c : IF q.state \in Final THEN q ELSE Consume(q, c), p, piece)
-----------------------------------------------------------------------------
(* Reference: the requests of the grammar.                                 *)

All(s, chars) == \A i \in DOMAIN s : s[i] \in chars
Some(s, chars) == s # << >> /\ All(s, chars)

Version(s) ==
    \E i \in 7..Len(s) - 1 :
       /\ SubSeq(s, 1, 5) = <<"H", "T", "T", "P", "/">>
       /\ Some(SubSeq(s, 6, i - 1), Digit) /\ s[i] = "."
       /\ Some(SubSeq(s, i + 1, Len(s)), Digit)

RequestLineText(s) ==
    \E i, j \in DOMAIN s :
       /\ i < j /\ s[i] = " " /\ s[j] = " "
       /\ Some(SubSeq(s, 1, i - 1), Token)
       /\ All(SubSeq(s, i + 1, j - 1), Printed \ {" "})
       /\ Version(SubSeq(s, j + 1, Len(s)))

HeaderText(s) ==
    \E i \in DOMAIN s :
       /\ s[i] = ":" /\ i < Len(s) /\ s[i + 1] = " "
       /\ Some(SubSeq(s, 1, i - 1), Token)
       /\ All(SubSeq(s, i + 2, Len(s)), Printed)

\* A blank, more blanks, and then anything printed, or nothing.
ContinuationText(s) ==
    \E i \in DOMAIN s :
       All(SubSeq(s, 1, i), {" ", "\t"}) /\ All(SubSeq(s, i + 1, Len(s)), Printed)

\* The lines of a text that ends with a line end.
LineEnds(s) == {i \in 1..Len(s) - 1 : s[i] = "\r" /\ s[i + 1] = "\n"}
Request(s) ==
    LET ends == LineEnds(s)
        first(i) == IF \E e \in ends : e < i
                    THEN 2 + CHOOSE e \in ends : e < i /\ \A f \in ends : f < i => f <= e
                    ELSE 1
        line(i) == SubSeq(s, first(i), i - 1)
        one == CHOOSE e \in ends : \A f \in ends : e <= f
    IN  /\ Len(s) - 1 \in ends
        /\ line(Len(s) - 1) = << >>
        /\ \A e \in ends \ {one, Len(s) - 1} :
              \/ HeaderText(line(e))
              \/ ContinuationText(line(e)) /\ \E f \in ends \ {one} : f < e
        /\ RequestLineText(line(one)) /\ one # Len(s) - 1
=============================================================================
