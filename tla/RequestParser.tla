---------------------------- MODULE RequestParser ----------------------------
(***************************************************************************)
(* request_parser of the HTTP servers (ad_system/server3 and boost/        *)
(* http_server have the same code, with other names for the results).  The *)
(* parser is fed one character at a time, whatever the pieces in which     *)
(* the socket delivers them.  A character stands for its class: HIGH is    *)
(* any byte over 127, H, T, P and the digits also stand for any other      *)
(* character of a token.                                                   *)
(***************************************************************************)
EXTENDS Integers, SequencesExt

CONSTANTS
  Chars,      \* the characters the input is made of
  MaxStored,  \* bound: characters of method, uri, header names and values, and
              \* twice those the version has beyond 1.1
  MaxBlanks   \* bound: blanks in continuation lines

VARIABLES
  state_,
  req,        \* the request being filled
  result,     \* what consume returned last
  fed,        \* history: the characters consumed
  extra       \* history: how many of them header_lws dropped, and how many are
              \* digits of a version number other than its first 1

vars == <<state_, req, result, fed, extra>>

States ==
  {"method_start", "method", "uri", "http_version_h", "http_version_t_1",
   "http_version_t_2", "http_version_p", "http_version_slash",
   "http_version_major_start", "http_version_major", "http_version_minor_start",
   "http_version_minor", "expecting_newline_1", "header_line_start", "header_lws",
   "header_name", "space_before_header_value", "header_value",
   "expecting_newline_2", "expecting_newline_3"}

DigitChars == <<"0", "1", "2", "3", "4", "5", "6", "7", "8", "9">>

is_char(c) == c # "HIGH"

is_ctl(c) == c \in {"TAB", "CR", "LF"}

is_tspecial(c) == c \in {" ", "TAB", "/", ":"}

is_digit(c) == \E d \in DOMAIN DigitChars : DigitChars[d] = c

ValueOf(c) == (CHOOSE d \in DOMAIN DigitChars : DigitChars[d] = c) - 1

\* What the method and the header names are made of.
Token(c) == is_char(c) /\ ~is_ctl(c) /\ ~is_tspecial(c)

Blank(c) == c \in {" ", "TAB"}

Init ==
  /\ state_ = "method_start"
  /\ req = [method |-> <<>>, uri |-> <<>>, major |-> 0, minor |-> 0, headers |-> <<>>]
  /\ result = "indeterminate"
  /\ fed = <<>>
  /\ extra = [blanks |-> 0, digits |-> 0]

-----------------------------------------------------------------------------

\* The request line: the next state, or "bad".
RequestLineStep(s, c) ==
  CASE s = "method_start"             -> IF Token(c) THEN "method" ELSE "bad"
    [] s = "method"                   -> IF c = " " THEN "uri" ELSE IF Token(c) THEN "method" ELSE "bad"
    [] s = "uri"                      -> IF c = " " THEN "http_version_h" ELSE IF is_ctl(c) THEN "bad" ELSE "uri"
    [] s = "http_version_h"           -> IF c = "H" THEN "http_version_t_1" ELSE "bad"
    [] s = "http_version_t_1"         -> IF c = "T" THEN "http_version_t_2" ELSE "bad"
    [] s = "http_version_t_2"         -> IF c = "T" THEN "http_version_p" ELSE "bad"
    [] s = "http_version_p"           -> IF c = "P" THEN "http_version_slash" ELSE "bad"
    [] s = "http_version_slash"       -> IF c = "/" THEN "http_version_major_start" ELSE "bad"
    [] s = "http_version_major_start" -> IF is_digit(c) THEN "http_version_major" ELSE "bad"
    [] s = "http_version_major"       -> IF c = "." THEN "http_version_minor_start"
                                         ELSE IF is_digit(c) THEN "http_version_major" ELSE "bad"
    [] s = "http_version_minor_start" -> IF is_digit(c) THEN "http_version_minor" ELSE "bad"
    [] s = "http_version_minor"       -> IF c = "CR" THEN "expecting_newline_1"
                                         ELSE IF is_digit(c) THEN "http_version_minor" ELSE "bad"
    [] s = "expecting_newline_1"      -> IF c = "LF" THEN "header_line_start" ELSE "bad"

\* Mutant of HeaderLineStart: a blank continues a header that is not there.
HeaderLineStartAlways(c) ==
  IF c = "CR" THEN "expecting_newline_3"
  ELSE IF Blank(c) THEN "header_lws"
  ELSE IF Token(c) THEN "header_name" ELSE "bad"

\* The start of a line after the request line; a blank continues the header
\* before it, if there is one.
HeaderLineStart(c) ==
  IF c = "CR" THEN "expecting_newline_3"
  ELSE IF req.headers # <<>> /\ Blank(c) THEN "header_lws"
  ELSE IF Token(c) THEN "header_name" ELSE "bad"

\* The headers: the next state, "bad" or "good".
HeaderStep(s, c) ==
  CASE s = "header_line_start"         -> HeaderLineStart(c)
    [] s = "header_lws"                -> IF c = "CR" THEN "expecting_newline_2"
                                          ELSE IF Blank(c) THEN "header_lws"
                                          ELSE IF is_ctl(c) THEN "bad" ELSE "header_value"
    [] s = "header_name"               -> IF c = ":" THEN "space_before_header_value"
                                          ELSE IF Token(c) THEN "header_name" ELSE "bad"
    [] s = "space_before_header_value" -> IF c = " " THEN "header_value" ELSE "bad"
    [] s = "header_value"              -> IF c = "CR" THEN "expecting_newline_2"
                                          ELSE IF is_ctl(c) THEN "bad" ELSE "header_value"
    [] s = "expecting_newline_2"       -> IF c = "LF" THEN "header_line_start" ELSE "bad"
    [] s = "expecting_newline_3"       -> IF c = "LF" THEN "good" ELSE "bad"

HeaderStates ==
  {"header_line_start", "header_lws", "header_name", "space_before_header_value",
   "header_value", "expecting_newline_2", "expecting_newline_3"}

Step(s, c) == IF s \in HeaderStates THEN HeaderStep(s, c) ELSE RequestLineStep(s, c)

ToLastHeader(part, c) ==
  [req EXCEPT !.headers[Len(req.headers)][part] = Append(@, c)]

\* Mutant of Store: the character that ends the blanks of a continuation line
\* is dropped like them.
StoreDropsFirst(s, n, c) ==
  CASE n = "method"                              -> [req EXCEPT !.method = Append(@, c)]
    [] n = "uri" /\ s = "uri"                    -> [req EXCEPT !.uri = Append(@, c)]
    [] n = "http_version_major_start"            -> [req EXCEPT !.major = 0, !.minor = 0]
    [] n = "http_version_major"                  -> [req EXCEPT !.major = @ * 10 + ValueOf(c)]
    [] n = "http_version_minor"                  -> [req EXCEPT !.minor = @ * 10 + ValueOf(c)]
    [] n = "header_name" /\ s # "header_name"    -> [req EXCEPT !.headers = Append(@, [name |-> <<c>>, value |-> <<>>])]
    [] n = "header_name" /\ s = "header_name"    -> ToLastHeader("name", c)
    [] n = "header_value" /\ s = "header_value"  -> ToLastHeader("value", c)
    [] OTHER                                     -> req

\* What consume does to the request when it goes from state s to state n.
Store(s, n, c) ==
  CASE n = "method"                              -> [req EXCEPT !.method = Append(@, c)]
    [] n = "uri" /\ s = "uri"                    -> [req EXCEPT !.uri = Append(@, c)]
    [] n = "http_version_major_start"            -> [req EXCEPT !.major = 0, !.minor = 0]
    [] n = "http_version_major"                  -> [req EXCEPT !.major = @ * 10 + ValueOf(c)]
    [] n = "http_version_minor"                  -> [req EXCEPT !.minor = @ * 10 + ValueOf(c)]
    [] n = "header_name" /\ s # "header_name"    -> [req EXCEPT !.headers = Append(@, [name |-> <<c>>, value |-> <<>>])]
    [] n = "header_name" /\ s = "header_name"    -> ToLastHeader("name", c)
    [] n = "header_value" /\ s # "space_before_header_value" -> ToLastHeader("value", c)
    [] OTHER                                     -> req

consume(c) ==
  LET n == Step(state_, c)
  IN  /\ state_' = IF n \in States THEN n ELSE state_
      /\ result' = IF n \in States THEN "indeterminate" ELSE n
      /\ req' = Store(state_, n, c)

Stored ==
  Len(req.method) + Len(req.uri)
    + FoldSeq(LAMBDA h, n : Len(h.name) + Len(h.value) + n, 0, req.headers)

\* c, consumed with result n, is a digit of the version that 1.1 does not have.
BeyondFirst(n, c) ==
  \/ n = "http_version_major" /\ ~(c = "1" /\ req.major = 0)
  \/ n = "http_version_minor" /\ ~(c = "1" /\ req.minor = 0)

\* parse: the next character, until consume returns good or bad.
Parse(c) ==
  /\ result = "indeterminate"
  /\ consume(c)
  /\ fed' = Append(fed, c)
  /\ extra' = LET n == Step(state_, c)
              IN  [blanks |-> IF n = "header_lws" THEN extra.blanks + 1 ELSE extra.blanks,
                   digits |-> IF BeyondFirst(n, c) THEN extra.digits + 1 ELSE extra.digits]
  /\ Stored' + 2 * extra'.digits <= MaxStored
  /\ extra'.blanks <= MaxBlanks

Answered == result # "indeterminate" /\ UNCHANGED vars

Next == (\E c \in Chars : Parse(c)) \/ Answered

Spec == Init /\ [][Next]_vars

-----------------------------------------------------------------------------
(***************************************************************************)
(* The same language as a grammar: lines that end in CR LF, a request      *)
(* line, header lines and continuation lines, an empty line.               *)
(***************************************************************************)

All(s, P(_)) == \A k \in DOMAIN s : P(s[k])

NotCtl(c) == ~is_ctl(c)

NotCtlNotSpace(c) == ~is_ctl(c) /\ c # " "

IsNumber(s) == s # <<>> /\ All(s, is_digit)

IsVersion(s) ==
  /\ Len(s) > 5 /\ SubSeq(s, 1, 5) = <<"H", "T", "T", "P", "/">>
  /\ \E d \in 6 .. Len(s) :
       s[d] = "." /\ IsNumber(SubSeq(s, 6, d - 1)) /\ IsNumber(SubSeq(s, d + 1, Len(s)))

IsRequestLine(s) ==
  \E i \in 2 .. Len(s) :
    /\ s[i] = " " /\ \A k \in 1 .. i - 1 : Token(s[k])
    /\ \E j \in i + 1 .. Len(s) :
         /\ s[j] = " " /\ IsVersion(SubSeq(s, j + 1, Len(s)))
         /\ \A k \in i + 1 .. j - 1 : NotCtlNotSpace(s[k])

IsHeaderLine(s) ==
  \E k \in 2 .. Len(s) - 1 :
    /\ s[k] = ":" /\ s[k + 1] = " "
    /\ All(SubSeq(s, 1, k - 1), Token)
    /\ All(SubSeq(s, k + 2, Len(s)), NotCtl)

\* A tab may stand among the leading blanks only.
IsContinuation(s) ==
  /\ s # <<>> /\ Blank(s[1])
  /\ \E k \in 1 .. Len(s) : All(SubSeq(s, 1, k), Blank) /\ All(SubSeq(s, k + 1, Len(s)), NotCtl)

IsRequest(s) ==
  LET ends == {k \in DOMAIN s : s[k] = "CR"}
      begin(e) == Max({-1} \cup {k \in ends : k < e}) + 2
      line(e) == SubSeq(s, begin(e), e - 1)
      first == Min(ends)
      last == Len(s) - 1
  IN  /\ last \in ends /\ first # last
      /\ {k \in DOMAIN s : s[k] = "LF"} = {e + 1 : e \in ends}
      /\ line(last) = <<>>
      /\ IsRequestLine(line(first))
      /\ \A e \in ends \ {first, last} :
           IsHeaderLine(line(e)) \/ (begin(e) # first + 2 /\ IsContinuation(line(e)))

\* The shortest way from a state to the end of a request.
Completion(s) ==
  LET eoh == <<"CR", "LF">>
      eol == <<"CR", "LF">> \o eoh
      version(k) == SubSeq(<<"H", "T", "T", "P", "/", "1", ".", "1">>, k, 8) \o eol
  IN  CASE s = "method_start"              -> <<"H", " ", "/", " ">> \o version(1)
        [] s = "method"                    -> <<" ", "/", " ">> \o version(1)
        [] s = "uri"                       -> <<" ">> \o version(1)
        [] s = "http_version_h"            -> version(1)
        [] s = "http_version_t_1"          -> version(2)
        [] s = "http_version_t_2"          -> version(3)
        [] s = "http_version_p"            -> version(4)
        [] s = "http_version_slash"        -> version(5)
        [] s = "http_version_major_start"  -> version(6)
        [] s = "http_version_major"        -> version(7)
        [] s = "http_version_minor_start"  -> version(8)
        [] s = "header_line_start"         -> eoh
        [] s = "header_name"               -> <<":", " ">> \o eol
        [] s = "space_before_header_value" -> <<" ">> \o eol
        [] s \in {"expecting_newline_1", "expecting_newline_2"} -> <<"LF">> \o eoh
        [] s = "expecting_newline_3"       -> <<"LF">>
        [] OTHER                           -> eol

Completions == {Completion(s) : s \in States}

\* Every variable keeps its type.
TypeOK ==
  /\ state_ \in States
  /\ result \in {"indeterminate", "good", "bad"}
  /\ fed \in Seq(Chars)
  /\ extra \in [blanks : 0 .. MaxBlanks, digits : 0 .. MaxStored]

\* The parser says good for the requests of the grammar, bad as soon as what
\* it was fed begins no request, and asks for more otherwise: in that case
\* the completion of its state makes a request of what it was fed.  (If any
\* continuation makes a request, one of the completions does.)
ParserDecidesGrammar ==
  CASE result = "good"          -> IsRequest(fed)
    [] result = "indeterminate" -> ~IsRequest(fed) /\ IsRequest(fed \o Completion(state_))
    [] result = "bad"           -> /\ ~IsRequest(fed)
                                   /\ \A c \in Completions : ~IsRequest(fed \o c)

\* The number that a sequence of digits, also one that begins with 0, stands for.
NumberOf(s) == MapThenSumSet(LAMBDA k : ValueOf(s[k]) * 10 ^ (Len(s) - k), DOMAIN s)

\* s is written for the version major.minor.
Denotes(s, major, minor) ==
  \E d \in DOMAIN s :
    LET before == SubSeq(s, 1, d - 1)  after == SubSeq(s, d + 1, Len(s))
    IN  s[d] = "." /\ IsNumber(before) /\ IsNumber(after) /\ NumberOf(before) = major /\ NumberOf(after) = minor

WriteHeaders(hs) ==
  FlattenSeq([k \in DOMAIN hs |-> hs[k].name \o <<":", " ">> \o hs[k].value \o <<"CR", "LF">>])

\* Position k belongs to a line end that is continued or to the blanks after it.
Folded(s, k) ==
  \E e \in 1 .. k :
    /\ s[e] = "CR" /\ e + 2 \in DOMAIN s /\ Blank(s[e + 2])
    /\ \A l \in e + 2 .. k : Blank(s[l])

Unfold(s) == FoldLeftDomain(LAMBDA out, k : IF Folded(s, k) THEN out ELSE Append(out, s[k]), <<>>, s)

\* The request the handler gets is the request that was sent: written out
\* again it is the input, but for line ends and blanks of continuation lines,
\* with numerals of the value of its two version numbers, which may have zeros
\* in front.
RequestIsTheInput ==
  result = "good" =>
    LET sent == Unfold(fed)
        before == req.method \o <<" ">> \o req.uri \o <<" ", "H", "T", "T", "P", "/">>
        after == <<"CR", "LF">> \o WriteHeaders(req.headers) \o <<"CR", "LF">>
        version == SubSeq(sent, Len(before) + 1, Len(sent) - Len(after))
    IN  sent = before \o version \o after /\ Denotes(version, req.major, req.minor)

=============================================================================
