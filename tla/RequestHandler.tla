--------------------------- MODULE RequestHandler ---------------------------
(***************************************************************************)
(* request_handler of the HTTP servers: url_decode and handle_request.     *)
(* Characters are ASCII codes; a uri has no control character and no space *)
(* (the parser lets none through).                                         *)
(***************************************************************************)
EXTENDS Integers, SequencesExt

CONSTANTS UriChars, MaxUri   \* bounds: the characters and the length of a uri

VARIABLES uri,   \* req.uri
          reply  \* its status, "none" before, and the path of the file that is opened

vars == <<uri, reply>>

Percent == 37
Plus == 43
Minus == 45
Dot == 46
Slash == 47
Space == 32
UpperX == 88
LowerX == 120

Index == <<105, 110, 100, 101, 120, 46, 104, 116, 109, 108>>  \* "index.html"

IsHex(c) == c \in 48 .. 57 \/ c \in 65 .. 70 \/ c \in 97 .. 102

HexValue(c) == IF c <= 57 THEN c - 48 ELSE IF c <= 70 THEN c - 55 ELSE c - 87

\* Neither a number that was read nor a path that was decoded.
NoValue == -1
Invalid == <<NoValue>>

\* Mutant of ReadHex: the number is not cut to a character.
ReadHexWide(a, b) ==
  IF IsHex(a)
    THEN IF IsHex(b) THEN 16 * HexValue(a) + HexValue(b)
         ELSE IF a = 48 /\ b \in {UpperX, LowerX} THEN NoValue
         ELSE HexValue(a)
  ELSE IF a \in {Plus, Minus} /\ IsHex(b)
    THEN IF a = Plus THEN HexValue(b) ELSE 2 ^ 16 - HexValue(b)
  ELSE NoValue

\* is >> std::hex >> value on the two characters after a percent sign: a sign
\* is read, a prefix 0x is dropped, and the first character that is no digit
\* ends the number.
ReadHex(a, b) ==
  IF IsHex(a)
    THEN IF IsHex(b) THEN 16 * HexValue(a) + HexValue(b)
         ELSE IF a = 48 /\ b \in {UpperX, LowerX} THEN NoValue
         ELSE HexValue(a)
  ELSE IF a \in {Plus, Minus} /\ IsHex(b)
    THEN IF a = Plus THEN HexValue(b) ELSE (256 - HexValue(b)) % 256
  ELSE NoValue

Push(out, c) == IF c = NoValue THEN Invalid ELSE Append(out, c)

\* Mutant of DecodeAt: an escape at the very end is taken for a cut-off one.
DecodeAtShort(in, out, i) ==
  CASE in[i] = Plus -> [out |-> Push(out, Space), i |-> i + 1]
    [] in[i] = Percent /\ i + 2 < Len(in) -> [out |-> Push(out, ReadHex(in[i + 1], in[i + 2])), i |-> i + 3]
    [] in[i] = Percent /\ i + 2 >= Len(in) -> [out |-> Invalid, i |-> i + 1]
    [] OTHER -> [out |-> Push(out, in[i]), i |-> i + 1]

\* One round of the loop of url_decode: the output and the next index.
DecodeAt(in, out, i) ==
  CASE in[i] = Plus -> [out |-> Push(out, Space), i |-> i + 1]
    [] in[i] = Percent /\ i + 2 <= Len(in) -> [out |-> Push(out, ReadHex(in[i + 1], in[i + 2])), i |-> i + 3]
    [] in[i] = Percent /\ i + 2 > Len(in) -> [out |-> Invalid, i |-> i + 1]
    [] OTHER -> [out |-> Push(out, in[i]), i |-> i + 1]

\* The decoded path, or Invalid where url_decode returns false.
url_decode(in) ==
  FoldLeftDomain(LAMBDA d, i : IF d.out = Invalid \/ i < d.i THEN d ELSE DecodeAt(in, d.out, i),
                 [out |-> <<>>, i |-> 1], in).out

DotDot(path) == \E k \in 1 .. Len(path) - 1 : path[k] = Dot /\ path[k + 1] = Dot

Absolute(path) == path # <<>> /\ path[1] = Slash

BadPath(path) == path = Invalid \/ ~Absolute(path) \/ DotDot(path)

Init == uri = <<>> /\ reply = [status |-> "none", path |-> <<>>]

\* The client sends another character of the uri.
Extend(c) ==
  /\ reply.status = "none" /\ Len(uri) < MaxUri
  /\ uri' = Append(uri, c)
  /\ UNCHANGED reply

\* Without decoding there is no path, and the file is not opened.
BadRequest ==
  /\ reply.status = "none" /\ BadPath(url_decode(uri))
  /\ reply' = [status |-> "bad_request", path |-> <<>>]
  /\ UNCHANGED uri

\* The file doc_root + request_path exists or not.
Serve ==
  /\ reply.status = "none" /\ ~BadPath(url_decode(uri))
  /\ LET path == url_decode(uri)
         file == IF path[Len(path)] = Slash THEN path \o Index ELSE path
     IN  \E status \in {"ok", "not_found"} : reply' = [status |-> status, path |-> file]
  /\ UNCHANGED uri

handle_request == BadRequest \/ Serve

Replied == reply.status # "none" /\ UNCHANGED vars

Next == (\E c \in UriChars : Extend(c)) \/ handle_request \/ Replied

Spec == Init /\ [][Next]_vars

-----------------------------------------------------------------------------

\* Every variable keeps its type.
TypeOK ==
  /\ uri \in Seq(UriChars) /\ Len(uri) <= MaxUri
  /\ reply.status \in {"none", "ok", "not_found", "bad_request"}
  /\ reply.path \in Seq(0 .. 255)

HexChar(n) == IF n < 10 THEN 48 + n ELSE 87 + n

\* How a client writes a path: every character that means something to
\* url_decode is escaped, a space is written as a plus sign.
Encode(path) ==
  FlattenSeq([k \in DOMAIN path |->
    IF path[k] = Space THEN <<Plus>>
    ELSE IF path[k] \in {Percent, Plus, Dot}
      THEN <<Percent, HexChar(path[k] \div 16), HexChar(path[k] % 16)>>
    ELSE <<path[k]>>])

\* How deep below doc_root the path is after its first n characters.
Depth(path, n) ==
  LET component(a) == SubSeq(path, a + 1, CHOOSE b \in a .. n : (b = n \/ path[b + 1] = Slash)
                                                 /\ \A k \in a + 1 .. b : path[k] # Slash)
      level[k \in 0 .. n] ==
        IF k = 0 THEN 0
        ELSE level[k - 1] + (IF path[k] # Slash \/ component(k) \in {<<>>, <<Dot>>} THEN 0
                             ELSE IF component(k) = <<Dot, Dot>> THEN -1 ELSE 1)
  IN  level[n]

\* A client gets the path it asks for, whatever its characters: url_decode
\* undoes the encoding.  And no uri, escaped in any way, makes the server open
\* a file outside of doc_root.
PathsAsSentBelowDocRoot ==
  /\ url_decode(Encode(uri)) = uri
  /\ \A n \in DOMAIN reply.path : Depth(reply.path, n) >= 0

\* url_decode "returns false if the encoding was invalid": what it accepts has
\* two hexadecimal digits after every percent sign.
AcceptedIsValid ==
  url_decode(uri) # Invalid =>
    \E escapes \in SUBSET DOMAIN uri :
      /\ \A k \in escapes :
           /\ uri[k] = Percent /\ k + 2 \in DOMAIN uri /\ IsHex(uri[k + 1]) /\ IsHex(uri[k + 2])
           /\ {k + 1, k + 2} \cap escapes = {}
      /\ \A k \in DOMAIN uri :
           uri[k] = Percent => k \in escapes \/ k - 1 \in escapes \/ k - 2 \in escapes

=============================================================================
