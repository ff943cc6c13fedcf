---------------------------- MODULE StreamReaders ----------------------------
(***************************************************************************)
(* ad_system/server3: the replies of reply.cpp, read by async_client.cpp   *)
(* or by sync_client.cpp, which does the same without handlers.  The reply *)
(* comes in pieces of any length; what a read_until has read beyond its    *)
(* delimiter stays in response_.  A reply is a sequence of tokens: the     *)
(* status, "header" for the text of a line, Crlf, and other strings for    *)
(* bytes of the content.                                                   *)
(* Linux_Net/Reactor/wrap.c: Readn, Writen and Readline on a stream that   *)
(* comes and goes in pieces of any length, with interruptions.  A byte is  *)
(* its place in the stream; the newlines are the places of Newlines.       *)
(***************************************************************************)
EXTENDS Integers, FiniteSetsExt, SequencesExt

CONSTANTS
  Contents,   \* sequences of tokens, Crlf among them
  Length,     \* bound: the bytes of the stream
  Newlines,
  BufSize,    \* sizeof(read_buf), 100 in the code
  Sizes       \* the lengths that are asked for

VARIABLES
  at,         \* the operation that is outstanding
  reply,      \* what the server sends: status, number of headers, content
  unread,     \* the part of it that has not been read from the socket
  response_,  \* the streambuf
  out,        \* standard output: the lines of headers, the content, and whether cout is good
  function,   \* the function that is called again and again
  stream,     \* the bytes read has returned, or write has taken
  call,       \* the call: where it stands, the size asked for, the bytes done, its result
  cached,     \* my_read: the bytes of read_buf that are left
  start       \* history: where in the stream the call began

-----------------------------------------------------------------------------
\* The clients

vars == <<at, reply, unread, response_, out>>

Crlf == "crlf"

\* status_strings: the status line of ok, and of every other status; "junk" is no
\* status line at all, of another server.
Status == {"200", "other", "junk"}

\* The headers of a reply, a line each.
HeaderLines(r) == [p \in 1 .. 2 * r.headers |-> IF p % 2 = 1 THEN "header" ELSE Crlf]

\* reply::to_buffers
to_buffers(r) == <<r.status, Crlf>> \o HeaderLines(r) \o <<Crlf>> \o r.content

\* stock_replies: a page for every status but ok.
StockContent(status) == IF status = "200" THEN <<>> ELSE <<"page">>

\* reply::stock_reply, with the headers Content-Length and Content-Type.
stock_reply(status) == [status |-> status, headers |-> 2, content |-> StockContent(status)]

\* A stock reply, or what a file or another server gives, which need not have headers.
Init ==
  /\ \/ \E status \in Status \ {"junk"} : reply = stock_reply(status)
     \/ reply \in [status : Status, headers : 0 .. 2, content : Contents]
  /\ at = "resolve"
  /\ unread = to_buffers(reply) /\ response_ = <<>>
  /\ out = [headers |-> <<>>, content |-> <<>>, good |-> TRUE]

Going(from, to) == at = from /\ at' = to /\ UNCHANGED <<reply, unread, response_, out>>

handle_resolve == Going("resolve", "connect")

handle_connect == Going("connect", "write")

handle_write_request == Going("write", "status")

\* An error, and the end of the stream where more is needed: it is reported.
Fails ==
  /\ at \notin {"failed", "invalid", "done"}
  /\ at' = "failed"
  /\ UNCHANGED <<reply, unread, response_, out>>

\* The places where the delimiter of the operation ends.
Found ==
  {p \in 1 .. Len(response_) :
     /\ response_[p] = Crlf
     /\ at = "headers" => p > 1 /\ response_[p - 1] = Crlf}

\* read_until asks the socket only if the delimiter is not in response_ yet.
ReadSome ==
  /\ at \in {"status", "headers"} /\ Found = {}
  /\ \E k \in 1 .. Len(unread) :
       response_' = response_ \o SubSeq(unread, 1, k) /\ unread' = SubSeq(unread, k + 1, Len(unread))
  /\ UNCHANGED <<at, reply, out>>

After(s, p) == SubSeq(s, p + 1, Len(s))

\* The status line is taken from response_; only 200 goes on.
handle_read_status_line ==
  /\ at = "status" /\ Found # {}
  /\ LET line == CHOOSE p \in Found : \A q \in Found : p <= q
     IN  response_' = After(response_, line)
  /\ at' = IF response_[1] = "200" THEN "headers" ELSE "invalid"
  /\ UNCHANGED <<reply, unread, out>>

\* cout << &response_: an empty streambuf makes cout bad, and what follows is not
\* printed.
Output(o, tokens) ==
  CASE tokens = <<>> -> [o EXCEPT !.good = FALSE]
    [] o.good        -> [o EXCEPT !.content = @ \o tokens]
    [] OTHER         -> o

\* Mutant of Rest: printed without a look at the size.
RestAlways(o, tokens) == Output(o, tokens)

\* Whatever content was read together with the headers.
Rest(o, tokens) == IF tokens = <<>> THEN o ELSE Output(o, tokens)

\* Lines are printed up to the first empty one.
handle_read_headers ==
  /\ at = "headers" /\ Found # {}
  /\ LET Empty(p) == response_[p] = Crlf /\ (p = 1 \/ response_[p - 1] = Crlf)
         blank == CHOOSE p \in DOMAIN response_ : Empty(p) /\ \A q \in 1 .. p - 1 : ~Empty(q)
     IN  out' = Rest([out EXCEPT !.headers = SubSeq(response_, 1, blank - 1)], After(response_, blank))
  /\ response_' = <<>>
  /\ at' = "content"
  /\ UNCHANGED <<reply, unread>>

\* At least one byte has come.
handle_read_content ==
  /\ at = "content"
  /\ \E k \in 1 .. Len(unread) :
       out' = Output(out, SubSeq(unread, 1, k)) /\ unread' = After(unread, k)
  /\ UNCHANGED <<at, reply, response_>>

EndOfContent == unread = <<>> /\ Going("content", "done")

Next ==
  \/ handle_resolve \/ handle_connect \/ handle_write_request \/ ReadSome
  \/ handle_read_status_line \/ handle_read_headers \/ handle_read_content \/ EndOfContent \/ Fails

-----------------------------------------------------------------------------

\* However the reply is cut into pieces, what is printed are its headers and its
\* content, byte for byte, and nothing at all unless the status is 200.  The
\* exception is a reply without headers, whose end of headers the client misses.
ContentAsSent ==
  /\ reply.status # "200" => out = [headers |-> <<>>, content |-> <<>>, good |-> TRUE]
  /\ reply.headers > 0 =>
       /\ IsPrefix(out.content, reply.content)
       /\ at \in {"content", "done"} => out.headers = HeaderLines(reply)
       /\ at = "done" => out.content = reply.content

-----------------------------------------------------------------------------
\* wrap.c

varsWrap == <<function, stream, call, cached, start>>

InitWrap ==
  /\ function \in {"Readn", "Writen", "Readline"}
  /\ stream = 0 /\ cached = 0 /\ start = 0
  /\ call = [at |-> "idle", n |-> 0, out |-> <<>>, ret |-> 0]

Busy == call.at = "busy"

Return(ret) == [call EXCEPT !.at = "done", !.ret = ret]

\* The function returns -1.
Failed == [call EXCEPT !.at = "failed"]

Call(n) ==
  /\ call.at \in {"idle", "done"}
  /\ call' = [at |-> "busy", n |-> n, out |-> <<>>, ret |-> 0]
  /\ start' = stream - cached
  /\ UNCHANGED <<function, stream, cached>>

Piece(max) == 1 .. Min({max, Length - stream})

\* The bytes the stream moves on by.
Moved(k) == [i \in 1 .. k |-> stream + i]

nleft == call.n - Len(call.out)

\* A call of read or write with nleft bytes to go, until there are none.  EINTR
\* leaves everything as it is, read returns 0 at the end of the stream.
ReadnWriten ==
  /\ Busy /\ function \in {"Readn", "Writen"}
  /\ \/ /\ nleft = 0 /\ call' = Return(call.n)
        /\ UNCHANGED stream
     \/ /\ nleft > 0
        /\ \E k \in Piece(nleft) :
             stream' = stream + k /\ call' = [call EXCEPT !.out = @ \o Moved(k)]
     \/ /\ nleft > 0 /\ stream = Length
        /\ call' = IF function = "Readn" THEN Return(call.n - nleft) ELSE Failed
        /\ UNCHANGED stream
     \/ /\ nleft > 0 /\ call' = Failed
        /\ UNCHANGED stream
  /\ UNCHANGED <<function, cached, start>>

\* my_read with an empty read_buf: a read of as much as fits.
Fill ==
  /\ Busy /\ function = "Readline" /\ cached = 0 /\ Len(call.out) + 1 < call.n
  /\ \/ \E k \in Piece(BufSize) : stream' = stream + k /\ cached' = k /\ UNCHANGED call
     \/ stream = Length /\ call' = Return(Len(call.out)) /\ UNCHANGED <<stream, cached>>
     \/ call' = Failed /\ UNCHANGED <<stream, cached>>
  /\ UNCHANGED <<function, start>>

\* Mutant of Result: the bytes are counted from one, also when the line is whole.
ResultMore(bytes) == Len(bytes) + 1

\* What Readline returns after a newline.
Result(bytes) == Len(bytes)

\* The next byte of read_buf; the line ends with a newline.
NextByte ==
  /\ Busy /\ function = "Readline" /\ cached > 0 /\ Len(call.out) + 1 < call.n
  /\ LET c == stream - cached + 1  bytes == Append(call.out, c)
         line == [call EXCEPT !.out = bytes]
     IN  call' = IF c \in Newlines THEN [line EXCEPT !.at = "done", !.ret = Result(bytes)] ELSE line
  /\ cached' = cached - 1
  /\ UNCHANGED <<function, stream, start>>

\* n has reached maxlen and is returned: one more than the bytes stored.
TooLong ==
  /\ Busy /\ function = "Readline" /\ Len(call.out) + 1 >= call.n
  /\ call' = Return(Max({1, call.n}))
  /\ UNCHANGED <<function, stream, cached, start>>

NextWrap == (\E n \in Sizes : Call(n)) \/ ReadnWriten \/ Fill \/ NextByte \/ TooLong

-----------------------------------------------------------------------------

\* In whatever pieces the stream moves, a call gets the bytes that follow those
\* of the call before, all it asked for unless the stream ends.  Readline stops
\* at the first newline, and its result is the length of the line, or one more
\* when the line did not fit.
StreamInPieces ==
  LET last == Len(call.out)
      Ended == call.out # <<>> /\ call.out[last] \in Newlines
  IN  /\ call.out = [i \in 1 .. last |-> start + i]
      /\ call.at = "done" /\ function # "Readline" =>
           call.ret = last /\ (call.ret < call.n => stream = Length)
      /\ call.at = "done" /\ function = "Readline" =>
           /\ \A i \in 1 .. last - 1 : call.out[i] \notin Newlines
           /\ \/ call.ret = last /\ (Ended \/ (stream = Length /\ cached = 0))
              \/ call.ret = last + 1 /\ ~Ended /\ last + 1 >= call.n
==============================================================================
