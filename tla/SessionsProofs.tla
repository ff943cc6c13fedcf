--------------------------- MODULE SessionsProofs ---------------------------
(***************************************************************************)
(* Every program of MCSessions keeps an invariant of its own, from which   *)
(* the safety properties of that module follow for every value of the      *)
(* constants.  A section for each program: the invariant, that it holds at *)
(* first, that every step keeps it, and what it implies.                   *)
(***************************************************************************)
EXTENDS MCSessions, SequenceTheorems, TLAPS

\* Two sequences are the same if they have the same length and elements.
LEMMA SameSequence ==
  ASSUME NEW S, NEW s \in Seq(S), NEW t \in Seq(S), Len(s) = Len(t), \A i \in 1 .. Len(s) : s[i] = t[i]
  PROVE  s = t
OBVIOUS

\* The elements after a push_back and after a pop_front.
LEMMA AppendElements ==
  ASSUME NEW S, NEW s \in Seq(S), NEW e \in S, NEW t, t = Append(s, e)
  PROVE  t \in Seq(S) /\ Len(t) = Len(s) + 1 /\ t[Len(s) + 1] = e /\ \A i \in 1 .. Len(s) : t[i] = s[i]
OBVIOUS

LEMMA TailElements ==
  ASSUME NEW S, NEW s \in Seq(S), s # <<>>, NEW t, t = Tail(s)
  PROVE  /\ t \in Seq(S) /\ Len(t) = Len(s) - 1 /\ (\A i \in 1 .. Len(t) : t[i] = s[i + 1])
         /\ Len(s) > 0 /\ s[1] \in S /\ Head(s) = s[1]
OBVIOUS

\* The chat client: v1 is the user, v2 what was posted, v3 the io_context, v4
\* the lines that were sent.

IoContexts ==
  [op : {"connect", "none", "header", "body"}, writing : 0 .. 1, write_msgs_ : Seq(Nat),
   socket : {"connecting", "open", "failed", "closed"}, completed : SUBSET {"read", "write"}, returned : BOOLEAN]

ClientTyped ==
  /\ v1 \in [at : {"typing", "join", "done"}, line : Nat]
  /\ v2 \in Seq(Nat) /\ v4 \in Seq(Nat)
  /\ v3 \in IoContexts

\* The numbers after a.
Numbers(s, a) == \A i \in 1 .. Len(s) : s[i] = a + i

\* What is posted: numbers, and at the end the close, unless the user types.
Posted(p, a, at) == \A i \in 1 .. Len(p) : p[i] = a + i \/ (i = Len(p) /\ p[i] = 0 /\ at # "typing")

\* Sent, queued and posted lines follow each other; after the last one the close
\* is posted, and nothing after it.
Follow(s, q, p, at, line) ==
  /\ Numbers(s, 0) /\ Numbers(q, Len(s)) /\ Posted(p, Len(s) + Len(q), at)
  /\ at = "typing" => line = Len(s) + Len(q) + Len(p)

LinesFollow == Follow(v4, v3.write_msgs_, v2, v1.at, v1.line)

OneWrite ==
  /\ v3.writing = 1 => v3.write_msgs_ # <<>>
  /\ v3.socket \in {"connecting", "open"} /\ v3.write_msgs_ # <<>> => v3.writing = 1
  /\ v3.op = "connect" => v3.socket \in {"connecting", "closed"}

ClientInv == ClientTyped /\ LinesFollow /\ OneWrite

LEMMA InitClientInv == Chat!Init => ClientInv
BY DEF Chat!Init, ClientInv, ClientTyped, IoContexts, LinesFollow, Follow, Numbers, Posted, OneWrite

LEMMA NumbersAppend ==
  ASSUME NEW s \in Seq(Nat), NEW a \in Nat, Numbers(s, a), NEW t, t = Append(s, a + Len(s) + 1)
  PROVE  Numbers(t, a)
<1>1. a + Len(s) + 1 \in Nat
  OBVIOUS
<1>2. Len(t) = Len(s) + 1 /\ t[Len(s) + 1] = a + Len(s) + 1 /\ \A i \in 1 .. Len(s) : t[i] = s[i]
  BY <1>1, AppendElements
<1>. QED BY <1>2 DEF Numbers

LEMMA NumbersTail ==
  ASSUME NEW s \in Seq(Nat), NEW a \in Nat, Numbers(s, a), s # <<>>, NEW t, t = Tail(s)
  PROVE  Numbers(t, a + 1)
<1>1. Len(t) = Len(s) - 1 /\ (\A i \in 1 .. Len(t) : t[i] = s[i + 1])
  BY TailElements
<1>. QED BY <1>1 DEF Numbers

LEMMA PostedTail ==
  ASSUME NEW s \in Seq(Nat), NEW a \in Nat, NEW at, Posted(s, a, at), s # <<>>, NEW t, t = Tail(s)
  PROVE  /\ s[1] # 0 => Posted(t, a + 1, at) /\ s[1] = a + 1
         /\ s[1] = 0 => Posted(t, a, at) /\ at # "typing"
<1>1. Len(t) = Len(s) - 1 /\ (\A i \in 1 .. Len(t) : t[i] = s[i + 1]) /\ Len(s) > 0 /\ s[1] \in Nat /\ Len(s) \in Nat
  BY TailElements
<1>2. 1 \in 1 .. Len(s)
  BY <1>1
<1>3. s[1] = a + 1 \/ (1 = Len(s) /\ s[1] = 0 /\ at # "typing")
  BY <1>2 DEF Posted
<1>4. \A i \in 1 .. Len(t) : s[i + 1] = a + 1 + i \/ (i = Len(t) /\ s[i + 1] = 0 /\ at # "typing")
  BY ONLY <1>1, Posted(s, a, at), a \in Nat DEF Posted
<1>5. ASSUME s[1] # 0 PROVE Posted(t, a + 1, at) /\ s[1] = a + 1
  BY ONLY <1>1, <1>3, <1>4, <1>5 DEF Posted
<1>6. ASSUME s[1] = 0 PROVE Posted(t, a, at) /\ at # "typing"
  BY ONLY <1>1, <1>3, <1>6, a \in Nat DEF Posted
<1>. QED BY <1>5, <1>6

LEMMA PostedAppend ==
  ASSUME NEW s \in Seq(Nat), NEW a \in Nat, Posted(s, a, "typing"), NEW e \in Nat, NEW t, t = Append(s, e), NEW at,
         e = a + Len(s) + 1 \/ (e = 0 /\ at # "typing")
  PROVE  Posted(t, a, at)
<1>2. Len(t) = Len(s) + 1 /\ t[Len(s) + 1] = e /\ \A i \in 1 .. Len(s) : t[i] = s[i]
  BY AppendElements
<1>. QED BY <1>2 DEF Posted
\* Lines are typed, posted, queued and sent one after the other: t and u are the
\* sequences after the step.
LEMMA FollowTyped ==
  ASSUME NEW s \in Seq(Nat), NEW q \in Seq(Nat), NEW p \in Seq(Nat), NEW line, Follow(s, q, p, "typing", line)
  PROVE  Append(p, line + 1) \in Seq(Nat) /\ Follow(s, q, Append(p, line + 1), "typing", line + 1)
<1>0. PICK t : t = Append(p, line + 1)
  OBVIOUS
<1>1. line = Len(s) + Len(q) + Len(p) /\ line + 1 = Len(s) + Len(q) + Len(p) + 1 /\ line + 1 \in Nat /\ Len(s) + Len(q) \in Nat
  BY DEF Follow
<1>2. t \in Seq(Nat) /\ Len(t) = Len(p) + 1
  BY <1>0, <1>1, AppendElements
<1>3. Posted(t, Len(s) + Len(q), "typing")
  BY <1>0, <1>1, PostedAppend DEF Follow
<1>4. Follow(s, q, t, "typing", line + 1)
  BY ONLY <1>1, <1>2, <1>3, s \in Seq(Nat), q \in Seq(Nat), p \in Seq(Nat), Follow(s, q, p, "typing", line) DEF Follow
<1>. QED BY <1>0, <1>2, <1>4

LEMMA FollowClosed ==
  ASSUME NEW s \in Seq(Nat), NEW q \in Seq(Nat), NEW p \in Seq(Nat), NEW line, Follow(s, q, p, "typing", line)
  PROVE  Append(p, 0) \in Seq(Nat) /\ Follow(s, q, Append(p, 0), "join", line)
<1>0. PICK t : t = Append(p, 0)
  OBVIOUS
<1>1. t \in Seq(Nat) /\ Len(s) + Len(q) \in Nat
  BY <1>0
<1>2. Posted(t, Len(s) + Len(q), "join")
  BY <1>0, <1>1, PostedAppend DEF Follow
<1>3. Follow(s, q, t, "join", line)
  BY <1>1, <1>2 DEF Follow
<1>. QED BY <1>0, <1>1, <1>3

LEMMA FollowClosing ==
  ASSUME NEW s \in Seq(Nat), NEW q \in Seq(Nat), NEW p \in Seq(Nat), NEW at, NEW line, Follow(s, q, p, at, line),
         p # <<>>, p[1] = 0
  PROVE  Tail(p) \in Seq(Nat) /\ Follow(s, q, Tail(p), at, line)
<1>0. PICK t : t = Tail(p)
  OBVIOUS
<1>1. t \in Seq(Nat) /\ Len(s) + Len(q) \in Nat
  BY <1>0, TailElements
<1>2. Posted(t, Len(s) + Len(q), at) /\ at # "typing"
  BY <1>0, <1>1, PostedTail DEF Follow
<1>3. Follow(s, q, t, at, line)
  BY ONLY <1>1, <1>2, Follow(s, q, p, at, line) DEF Follow
<1>. QED BY <1>0, <1>1, <1>3

LEMMA FollowQueued ==
  ASSUME NEW s \in Seq(Nat), NEW q \in Seq(Nat), NEW p \in Seq(Nat), NEW at, NEW line, Follow(s, q, p, at, line),
         p # <<>>, p[1] # 0
  PROVE  /\ Tail(p) \in Seq(Nat) /\ Append(q, p[1]) \in Seq(Nat) /\ Append(q, p[1]) # <<>>
         /\ Follow(s, Append(q, p[1]), Tail(p), at, line)
<1>0. PICK t, u : t = Tail(p) /\ u = Append(q, p[1])
  OBVIOUS
<1>1. /\ t \in Seq(Nat) /\ Len(t) = Len(p) - 1 /\ p[1] \in Nat
      /\ Len(s) \in Nat /\ Len(q) \in Nat /\ Len(p) \in Nat /\ Len(s) + Len(q) \in Nat
  BY <1>0, TailElements
<1>2. Posted(t, Len(s) + Len(q) + 1, at) /\ p[1] = Len(s) + Len(q) + 1
  BY <1>0, <1>1, PostedTail DEF Follow
<1>3. u \in Seq(Nat) /\ Len(u) = Len(q) + 1
  BY <1>0, <1>1, AppendElements
<1>6. u # <<>>
  BY ONLY <1>1, <1>3
<1>4. Numbers(u, Len(s))
  BY <1>0, <1>1, <1>2, NumbersAppend DEF Follow
<1>5. Len(s) + Len(u) = Len(s) + Len(q) + 1 /\ Len(s) + Len(u) + Len(t) = Len(s) + Len(q) + Len(p)
  BY ONLY <1>1, <1>3
<1>7. Follow(s, u, t, at, line)
  BY ONLY <1>1, <1>2, <1>3, <1>4, <1>5, <1>6, Follow(s, q, p, at, line) DEF Follow
<1>. QED BY <1>0, <1>1, <1>3, <1>6, <1>7

LEMMA FollowSent ==
  ASSUME NEW s \in Seq(Nat), NEW q \in Seq(Nat), NEW p \in Seq(Nat), NEW at, NEW line, Follow(s, q, p, at, line),
         q # <<>>
  PROVE  Append(s, q[1]) \in Seq(Nat) /\ Tail(q) \in Seq(Nat) /\ Follow(Append(s, q[1]), Tail(q), p, at, line)
<1>0. PICK t, u : t = Append(s, q[1]) /\ u = Tail(q)
  OBVIOUS
<1>1. /\ u \in Seq(Nat) /\ Len(u) = Len(q) - 1 /\ q[1] \in Nat /\ Len(q) > 0
      /\ Len(s) \in Nat /\ Len(q) \in Nat /\ Len(p) \in Nat
  BY <1>0, TailElements
<1>2. Numbers(u, Len(s) + 1)
  BY <1>0, <1>1, NumbersTail DEF Follow
<1>3. q[1] = 0 + Len(s) + 1
  BY <1>1 DEF Follow, Numbers
<1>4. t \in Seq(Nat) /\ Len(t) = Len(s) + 1
  BY <1>0, <1>1, AppendElements
<1>5. Numbers(t, 0)
  BY <1>0, <1>1, <1>3, NumbersAppend DEF Follow
<1>6. Len(t) + Len(u) = Len(s) + Len(q)
  BY ONLY <1>1, <1>4
<1>7. Follow(t, u, p, at, line)
  BY ONLY <1>1, <1>2, <1>4, <1>5, <1>6, Follow(s, q, p, at, line) DEF Follow
<1>. QED BY <1>0, <1>1, <1>4, <1>7

Io(op, w, q, socket, c, returned) ==
  [op |-> op, writing |-> w, write_msgs_ |-> q, socket |-> socket, completed |-> c, returned |-> returned]

LEMMA ClosingKeeps ==
  ASSUME ClientTyped, NEW next, NEW which, Chat!Closing(next, which),
         next \in IoContexts
  PROVE  /\ v3'.op = next.op /\ v3'.writing = next.writing /\ v3'.write_msgs_ = next.write_msgs_
         /\ v3'.socket = "closed"
         /\ v3' \in IoContexts
<1>1. PICK done \in SUBSET {"read", "write"} : v3' = [next EXCEPT !.socket = "closed", !.completed = done]
  <2>1. Chat!Outstanding \subseteq {"read", "write"} /\ v3.completed \subseteq {"read", "write"}
    BY DEF Chat!Outstanding, ClientTyped, IoContexts
  <2>. QED BY <2>1 DEF Chat!Closing
<1>. QED BY <1>1 DEF IoContexts

LEMMA NextKeepsClientInv == ClientInv /\ Chat!Next => ClientInv'
<1> SUFFICES ASSUME ClientInv, Chat!Next PROVE ClientInv'
  OBVIOUS
<1>0. v1 \in [at : {"typing", "join", "done"}, line : Nat] /\ v2 \in Seq(Nat) /\ v4 \in Seq(Nat) /\ v3 \in IoContexts
  BY DEF ClientInv, ClientTyped
<1>a. v3.write_msgs_ \in Seq(Nat) /\ v3.writing \in 0 .. 1 /\ v3.completed \in SUBSET {"read", "write"} /\ v1.line \in Nat
  BY <1>0 DEF IoContexts
<1>b. LinesFollow /\ OneWrite
  BY DEF ClientInv
<1>1. CASE Chat!write
  <2>0. v1.at = "typing" /\ v1' = [at |-> "typing", line |-> v1.line + 1]
    BY <1>0, <1>1 DEF Chat!write
  <2>1. /\ v1.at = "typing" /\ v1'.at = "typing" /\ v1'.line = v1.line + 1
        /\ v1' \in [at : {"typing", "join", "done"}, line : Nat]
    BY <1>a, <2>0
  <2>2. v2' = Append(v2, v1.line + 1) /\ v3' = v3 /\ v4' = v4
    BY <1>0, <1>1 DEF Chat!write
  <2>3. v2' \in Seq(Nat) /\ LinesFollow'
    BY <1>0, <1>a, <1>b, <2>1, <2>2, FollowTyped DEF LinesFollow
  <2>4. ClientTyped' /\ OneWrite'
    BY <1>0, <1>b, <2>1, <2>2, <2>3 DEF OneWrite, ClientTyped
  <2>. QED BY <2>3, <2>4 DEF ClientInv
<1>2. CASE Chat!close
  <2>1. v1.at = "typing" /\ v1'.at = "join" /\ v1'.line = v1.line /\ v1' \in [at : {"typing", "join", "done"}, line : Nat]
    BY <1>0, <1>2 DEF Chat!close
  <2>2. v2' = Append(v2, 0) /\ v3' = v3 /\ v4' = v4
    BY <1>0, <1>2 DEF Chat!close, Chat!Close
  <2>3. v2' \in Seq(Nat) /\ LinesFollow'
    BY <1>0, <1>a, <1>b, <2>1, <2>2, FollowClosed DEF LinesFollow
  <2>4. ClientTyped' /\ OneWrite'
    BY <1>0, <1>b, <2>1, <2>2, <2>3 DEF OneWrite, ClientTyped
  <2>. QED BY <2>3, <2>4 DEF ClientInv
<1>3. CASE Chat!Join
  BY <1>0, <1>b, <1>3 DEF Chat!Join, ClientInv, ClientTyped, LinesFollow, Follow, Posted, OneWrite
<1>4. CASE Chat!RunPosted
  <2>0. v2 # <<>> /\ v2' = Tail(v2) /\ v1' = v1 /\ v4' = v4 /\ Head(v2) = v2[1] /\ v2[1] \in Nat /\ v2' \in Seq(Nat)
    BY <1>0, <1>4 DEF Chat!RunPosted
  <2>1. CASE v2[1] = 0
    <3>1. Chat!Closing(v3, "close")
      BY <1>4, <2>0, <2>1 DEF Chat!RunPosted, Chat!Close
    <3>2. v3'.op = v3.op /\ v3'.writing = v3.writing /\ v3'.write_msgs_ = v3.write_msgs_ /\ v3'.socket = "closed" /\ v3' \in IoContexts
      BY <1>0, <3>1, ClosingKeeps DEF ClientTyped
    <3>3. ClientTyped' /\ OneWrite'
      BY <1>0, <1>b, <2>0, <3>2 DEF OneWrite, ClientTyped
    <3>4. LinesFollow'
      BY <1>0, <1>a, <1>b, <2>0, <2>1, <3>2, FollowClosing DEF LinesFollow
    <3>. QED BY <3>3, <3>4 DEF ClientInv
  <2>2. CASE v2[1] # 0
    <3>1. v3.write_msgs_ = <<>> => v3.writing = 0
      BY <1>a, <1>b DEF OneWrite
    <3>2. v3' = Io(v3.op, IF v3.write_msgs_ = <<>> THEN v3.writing + 1 ELSE v3.writing, Append(v3.write_msgs_, v2[1]),
                v3.socket, v3.completed, v3.returned)
      BY <1>0, <1>4, <2>0, <2>2 DEF Chat!RunPosted, Chat!Push, Chat!Close, IoContexts, Io
    <3> DEFINE q == Append(v3.write_msgs_, v2[1])
               w == IF v3.write_msgs_ = <<>> THEN v3.writing + 1 ELSE v3.writing
    <3>3. q \in Seq(Nat) /\ w \in 0 .. 1 /\ w = IF v3.write_msgs_ = <<>> THEN 1 ELSE v3.writing
      BY <1>a, <2>0, <3>1
    <3>4. q # <<>> /\ Follow(v4, q, v2', v1.at, v1.line)
      BY <1>0, <1>a, <1>b, <2>0, <2>2, FollowQueued DEF LinesFollow
    <3> HIDE DEF q, w
    <3>5. v3' = Io(v3.op, w, q, v3.socket, v3.completed, v3.returned)
      BY <3>2 DEF q, w
    <3>6. v3' \in IoContexts /\ v3'.op = v3.op /\ v3'.socket = v3.socket /\ v3'.write_msgs_ = q /\ v3'.writing = w
      BY <1>0, <1>a, <3>3, <3>5 DEF Io, IoContexts
    <3>7. ClientTyped' /\ OneWrite'
      BY <1>0, <1>a, <1>b, <2>0, <3>3, <3>4, <3>6 DEF OneWrite, ClientTyped
    <3>8. LinesFollow'
      BY <2>0, <3>4, <3>6 DEF LinesFollow
    <3>. QED BY <3>7, <3>8 DEF ClientInv
  <2>. QED BY <2>1, <2>2
<1>5. CASE Chat!HandleConnect
  BY <1>5 DEF Chat!HandleConnect, LinesFollow, OneWrite, IoContexts, ClientInv, ClientTyped
<1>6. CASE Chat!ConnectFails
  BY <1>6 DEF Chat!ConnectFails, LinesFollow, OneWrite, IoContexts, ClientInv, ClientTyped
<1>7. CASE Chat!HandleRead
  BY <1>7 DEF Chat!HandleRead, LinesFollow, OneWrite, IoContexts, ClientInv, ClientTyped
<1>8. CASE Chat!ReadFails
  <2>1. PICK next : Chat!Closing(next, "read") /\ next = [v3 EXCEPT !.op = "none"]
    BY <1>8 DEF Chat!ReadFails
  <2>2. next \in IoContexts /\ next.op = "none" /\ next.writing = v3.writing /\ next.write_msgs_ = v3.write_msgs_
    BY <1>0, <2>1 DEF IoContexts
  <2>3. v3'.op = "none" /\ v3'.writing = v3.writing /\ v3'.write_msgs_ = v3.write_msgs_ /\ v3'.socket = "closed" /\ v3' \in IoContexts
    BY <1>0, <2>1, <2>2, ClosingKeeps DEF ClientTyped
  <2>4. v1' = v1 /\ v2' = v2 /\ v4' = v4
    BY <1>8 DEF Chat!ReadFails
  <2>. QED BY <1>0, <1>b, <2>3, <2>4 DEF ClientInv, ClientTyped, LinesFollow, OneWrite
<1>9. CASE Chat!HandleWrite
  <2>1. v3.writing = 1 /\ v3.write_msgs_ # <<>>
    BY <1>a, <1>b, <1>9 DEF Chat!HandleWrite, OneWrite
  <2>2. v1' = v1 /\ v2' = v2 /\ v4' = Append(v4, v3.write_msgs_[1])
    BY <1>a, <1>9, <2>1 DEF Chat!HandleWrite
  <2> DEFINE q == Tail(v3.write_msgs_)
             w == IF Len(v3.write_msgs_) > 1 THEN 1 ELSE 0
             c == v3.completed \ {"write"}
  <2>3. q \in Seq(Nat) /\ w \in 0 .. 1 /\ c \in SUBSET {"read", "write"} /\ 1 - 1 = 0
    BY <1>a, <2>1
  <2>4. v3' = Io(v3.op, w, q, v3.socket, c, v3.returned)
    <3>1. v3' = [v3 EXCEPT !.write_msgs_ = q, !.completed = c, !.writing = w]
      BY <1>0, <1>9, <2>1, <2>3 DEF Chat!HandleWrite, IoContexts
    <3> HIDE DEF q, w, c
    <3>. QED BY <1>0, <3>1 DEF IoContexts, Io
  <2>5. Follow(v4', q, v2, v1.at, v1.line) /\ v4' \in Seq(Nat)
    BY <1>0, <1>a, <1>b, <2>1, <2>2, FollowSent DEF LinesFollow
  <2>6. Len(v3.write_msgs_) \in Nat /\ Len(q) = Len(v3.write_msgs_) - 1
    BY <1>a, <2>1
  <2> HIDE DEF q
  <2>7. w = 1 <=> q # <<>>
    BY <2>3, <2>5, <2>6
  <2> HIDE DEF w, c
  <2>8. v3' \in IoContexts /\ v3'.op = v3.op /\ v3'.socket = v3.socket /\ v3'.write_msgs_ = q /\ v3'.writing = w
    BY <1>0, <2>3, <2>4 DEF Io, IoContexts
  <2>9. ClientTyped' /\ OneWrite'
    BY <1>0, <1>a, <1>b, <2>2, <2>3, <2>5, <2>7, <2>8 DEF OneWrite, ClientTyped
  <2>10. LinesFollow'
    BY <2>2, <2>5, <2>8 DEF LinesFollow
  <2>. QED BY <2>9, <2>10 DEF ClientInv
<1>10. CASE Chat!WriteFails
  <2>1. PICK next : Chat!Closing(next, "write") /\ next = [v3 EXCEPT !.writing = v3.writing - 1]
    BY <1>0, <1>10 DEF Chat!WriteFails, IoContexts
  <2>2. v3.writing = 1 /\ next = Io(v3.op, v3.writing - 1, v3.write_msgs_, v3.socket, v3.completed, v3.returned)
    <3>1. v3.writing = 1
      BY <1>a, <1>10 DEF Chat!WriteFails
    <3>. QED BY <1>0, <2>1, <3>1 DEF IoContexts, Io
  <2>3. next \in IoContexts /\ next.op = v3.op /\ next.writing = 0 /\ next.write_msgs_ = v3.write_msgs_
    <3>1. v3.writing - 1 = 0 /\ 0 \in 0 .. 1
      BY <2>2
    <3>. QED BY <1>0, <1>a, <2>2, <3>1 DEF Io, IoContexts
  <2>4. v3'.op = v3.op /\ v3'.writing = 0 /\ v3'.write_msgs_ = v3.write_msgs_ /\ v3'.socket = "closed" /\ v3' \in IoContexts
    BY <1>0, <2>1, <2>3, ClosingKeeps DEF ClientTyped
  <2>5. v1' = v1 /\ v2' = v2 /\ v4' = v4
    BY <1>10 DEF Chat!WriteFails
  <2>. QED BY <1>0, <1>b, <2>4, <2>5 DEF ClientInv, ClientTyped, LinesFollow, OneWrite
<1>11. CASE Chat!RunReturns
  BY <1>11 DEF Chat!RunReturns, LinesFollow, OneWrite, IoContexts, ClientInv, ClientTyped
<1>. QED BY <1>1, <1>2, <1>3, <1>4, <1>5, <1>6, <1>7, <1>8, <1>9, <1>10, <1>11 DEF Chat!Next, Chat!OwnStep

LEMMA ClientInvOrders == ClientInv => Chat!LinesInOrder
BY DEF ClientInv, ClientTyped, IoContexts, LinesFollow, Follow, Numbers, OneWrite, Chat!LinesInOrder

-----------------------------------------------------------------------------
\* The chat room: v1 are the participants, v2 the recent messages, v3 the queues,
\* v4 what is read, v5 who writes, v6 the fresh clients, v7 the log, v8 the first
\* message for each client, v9 what was written.

RoomTyped ==
  /\ v1 \subseteq Sessions /\ v5 \subseteq Sessions /\ v6 \subseteq Sessions
  /\ v2 \in Seq(Nat) /\ v7 \in Seq(Nat)
  /\ v3 \in [Sessions -> Seq(Nat)] /\ v9 \in [Sessions -> Seq(Nat)]
  /\ v4 \in [Sessions -> {"no", "header", "body"}]
  /\ v8 \in [Sessions -> Nat]

\* A message is its number; the recent ones are the last of them.
RoomLog ==
  /\ Numbers(v7, 0) /\ Len(v7) <= MaxMessages
  /\ Len(v2) = IF Len(v7) > max_recent_msgs THEN max_recent_msgs ELSE Len(v7)
  /\ Numbers(v2, Len(v7) - Len(v2))

\* Written and queued messages are those after a, at most n.
Given(w, q, a, n) == a \in Nat /\ Numbers(w, a) /\ Numbers(q, a + Len(w)) /\ a + Len(w) + Len(q) <= n

AllGiven(w, q, a, n) == Given(w, q, a, n) /\ a + Len(w) + Len(q) = n

QueueInv(p) ==
  /\ p \in v6 => p \notin v1 /\ v3[p] = <<>> /\ v9[p] = <<>>
  /\ p \notin v6 => Given(v9[p], v3[p], v8[p] - 1, Len(v7))
  /\ p \in v1 => AllGiven(v9[p], v3[p], v8[p] - 1, Len(v7)) /\ (v3[p] # <<>> => p \in v5)
  /\ p \in v5 => v3[p] # <<>>

RoomInv == RoomTyped /\ RoomLog /\ \A p \in Sessions : QueueInv(p)

LEMMA InitRoomInv == Room!Init => RoomInv
<1> SUFFICES ASSUME Room!Init PROVE RoomInv
  OBVIOUS
<1>1. RoomTyped
  BY DEF Room!Init, RoomTyped
<1>2. RoomLog
  BY SizesAssumption DEF Room!Init, RoomLog, Numbers
<1>3. \A p \in Sessions : QueueInv(p)
  BY DEF Room!Init, QueueInv
<1>. QED BY <1>1, <1>2, <1>3 DEF RoomInv

\* A message for everybody, for those who have left, and written.
LEMMA GivenMore ==
  ASSUME NEW w \in Seq(Nat), NEW q \in Seq(Nat), NEW a, NEW n \in Nat, AllGiven(w, q, a, n)
  PROVE  AllGiven(w, q \o <<n + 1>>, a, n + 1) /\ q \o <<n + 1>> # <<>> /\ q \o <<n + 1>> \in Seq(Nat)
<1>1. PICK t : t = Append(q, n + 1)
  OBVIOUS
<1>2. t = q \o <<n + 1>>
  BY <1>1
<1>3. n = a + Len(w) + Len(q) /\ a \in Nat /\ Len(w) \in Nat /\ Len(q) \in Nat /\ a + Len(w) \in Nat
  BY DEF AllGiven, Given
<1>4. Numbers(t, a + Len(w))
  BY <1>1, <1>3, NumbersAppend DEF AllGiven, Given
<1>5. t \in Seq(Nat) /\ Len(t) = Len(q) + 1
  BY <1>1, AppendElements
<1>6. t # <<>>
  BY ONLY <1>3, <1>5
<1>7. AllGiven(w, t, a, n + 1)
  BY ONLY <1>3, <1>4, <1>5, AllGiven(w, q, a, n), n \in Nat DEF AllGiven, Given
<1>. QED BY <1>2, <1>5, <1>6, <1>7

LEMMA GivenLess ==
  ASSUME NEW w \in Seq(Nat), NEW q \in Seq(Nat), NEW a, NEW n \in Nat, Given(w, q, a, n)
  PROVE  Given(w, q, a, n + 1)
BY DEF Given

LEMMA GivenWritten ==
  ASSUME NEW w \in Seq(Nat), NEW q \in Seq(Nat), NEW a, NEW n \in Nat, Given(w, q, a, n), q # <<>>
  PROVE  /\ Append(w, Head(q)) \in Seq(Nat) /\ Tail(q) \in Seq(Nat)
         /\ Given(Append(w, Head(q)), Tail(q), a, n)
         /\ AllGiven(w, q, a, n) => AllGiven(Append(w, Head(q)), Tail(q), a, n)
         /\ Len(q) > 1 <=> Tail(q) # <<>>
<1>1. PICK t, u : t = Append(w, Head(q)) /\ u = Tail(q)
  OBVIOUS
<1>2. /\ u \in Seq(Nat) /\ Len(u) = Len(q) - 1 /\ q[1] \in Nat /\ Len(q) > 0 /\ Head(q) = q[1]
      /\ Len(w) \in Nat /\ Len(q) \in Nat
  BY <1>1, TailElements
<1>3. a \in Nat /\ a + Len(w) \in Nat /\ Numbers(w, a) /\ Numbers(q, a + Len(w))
  BY <1>2 DEF Given
<1>4. Numbers(u, a + Len(w) + 1)
  BY <1>1, <1>3, NumbersTail
<1>5. q[1] = a + Len(w) + 1
  BY <1>2, <1>3 DEF Numbers
<1>6. t \in Seq(Nat) /\ Len(t) = Len(w) + 1
  BY <1>1, <1>2, AppendElements
<1>7. Numbers(t, a)
  BY <1>1, <1>2, <1>3, <1>5, NumbersAppend
<1>8. a + Len(t) = a + Len(w) + 1 /\ a + Len(t) + Len(u) = a + Len(w) + Len(q)
  BY ONLY <1>2, <1>3, <1>6
<1>9. Given(t, u, a, n) /\ (AllGiven(w, q, a, n) => AllGiven(t, u, a, n))
  BY ONLY <1>2, <1>3, <1>4, <1>6, <1>7, <1>8, Given(w, q, a, n) DEF AllGiven, Given
<1>10. Len(q) > 1 <=> u # <<>>
  BY ONLY <1>2
<1>. QED BY <1>1, <1>2, <1>6, <1>9, <1>10

\* The recent messages are the last of the log.
LEMMA RecentLog ==
  ASSUME NEW r \in Seq(Nat), NEW n \in Nat, Numbers(r, n - Len(r)), Len(r) <= n,
         Len(r) = IF n > max_recent_msgs THEN max_recent_msgs ELSE n
  PROVE  LET t == Room!Recent(Append(r, n + 1))
         IN  /\ t \in Seq(Nat) /\ Numbers(t, n + 1 - Len(t)) /\ Len(t) <= n + 1
             /\ Len(t) = IF n + 1 > max_recent_msgs THEN max_recent_msgs ELSE n + 1
<1>1. PICK s : s = Append(r, n + 1)
  OBVIOUS
<1>2. PICK a \in Nat : a = n - Len(r) /\ Numbers(r, a)
  OBVIOUS
<1>3. n + 1 = a + Len(r) + 1 /\ Len(r) \in Nat /\ max_recent_msgs \in Nat
  BY <1>2, SizesAssumption
<1>4. s \in Seq(Nat) /\ Len(s) = Len(r) + 1
  BY <1>1, AppendElements
<1>5. Numbers(s, a)
  BY <1>1, <1>2, <1>3, NumbersAppend
<1>6. PICK k : k = (IF Len(s) > max_recent_msgs THEN Len(s) - max_recent_msgs ELSE 0)
  OBVIOUS
<1>7. k \in Nat /\ k <= Len(s)
  BY ONLY <1>3, <1>4, <1>6
<1>8. PICK t : t = SubSeq(s, k + 1, Len(s))
  OBVIOUS
<1>9. t = Room!Recent(s)
  <2>1. 1 + k = k + 1
    BY <1>7
  <2>. QED BY <1>6, <1>8, <2>1 DEF Room!Recent
<1>10. t \in Seq(Nat) /\ Len(t) = Len(s) - k /\ \A i \in 1 .. Len(t) : t[i] = s[k + i]
  BY ONLY <1>4, <1>7, <1>8
<1>11. Len(t) = IF n + 1 > max_recent_msgs THEN max_recent_msgs ELSE n + 1
  BY ONLY <1>3, <1>4, <1>6, <1>10, n \in Nat, Len(r) = IF n > max_recent_msgs THEN max_recent_msgs ELSE n
<1>12. n + 1 - Len(t) = a + k
  BY ONLY <1>2, <1>3, <1>4, <1>7, <1>10, n \in Nat
<1>13. \A i \in 1 .. Len(t) : t[i] = (a + k) + i
  BY ONLY <1>2, <1>4, <1>5, <1>7, <1>10 DEF Numbers
<1>14. Len(t) <= n + 1
  BY ONLY <1>3, <1>11, n \in Nat
<1>15. Numbers(t, n + 1 - Len(t))
  BY ONLY <1>12, <1>13 DEF Numbers
<1>. QED BY <1>1, <1>9, <1>10, <1>11, <1>14, <1>15

LEMMA NextKeepsRoomInv == RoomInv /\ Room!Next => RoomInv'
<1> SUFFICES ASSUME RoomInv, Room!Next PROVE RoomInv'
  OBVIOUS
<1>0. RoomTyped /\ RoomLog /\ \A p \in Sessions : QueueInv(p)
  BY DEF RoomInv
<1>a. /\ v2 \in Seq(Nat) /\ v7 \in Seq(Nat) /\ Len(v7) \in Nat /\ Len(v2) \in Nat /\ Len(v2) <= Len(v7)
      /\ \A p \in Sessions : v3[p] \in Seq(Nat) /\ v9[p] \in Seq(Nat) /\ v8[p] \in Nat
  BY <1>0, SizesAssumption DEF RoomTyped, RoomLog
<1>1. ASSUME NEW p \in Sessions, Room!Accept(p) PROVE RoomInv'
  <2>1. /\ p \in v6 /\ v6' = v6 \ {p} /\ v1' = v1 \cup {p} /\ v2' = v2 /\ v7' = v7 /\ v9' = v9
        /\ v3' = [x \in Sessions |-> IF x = p THEN v3[x] \o v2 ELSE v3[x]]
        /\ v5' = v5 \cup {x \in {p} : v2 # <<>> /\ v3[x] = <<>>}
        /\ v4' = [v4 EXCEPT ![p] = "header"]
        /\ v8' = [v8 EXCEPT ![p] = Len(v7) - Len(v2) + 1]
    BY <1>1 DEF Room!Accept, Room!DeliverTo
  <2>2. v3[p] = <<>> /\ v9[p] = <<>> /\ p \notin v5 /\ p \notin v1
    BY <1>0, <2>1 DEF QueueInv
  <2>3. v3'[p] = v2 /\ v8'[p] = Len(v7) - Len(v2) + 1 /\ v8'[p] - 1 = Len(v7) - Len(v2) /\ Len(v7) - Len(v2) \in Nat
    BY <1>0, <1>a, <2>1, <2>2 DEF RoomTyped
  <2>4. \A x \in Sessions : x # p => v3'[x] = v3[x] /\ v8'[x] = v8[x] /\ (x \in v5' <=> x \in v5)
    BY <1>0, <2>1 DEF RoomTyped
  <2>5. RoomTyped'
    BY <1>0, <1>a, <2>1, <2>3, <2>4 DEF RoomTyped
  <2>6. RoomLog'
    BY <1>0, <2>1 DEF RoomLog
  <2>7. AllGiven(v9'[p], v3'[p], v8'[p] - 1, Len(v7'))
    <3>1. PICK a \in Nat : a = Len(v7) - Len(v2) /\ v8'[p] - 1 = a
      BY <2>3
    <3>2. Numbers(v2, a)
      BY <1>0, <3>1 DEF RoomLog
    <3>3. a + 0 + Len(v2) = Len(v7) /\ a + 0 = a
      BY <1>a, <3>1
    <3>4. Len(<<>>) = 0 /\ Numbers(<<>>, a)
      BY DEF Numbers
    <3>5. AllGiven(<<>>, v2, a, Len(v7))
      BY ONLY <1>a, <3>1, <3>2, <3>3, <3>4 DEF AllGiven, Given
    <3>. QED BY <2>1, <2>2, <2>3, <3>1, <3>5
  <2>8. p \in v5' <=> v3'[p] # <<>>
    BY <2>1, <2>2, <2>3
  <2>9. ASSUME NEW x \in Sessions PROVE QueueInv(x)'
    <3>1. CASE x = p
      BY <2>1, <2>7, <2>8, <3>1 DEF QueueInv, AllGiven
    <3>2. CASE x # p
      <4>1. QueueInv(x)
        BY <1>0
      <4>. QED BY <2>1, <2>4, <3>2, <4>1 DEF QueueInv
    <3>. QED BY <3>1, <3>2
  <2>. QED BY <2>5, <2>6, <2>9 DEF RoomInv
<1>2. ASSUME NEW p \in Sessions, Room!HandleHeader(p) \/ Room!BodyFails(p) PROVE RoomInv'
  <2>1. /\ v4' \in [Sessions -> {"no", "header", "body"}] /\ (v1' = v1 \/ v1' = v1 \ {p})
        /\ UNCHANGED <<v2, v3, v5, v6, v7, v8, v9>>
    BY <1>0, <1>2 DEF Room!HandleHeader, Room!BodyFails, Room!leave, RoomTyped
  <2>2. RoomTyped' /\ RoomLog'
    BY <1>0, <2>1 DEF RoomTyped, RoomLog
  <2>3. \A x \in Sessions : QueueInv(x)'
    BY <1>0, <2>1 DEF QueueInv
  <2>. QED BY <2>2, <2>3 DEF RoomInv
<1>3. ASSUME NEW p \in Sessions, Room!HandleBody(p) PROVE RoomInv'
  <2>1. /\ Len(v7) < MaxMessages
        /\ v2' = Room!Recent(Append(v2, Len(v7) + 1)) /\ v7' = Append(v7, Len(v7) + 1)
        /\ v3' = [x \in Sessions |-> IF x \in v1 THEN v3[x] \o <<Len(v7) + 1>> ELSE v3[x]]
        /\ v5' = v5 \cup {x \in v1 : v3[x] = <<>>}
        /\ v4' = [v4 EXCEPT ![p] = "header"] /\ UNCHANGED <<v1, v6, v8, v9>>
    BY <1>3 DEF Room!HandleBody, Room!DeliverTo
  <2>2. /\ v2' \in Seq(Nat) /\ Numbers(v2', Len(v7) + 1 - Len(v2')) /\ Len(v2') <= Len(v7) + 1
        /\ Len(v2') = IF Len(v7) + 1 > max_recent_msgs THEN max_recent_msgs ELSE Len(v7) + 1
    BY <1>0, <1>a, <2>1, RecentLog DEF RoomLog
  <2>3. v7' \in Seq(Nat) /\ Len(v7') = Len(v7) + 1
    BY <1>a, <2>1
  <2>4. Numbers(v7', 0)
    <3>1. Len(v7) + 1 = 0 + Len(v7) + 1
      BY <1>a
    <3>. QED BY <1>0, <1>a, <2>1, <3>1, NumbersAppend DEF RoomLog
  <2>5. RoomLog'
    BY <1>a, <2>1, <2>2, <2>3, <2>4, SizesAssumption DEF RoomLog
  <2>6. ASSUME NEW x \in v1
        PROVE  AllGiven(v9'[x], v3'[x], v8'[x] - 1, Len(v7')) /\ v3'[x] # <<>> /\ v3'[x] \in Seq(Nat) /\ x \in v5'
    <3>1. x \in Sessions /\ AllGiven(v9[x], v3[x], v8[x] - 1, Len(v7)) /\ (v3[x] # <<>> => x \in v5)
      BY <1>0 DEF RoomTyped, QueueInv
    <3>2. /\ AllGiven(v9[x], v3[x] \o <<Len(v7) + 1>>, v8[x] - 1, Len(v7) + 1)
          /\ v3[x] \o <<Len(v7) + 1>> # <<>> /\ v3[x] \o <<Len(v7) + 1>> \in Seq(Nat)
      BY <1>a, <3>1, GivenMore
    <3>3. v3'[x] = v3[x] \o <<Len(v7) + 1>> /\ x \in v5' /\ v9' = v9 /\ v8' = v8
      BY <2>1, <3>1
    <3>. QED BY <2>3, <3>2, <3>3
  <2>7. RoomTyped'
    <3>1. v3' \in [Sessions -> Seq(Nat)]
      BY <1>a, <2>1, <2>6
    <3>. QED BY <1>0, <2>1, <2>2, <2>3, <3>1 DEF RoomTyped
  <2>8. ASSUME NEW x \in Sessions PROVE QueueInv(x)'
    <3>0. QueueInv(x)
      BY <1>0
    <3>1. CASE x \in v1
      BY <2>1, <2>6, <3>0, <3>1 DEF QueueInv, AllGiven
    <3>2. CASE x \notin v1
      <4>1. v3'[x] = v3[x] /\ (x \in v5' <=> x \in v5) /\ UNCHANGED <<v1, v6, v8, v9>>
        BY <2>1, <3>2
      <4>2. x \notin v6 => Given(v9[x], v3[x], v8[x] - 1, Len(v7'))
        BY <1>a, <2>3, <3>0, GivenLess DEF QueueInv
      <4>. QED BY <3>0, <3>2, <4>1, <4>2 DEF QueueInv
    <3>. QED BY <3>1, <3>2
  <2>. QED BY <2>5, <2>7, <2>8 DEF RoomInv
<1>4. ASSUME NEW p \in Sessions, Room!HandleWrite(p) PROVE RoomInv'
  <2>1. /\ p \in v5 /\ v9' = [v9 EXCEPT ![p] = Append(v9[p], Head(v3[p]))]
        /\ v3' = [v3 EXCEPT ![p] = Tail(v3[p])]
        /\ v5' = (IF Len(v3[p]) > 1 THEN v5 ELSE v5 \ {p})
        /\ UNCHANGED <<v1, v2, v4, v6, v7, v8>>
    BY <1>0, <1>4 DEF Room!HandleWrite, RoomTyped
  <2>2. v3[p] # <<>> /\ p \notin v6 /\ Given(v9[p], v3[p], v8[p] - 1, Len(v7))
    BY <1>0, <2>1 DEF QueueInv
  <2>3. /\ Append(v9[p], Head(v3[p])) \in Seq(Nat) /\ Tail(v3[p]) \in Seq(Nat)
        /\ Given(Append(v9[p], Head(v3[p])), Tail(v3[p]), v8[p] - 1, Len(v7))
        /\ AllGiven(v9[p], v3[p], v8[p] - 1, Len(v7)) =>
             AllGiven(Append(v9[p], Head(v3[p])), Tail(v3[p]), v8[p] - 1, Len(v7))
        /\ Len(v3[p]) > 1 <=> Tail(v3[p]) # <<>>
    BY <1>a, <2>2, GivenWritten
  <2>4. /\ v9'[p] = Append(v9[p], Head(v3[p])) /\ v3'[p] = Tail(v3[p])
        /\ \A x \in Sessions : x # p => v9'[x] = v9[x] /\ v3'[x] = v3[x] /\ (x \in v5' <=> x \in v5)
    BY <1>0, <2>1 DEF RoomTyped
  <2>5. RoomTyped' /\ RoomLog'
    BY <1>0, <2>1, <2>3 DEF RoomTyped, RoomLog
  <2>6. p \in v5' <=> v3'[p] # <<>>
    BY <2>1, <2>3, <2>4
  <2>7. ASSUME NEW x \in Sessions PROVE QueueInv(x)'
    <3>0. QueueInv(x)
      BY <1>0
    <3>1. CASE x = p
      BY <2>1, <2>2, <2>3, <2>4, <2>6, <3>0, <3>1 DEF QueueInv
    <3>2. CASE x # p
      BY <2>1, <2>4, <3>0, <3>2 DEF QueueInv
    <3>. QED BY <3>1, <3>2
  <2>. QED BY <2>5, <2>7 DEF RoomInv
<1>5. ASSUME NEW p \in Sessions, Room!WriteFails(p) PROVE RoomInv'
  <2>1. v5' = v5 \ {p} /\ v1' = v1 \ {p} /\ UNCHANGED <<v2, v3, v4, v6, v7, v8, v9>>
    BY <1>5 DEF Room!WriteFails, Room!leave
  <2>2. RoomTyped' /\ RoomLog'
    BY <1>0, <2>1 DEF RoomTyped, RoomLog
  <2>3. \A x \in Sessions : QueueInv(x)'
    BY <1>0, <2>1 DEF QueueInv
  <2>. QED BY <2>2, <2>3 DEF RoomInv
<1>6. CASE Room!Deserted
  BY <1>0, <1>6 DEF Room!Deserted, Room!vars, RoomInv, RoomTyped, RoomLog, QueueInv
<1>. QED BY <1>1, <1>2, <1>3, <1>4, <1>5, <1>6 DEF Room!Next, Room!Session

\* What is written and queued is the log from there on, or a beginning of it.
LEMMA GivenIsTheLog ==
  ASSUME NEW w \in Seq(Nat), NEW q \in Seq(Nat), NEW l \in Seq(Nat), NEW f \in Nat,
         Numbers(l, 0), Given(w, q, f - 1, Len(l))
  PROVE  /\ Room!IsPrefix(w \o q, SubSeq(l, f, Len(l)))
         /\ AllGiven(w, q, f - 1, Len(l)) => w \o q = SubSeq(l, f, Len(l))
<1>1. PICK g : g = w \o q
  OBVIOUS
<1>2. PICK s : s = SubSeq(l, f, Len(l))
  OBVIOUS
<1>3. /\ f >= 1 /\ Numbers(w, f - 1) /\ Numbers(q, f - 1 + Len(w)) /\ f - 1 + Len(w) + Len(q) <= Len(l)
      /\ Len(w) \in Nat /\ Len(q) \in Nat /\ Len(l) \in Nat
  BY DEF Given
<1>4. /\ g \in Seq(Nat) /\ Len(g) = Len(w) + Len(q)
      /\ (\A i \in 1 .. Len(w) : g[i] = w[i]) /\ (\A i \in 1 .. Len(q) : g[Len(w) + i] = q[i])
  BY ONLY <1>1, w \in Seq(Nat), q \in Seq(Nat)
<1>5. s \in Seq(Nat) /\ Len(s) = Len(l) - f + 1 /\ \A i \in 1 .. Len(s) : s[i] = l[f - 1 + i]
  BY ONLY <1>2, <1>3, l \in Seq(Nat), f \in Nat
<1>6. ASSUME NEW i \in 1 .. Len(g) PROVE g[i] = s[i]
  <2>1. i \in Nat /\ i >= 1 /\ i <= Len(w) + Len(q) /\ i \in 1 .. Len(s) /\ f - 1 + i \in 1 .. Len(l)
    BY <1>3, <1>4, <1>5
  <2>2. s[i] = f - 1 + i
    <3>1. PICK k \in 1 .. Len(l) : k = f - 1 + i
      BY <2>1
    <3>2. l[k] = k
      BY ONLY <1>3, <3>1, Numbers(l, 0) DEF Numbers
    <3>. QED BY ONLY <1>5, <2>1, <3>1, <3>2
  <2>3. CASE i <= Len(w)
    BY <1>3, <1>4, <2>1, <2>2, <2>3 DEF Numbers
  <2>4. CASE i > Len(w)
    <3>1. PICK k \in 1 .. Len(q) : i = Len(w) + k
      <4>1. i - Len(w) \in 1 .. Len(q) /\ i = Len(w) + (i - Len(w))
        BY <1>3, <2>1, <2>4
      <4>. QED BY <4>1
    <3>2. g[i] = q[k] /\ q[k] = f - 1 + Len(w) + k
      BY <1>3, <1>4, <3>1 DEF Numbers
    <3>. QED BY <1>3, <2>2, <3>1, <3>2
  <2>. QED BY <1>3, <2>1, <2>3, <2>4
<1>7. Len(g) <= Len(s) /\ (AllGiven(w, q, f - 1, Len(l)) => Len(g) = Len(s))
  BY <1>3, <1>4, <1>5 DEF AllGiven
<1>8. AllGiven(w, q, f - 1, Len(l)) => g = s
  <2>1. ASSUME Len(g) = Len(s) PROVE g = s
    BY ONLY <1>4, <1>5, <1>6, <2>1, SameSequence
  <2>. QED BY <1>7, <2>1
<1>9. SubSeq(g, 1, Len(g)) = SubSeq(s, 1, Len(g))
  <2>1. PICK x : x = SubSeq(g, 1, Len(g))
    OBVIOUS
  <2>2. PICK y : y = SubSeq(s, 1, Len(g))
    OBVIOUS
  <2>3. x \in Seq(Nat) /\ Len(x) = Len(g) /\ \A i \in 1 .. Len(g) : x[i] = g[i]
    BY ONLY <1>4, <2>1
  <2>4. y \in Seq(Nat) /\ Len(y) = Len(g) /\ \A i \in 1 .. Len(g) : y[i] = s[i]
    <3>1. Len(g) \in Nat /\ Len(s) \in Nat /\ Len(g) <= Len(s)
      BY <1>4, <1>5, <1>7
    <3>. QED BY ONLY <1>5, <3>1, <2>2
  <2>5. \A i \in 1 .. Len(x) : x[i] = y[i]
    BY <1>6, <2>3, <2>4
  <2>6. x = y
    BY ONLY <2>3, <2>4, <2>5, SameSequence
  <2>. QED BY <2>1, <2>2, <2>6
<1>10. Room!IsPrefix(g, s)
  BY <1>7, <1>9 DEF Room!IsPrefix
<1>. QED BY <1>1, <1>2, <1>8, <1>10

LEMMA RoomInvGives == RoomInv => Room!TypeOK /\ Room!EveryoneGetsTheLog /\ Room!QueuesMove
<1> SUFFICES ASSUME RoomInv PROVE Room!TypeOK /\ Room!EveryoneGetsTheLog /\ Room!QueuesMove
  OBVIOUS
<1>0. RoomTyped /\ RoomLog /\ \A p \in Sessions : QueueInv(p)
  BY DEF RoomInv
<1>a. /\ v2 \in Seq(Nat) /\ v7 \in Seq(Nat) /\ Len(v7) \in Nat /\ Len(v2) \in Nat /\ Len(v2) <= Len(v7)
      /\ \A p \in Sessions : v3[p] \in Seq(Nat) /\ v9[p] \in Seq(Nat) /\ v8[p] \in Nat
  BY <1>0, SizesAssumption DEF RoomTyped, RoomLog
<1>1. Room!TypeOK
  <2>1. ASSUME NEW p \in Sessions PROVE v3[p] \in Seq(1 .. MaxMessages)
    <3>1. PICK q : q = v3[p] /\ q \in Seq(Nat)
      BY <1>a
    <3>2. CASE q = <<>>
      BY <3>1, <3>2
    <3>3. CASE q # <<>>
      <4>1. Given(v9[p], q, v8[p] - 1, Len(v7))
        BY <1>0, <3>1, <3>3 DEF QueueInv
      <4>2. PICK b \in Nat : Numbers(q, b) /\ b + Len(q) <= Len(v7)
        <5>1. v8[p] - 1 + Len(v9[p]) \in Nat
          BY <1>a, <4>1 DEF Given
        <5>. QED BY <4>1, <5>1 DEF Given
      <4>3. \A i \in 1 .. Len(q) : q[i] \in 1 .. MaxMessages
        <5>1. PICK m \in Nat : m = Len(v7)
          BY <1>a
        <5>2. m <= MaxMessages /\ MaxMessages \in Nat
          BY <1>0, <5>1, SizesAssumption DEF RoomLog
        <5>. QED BY ONLY <3>1, <4>2, <5>1, <5>2 DEF Numbers
      <4>4. q \in Seq(1 .. MaxMessages)
        <5>1. Len(q) \in Nat /\ q \in [1 .. Len(q) -> Nat]
          BY <3>1
        <5>2. q \in [1 .. Len(q) -> 1 .. MaxMessages]
          BY ONLY <4>3, <5>1
        <5>. QED BY ONLY <5>1, <5>2, SeqDef
      <4>. QED BY <3>1, <4>4
    <3>. QED BY <3>2, <3>3
  <2>2. v3 \in [Sessions -> Seq(1 .. MaxMessages)]
    BY <1>0, <2>1 DEF RoomTyped
  <2>3. v5 \subseteq {p \in Sessions : v3[p] # <<>>}
    BY <1>0 DEF RoomTyped, QueueInv
  <2>4. Len(v2) <= max_recent_msgs
    BY <1>0, <1>a, SizesAssumption DEF RoomLog
  <2>. QED BY <1>0, <2>2, <2>3, <2>4 DEF Room!TypeOK, RoomTyped
<1>2. Room!EveryoneGetsTheLog
  <2>1. ASSUME NEW p \in Sessions \ v6
        PROVE  /\ Room!IsPrefix(v9[p] \o v3[p], SubSeq(v7, v8[p], Len(v7)))
               /\ p \in v1 => v9[p] \o v3[p] = SubSeq(v7, v8[p], Len(v7))
    <3>1. Given(v9[p], v3[p], v8[p] - 1, Len(v7)) /\ (p \in v1 => AllGiven(v9[p], v3[p], v8[p] - 1, Len(v7)))
      BY <1>0, <2>1 DEF QueueInv
    <3>2. Numbers(v7, 0)
      BY <1>0 DEF RoomLog
    <3>. QED BY <1>a, <3>1, <3>2, GivenIsTheLog
  <2>. QED BY <2>1 DEF Room!EveryoneGetsTheLog
<1>3. Room!QueuesMove
  <2>1. \A p \in v1 : p \in v5 <=> v3[p] # <<>>
    BY <1>0 DEF RoomTyped, QueueInv
  <2>2. PICK r, l : r = v2 /\ l = v7
    OBVIOUS
  <2>3. PICK k : k = (IF Len(l) > max_recent_msgs THEN Len(l) - max_recent_msgs ELSE 0)
    OBVIOUS
  <2>4. PICK t : t = SubSeq(l, k + 1, Len(l))
    OBVIOUS
  <2>5. /\ l \in Seq(Nat) /\ r \in Seq(Nat) /\ Len(l) \in Nat /\ k \in Nat /\ k <= Len(l)
        /\ Len(r) = Len(l) - k /\ Numbers(l, 0) /\ Numbers(r, k)
    <3>1. l \in Seq(Nat) /\ r \in Seq(Nat) /\ Len(l) \in Nat /\ k \in Nat /\ k <= Len(l) /\ Len(r) = Len(l) - k
      <4>1. /\ l \in Seq(Nat) /\ r \in Seq(Nat) /\ Len(l) \in Nat /\ Len(r) \in Nat /\ max_recent_msgs \in Nat
            /\ Len(r) = IF Len(l) > max_recent_msgs THEN max_recent_msgs ELSE Len(l)
        BY <1>0, <1>a, <2>2, SizesAssumption DEF RoomLog
      <4>2. PICK x, y \in Nat : x = Len(l) /\ y = Len(r)
        BY <4>1
      <4>3. k \in Nat /\ k <= x /\ y = x - k
        BY ONLY <2>3, <4>1, <4>2
      <4>. QED BY ONLY <4>1, <4>2, <4>3
    <3>2. Len(l) - Len(r) = k
      BY ONLY <3>1
    <3>. QED BY <1>0, <2>2, <3>1, <3>2 DEF RoomLog
  <2>6. t \in Seq(Nat) /\ Len(t) = Len(l) - k /\ \A i \in 1 .. Len(t) : t[i] = l[k + i]
    <3>1. l \in Seq(Nat) /\ k \in Nat /\ k <= Len(l) /\ Len(l) \in Nat
      BY ONLY <2>5
    <3>2. k + 1 \in Int /\ Len(l) \in Int /\ \A i \in k + 1 .. Len(l) : l[i] \in Nat
      BY ONLY <3>1
    <3>3. /\ t \in Seq(Nat) /\ Len(t) = (IF k + 1 <= Len(l) THEN Len(l) - (k + 1) + 1 ELSE 0)
          /\ \A i \in 1 .. Len(l) - (k + 1) + 1 : t[i] = l[k + 1 + i - 1]
      BY ONLY <2>4, <3>2, SubSeqProperties
    <3>4. PICK x \in Nat : x = Len(l)
      BY <3>1
    <3>5. Len(t) = x - k /\ x - k \in Nat /\ \A i \in 1 .. x - k : t[i] = l[k + i]
      <4>1. x - (k + 1) + 1 = x - k /\ \A i \in 1 .. x - k : k + 1 + i - 1 = k + i
        BY ONLY <3>1, <3>4
      <4>2. Len(t) = x - k
        BY ONLY <3>1, <3>3, <3>4
      <4>. QED BY ONLY <3>1, <3>3, <3>4, <4>1, <4>2
    <3>. QED BY ONLY <3>3, <3>4, <3>5
  <2>7. \A i \in 1 .. Len(t) : t[i] = r[i]
    BY ONLY <2>5, <2>6 DEF Numbers
  <2>8. t = r
    BY ONLY <2>5, <2>6, <2>7, SameSequence
  <2>9. 1 + k = k + 1
    BY <2>5
  <2>10. t = Room!Recent(l)
    BY <2>3, <2>4, <2>9 DEF Room!Recent
  <2>. QED BY <2>1, <2>2, <2>8, <2>10 DEF Room!QueuesMove
<1>. QED BY <1>1, <1>2, <1>3

-----------------------------------------------------------------------------
\* The servers over TCP: v1 is the program, v2 the sessions, v3 their in_use_, v4
\* the blocks from the heap, v5 what was written.

TcpTyped ==
  /\ v1 \in {"async_tcp_echo_server", "alloc", "refcount", "daytime3"}
  /\ v2 \in [Clients -> [op : {"fresh", "read", "write", "none"}, data_ : Nat, block : {"none", "storage_", "heap"}]]
  /\ v3 \in [Clients -> BOOLEAN]
  /\ v4 \in [Clients -> Nat]
  /\ v5 \in [Clients -> Seq(Nat)]

\* What a client has been sent are the numbers from 1, and what is being
\* written is the next one.
EchoesInOrder ==
  v1 \in {"async_tcp_echo_server", "alloc"} =>
    \A k \in Clients :
      /\ \A i \in 1 .. Len(v5[k]) : v5[k][i] = i
      /\ v2[k].op = "write" => v2[k].data_ = Len(v5[k]) + 1

BlocksOwned(small) ==
  \A k \in Clients :
    /\ v3[k] = (v2[k].block = "storage_")
    /\ v2[k].block # "none" => v2[k].op \in {"read", "write"}
    /\ v2[k].block = "heap" => v2[k].op \notin small
    /\ small = {"read", "write"} => v4[k] = 0

TcpInv(small) == TcpTyped /\ EchoesInOrder /\ BlocksOwned(small)

LEMMA InitTcpInv == ASSUME NEW small, Asio(small)!Init PROVE TcpInv(small)
<1>1. TcpTyped
  BY DEF Asio!Init, Asio!Programs, Asio!None, TcpTyped
<1>2. \A k \in Clients : v5[k] = <<>> /\ v2[k].op = "fresh" /\ v2[k].block = "none" /\ v3[k] = FALSE /\ v4[k] = 0
  BY DEF Asio!Init, Asio!None
<1>3. EchoesInOrder
  BY <1>2 DEF EchoesInOrder
<1>4. \A k \in Clients : v3[k] = (v2[k].block = "storage_")
  BY <1>2
<1>5. BlocksOwned(small)
  BY <1>2, <1>4 DEF BlocksOwned
<1>. QED BY <1>1, <1>3, <1>5 DEF TcpInv

\* The block of the handler that has run is free, so that the next operation is
\* given the block of the session unless its handler is too large.
LEMMA CompleteKeepsBlocks ==
  ASSUME NEW small, TcpTyped, BlocksOwned(small), NEW k \in Clients, NEW next \in {"read", "write", "none"},
         NEW data \in Nat, Asio(small)!Complete(k, next, data)
  PROVE  /\ v1' = v1 /\ v2'[k].op = next /\ v2'[k].data_ = data
         /\ \A j \in Clients : j # k => v2'[j] = v2[j]
         /\ v2' \in [Clients -> [op : {"fresh", "read", "write", "none"}, data_ : Nat, block : {"none", "storage_", "heap"}]]
         /\ v3' \in [Clients -> BOOLEAN] /\ v4' \in [Clients -> Nat]
         /\ BlocksOwned(small)'
<1> DEFINE block == Asio(small)!Block(FALSE, next)
<1>1. Asio(small)!deallocate(v3[k], v2[k].block) = FALSE
  <2>1. v3[k] = (v2[k].block = "storage_")
    BY DEF BlocksOwned
  <2>. QED BY <2>1 DEF Asio!deallocate
<1>2. /\ v2' = [v2 EXCEPT ![k] = [op |-> next, data_ |-> data, block |-> block]]
      /\ v3' = [v3 EXCEPT ![k] = FALSE \/ block = "storage_"]
      /\ v4' = [v4 EXCEPT ![k] = IF block = "heap" THEN v4[k] + 1 ELSE v4[k]]
      /\ v1' = v1
  BY <1>1 DEF Asio!Complete, TcpTyped
<1>3. /\ block \in {"none", "storage_", "heap"}
      /\ block # "none" => next \in {"read", "write"}
      /\ block = "heap" => next \notin small
  BY DEF Asio!Block, Asio!allocate, Asio!None
<1> HIDE DEF block
<1>4. v3'[k] = (block = "storage_") /\ \A j \in Clients : j # k => v3'[j] = v3[j]
  BY <1>2 DEF TcpTyped
<1>5. v3' \in [Clients -> BOOLEAN]
  BY <1>2 DEF TcpTyped
<1>6. /\ v2'[k] = [op |-> next, data_ |-> data, block |-> block] /\ \A j \in Clients : j # k => v2'[j] = v2[j]
      /\ v2' \in [Clients -> [op : {"fresh", "read", "write", "none"}, data_ : Nat, block : {"none", "storage_", "heap"}]]
  BY <1>2, <1>3 DEF TcpTyped
<1>7. v4' \in [Clients -> Nat] /\ (small = {"read", "write"} => v4'[k] = v4[k]) /\ \A j \in Clients : j # k => v4'[j] = v4[j]
  BY <1>2, <1>3 DEF TcpTyped
<1>8. BlocksOwned(small)'
  <2> SUFFICES ASSUME NEW j \in Clients
               PROVE  /\ v3'[j] = (v2'[j].block = "storage_")
                      /\ v2'[j].block # "none" => v2'[j].op \in {"read", "write"}
                      /\ v2'[j].block = "heap" => v2'[j].op \notin small
                      /\ small = {"read", "write"} => v4'[j] = 0
    BY DEF BlocksOwned
  <2>1. CASE j = k
    BY <1>3, <1>4, <1>6, <1>7, <2>1 DEF BlocksOwned
  <2>2. CASE j # k
    BY <1>4, <1>6, <1>7, <2>2 DEF BlocksOwned
  <2>. QED BY <2>1, <2>2
<1>. QED BY <1>2, <1>5, <1>6, <1>7, <1>8

LEMMA NextKeepsTcpInv == ASSUME NEW small, TcpInv(small), Asio(small)!Next PROVE TcpInv(small)'
<1>0. TcpTyped /\ EchoesInOrder /\ BlocksOwned(small)
  BY DEF TcpInv
<1> DEFINE After(k, next, data) ==
             /\ v1' = v1 /\ v2'[k].op = next /\ v2'[k].data_ = data
             /\ \A j \in Clients : j # k => v2'[j] = v2[j]
<1>1. ASSUME NEW k \in Clients, NEW next \in {"read", "write", "none"}, NEW data \in Nat,
             Asio(small)!Complete(k, next, data), v5' \in [Clients -> Seq(Nat)]
      PROVE  TcpTyped' /\ BlocksOwned(small)' /\ After(k, next, data)
  <2>1. /\ After(k, next, data)
        /\ v2' \in [Clients -> [op : {"fresh", "read", "write", "none"}, data_ : Nat, block : {"none", "storage_", "heap"}]]
        /\ v3' \in [Clients -> BOOLEAN] /\ v4' \in [Clients -> Nat]
        /\ BlocksOwned(small)'
    BY <1>0, <1>1, CompleteKeepsBlocks
  <2>. QED BY <1>0, <1>1, <2>1 DEF TcpTyped
<1> HIDE DEF After
<1>2. ASSUME NEW k \in Clients, Asio(small)!do_accept(k) PROVE TcpInv(small)'
  <2>1. PICK next \in {"read", "write"} : Asio(small)!Complete(k, next, 0) /\ (v1 \in {"async_tcp_echo_server", "alloc"} => next = "read")
    BY <1>2 DEF Asio!do_accept, Asio!start, Asio!Echoes
  <2>2. v5' = v5 /\ v5 \in [Clients -> Seq(Nat)]
    BY <1>0, <1>2 DEF Asio!do_accept, TcpTyped
  <2>3. TcpTyped' /\ BlocksOwned(small)' /\ After(k, next, 0)
    BY <1>1, <2>1, <2>2
  <2>4. EchoesInOrder'
    BY <1>0, <2>1, <2>2, <2>3 DEF EchoesInOrder, After
  <2>. QED BY <2>3, <2>4 DEF TcpInv
<1>3. ASSUME NEW k \in Clients, Asio(small)!do_read(k) PROVE TcpInv(small)'
  <2>1. PICK data \in Nat : Asio(small)!Complete(k, "write", data) /\ data = Len(v5[k]) + 1
    BY <1>0, <1>3 DEF Asio!do_read, TcpTyped
  <2>2. v5' = v5 /\ v5 \in [Clients -> Seq(Nat)]
    BY <1>0, <1>3 DEF Asio!do_read, TcpTyped
  <2>3. TcpTyped' /\ BlocksOwned(small)' /\ After(k, "write", data)
    BY <1>1, <2>1, <2>2
  <2>4. EchoesInOrder'
    BY <1>0, <2>1, <2>2, <2>3 DEF EchoesInOrder, After
  <2>. QED BY <2>3, <2>4 DEF TcpInv
<1>4. ASSUME NEW k \in Clients, Asio(small)!do_write(k) PROVE TcpInv(small)'
  <2>1. PICK next \in {"read", "none"}, data \in Nat : Asio(small)!Complete(k, next, data) /\ data = v2[k].data_
    BY <1>0, <1>4 DEF Asio!do_write, Asio!Echoes, Asio!None, TcpTyped
  <2>2. v5' = [v5 EXCEPT ![k] = Append(v5[k], data)] /\ v5 \in [Clients -> Seq(Nat)] /\ v2[k].op = "write"
    BY <1>0, <1>4, <2>1 DEF Asio!do_write, TcpTyped
  <2>3. v5' \in [Clients -> Seq(Nat)]
    BY <2>2
  <2>4. TcpTyped' /\ BlocksOwned(small)' /\ After(k, next, data)
    BY <1>1, <2>1, <2>3
  <2>5. EchoesInOrder'
    BY <1>0, <2>1, <2>2, <2>4 DEF EchoesInOrder, After
  <2>. QED BY <2>4, <2>5 DEF TcpInv
<1>5. ASSUME NEW k \in Clients, Asio(small)!Fails(k) PROVE TcpInv(small)'
  <2>1. Asio(small)!Complete(k, "none", 0) /\ v5' = v5 /\ v5 \in [Clients -> Seq(Nat)]
    BY <1>0, <1>5 DEF Asio!Fails, Asio!None, TcpTyped
  <2>2. TcpTyped' /\ BlocksOwned(small)' /\ After(k, "none", 0)
    BY <1>1, <2>1
  <2>3. EchoesInOrder'
    BY <1>0, <2>1, <2>2 DEF EchoesInOrder, After
  <2>. QED BY <2>2, <2>3 DEF TcpInv
<1>. QED BY <1>2, <1>3, <1>4, <1>5 DEF Asio!Next

LEMMA TcpInvReuses == ASSUME NEW small, TcpInv(small) PROVE Asio(small)!MemoryReused
<1> SUFFICES ASSUME NEW k \in Clients
             PROVE  /\ v3[k] <=> v2[k].block = "storage_"
                    /\ v2[k].block # "none" => v2[k].op \in {"read", "write"}
                    /\ v2[k].block = "heap" => v2[k].op \notin small
                    /\ small = {"read", "write"} => v4[k] = 0
                    /\ v1 \in {"async_tcp_echo_server", "alloc"} => v5[k] = [i \in 1 .. Len(v5[k]) |-> i]
  BY DEF Asio!MemoryReused, Asio!Operations, Asio!Echoes, Asio!None
<1>1. v1 \in {"async_tcp_echo_server", "alloc"} => v5[k] = [i \in 1 .. Len(v5[k]) |-> i]
  BY DEF TcpInv, TcpTyped, EchoesInOrder
<1>2. v3[k] = (v2[k].block = "storage_")
  BY DEF TcpInv, BlocksOwned
<1>. QED BY <1>1, <1>2 DEF TcpInv, BlocksOwned

-----------------------------------------------------------------------------
\* The servers over UDP: v1 is the server, v2 and v3 the replies and the
\* requests under way, v4 to v6 the requests of each client and their fate.

UdpInv ==
  /\ v1 \in [program : {"daytime6", "daytime7", "fork_daemon"}, receiving : BOOLEAN, remote_endpoint_ : Clients \cup {"nobody"}]
  /\ v2 \in [Clients -> Nat] /\ v3 \in [Clients -> Nat]
  /\ v4 \in [Clients -> Nat] /\ v5 \in [Clients -> Nat] /\ v6 \in [Clients -> Nat]
  /\ \A k \in Clients : v4[k] = v3[k] + v2[k] + v5[k] + v6[k]

LEMMA InitUdpInv == Asio(AllFit)!InitUdp => UdpInv
BY DEF Asio!InitUdp, Asio!Nobody, UdpInv

LEMMA NextKeepsUdpInv == UdpInv /\ Asio(AllFit)!NextUdp => UdpInv'
<1> SUFFICES ASSUME UdpInv, Asio(AllFit)!NextUdp PROVE UdpInv'
  OBVIOUS
<1>1. CASE Asio(AllFit)!ReceiveFails
  <2>1. v1' = [v1 EXCEPT !.receiving = (v1.program = "fork_daemon")] /\ (v1.program = "fork_daemon") \in BOOLEAN
    BY <1>1 DEF Asio!ReceiveFails
  <2>2. v1' \in [program : {"daytime6", "daytime7", "fork_daemon"}, receiving : BOOLEAN, remote_endpoint_ : Clients \cup {"nobody"}]
    BY <2>1 DEF UdpInv
  <2>. QED BY <1>1, <2>2 DEF UdpInv, Asio!ReceiveFails
<1>2. ASSUME NEW k \in Clients, Asio(AllFit)!Request(k) PROVE UdpInv'
  BY <1>2 DEF UdpInv, Asio!Request
<1>3. ASSUME NEW k \in Clients, Asio(AllFit)!handle_receive(k) PROVE UdpInv'
  BY <1>3 DEF UdpInv, Asio!handle_receive, Asio!Received
<1>4. ASSUME NEW k \in Clients, Asio(AllFit)!receive(k) PROVE UdpInv'
  BY <1>4 DEF UdpInv, Asio!receive, Asio!Received
<1>5. ASSUME NEW k \in Clients, Asio(AllFit)!handle_send(k) PROVE UdpInv'
  BY <1>5 DEF UdpInv, Asio!handle_send, Asio!Destination
<1>. QED BY <1>1, <1>2, <1>3, <1>4, <1>5 DEF Asio!NextUdp

LEMMA UdpInvReplies == UdpInv => Asio(AllFit)!RepliesToAsker
BY DEF UdpInv, Asio!RepliesToAsker

-----------------------------------------------------------------------------
\* The timers: v1 is the program, v2 the counter, v3 the timers, v4 what was
\* printed.

TimerLimit == IF v1 = "time5" THEN 10 ELSE 5

\* The handler that runs has printed the counter and not yet counted.
TimerInv ==
  /\ v1 \in {"time3", "time4", "time5"}
  /\ v2 \in 0 .. TimerLimit
  /\ v3 \in [1 .. 2 -> {"waiting", "running", "off"}]
  /\ v4 \in Seq(Nat)
  /\ \A i \in DOMAIN v4 : v4[i] = i - 1
  /\ \A t, u \in 1 .. 2 : v3[t] = "running" /\ v3[u] = "running" => t = u
  /\ (\E t \in 1 .. 2 : v3[t] = "running") => v2 < TimerLimit /\ Len(v4) = v2 + 1
  /\ (\A t \in 1 .. 2 : v3[t] # "running") => Len(v4) = v2
  /\ v3[1] = "off" => v2 = TimerLimit

LEMMA InitTimerInv == Asio(AllFit)!InitTimer => TimerInv
BY DEF Asio!InitTimer, Asio!OneTimer, Asio!TwoTimers, Asio!Timers, TimerInv, TimerLimit

LEMMA NextKeepsTimerInv == TimerInv /\ Asio(AllFit)!NextTimer => TimerInv'
<1> SUFFICES ASSUME TimerInv, NEW t \in 1 .. 2,
                    Asio(AllFit)!print(t) \/ Asio(AllFit)!Again(t) \/ Asio(AllFit)!Enough(t)
             PROVE  TimerInv'
  BY DEF Asio!NextTimer, Asio!Timers
<1>. USE DEF TimerInv, TimerLimit, Asio!StrandFree, Asio!Timers, Asio!Limit
<1>1. CASE Asio(AllFit)!print(t)
  BY <1>1 DEF Asio!print
<1>2. CASE Asio(AllFit)!Again(t)
  BY <1>2 DEF Asio!Again
<1>3. CASE Asio(AllFit)!Enough(t)
  BY <1>3 DEF Asio!Enough
<1>. QED BY <1>1, <1>2, <1>3

LEMMA TimerInvCounts == TimerInv => Asio(AllFit)!CountsOnce
<1> SUFFICES ASSUME TimerInv PROVE Asio(AllFit)!CountsOnce
  OBVIOUS
<1>1. ASSUME \A t \in 1 .. 2 : v3[t] = "off" PROVE v2 = TimerLimit /\ Len(v4) = TimerLimit
  <2>1. v3[1] = "off" /\ \A t \in 1 .. 2 : v3[t] # "running"
    BY <1>1
  <2>. QED BY <2>1 DEF TimerInv
<1>2. Asio(AllFit)!Limit = TimerLimit /\ Asio(AllFit)!Timers = 1 .. 2
  BY DEF Asio!Limit, TimerLimit, Asio!Timers
<1>3. \A i \in DOMAIN v4 : v4[i] = i - 1
  BY DEF TimerInv
<1>. QED BY <1>1, <1>2, <1>3 DEF Asio!CountsOnce

-----------------------------------------------------------------------------
\* The daemon: v1 is the step, v2 the streams, v3 the process.

StreamsAt(a, b, c) == v2 \in [0 .. 2 -> {"terminal", "closed", "null", "log"}] /\ v2[0] = a /\ v2[1] = b /\ v2[2] = c

\* It is the n-th descendant, and those before it have exited.
ProcessAt(n, s) ==
  /\ v3 \in [generation : Nat, session : {"shell", "leader", "member"}, exited : SUBSET Nat]
  /\ v3.generation = n /\ v3.session = s /\ \A g \in Nat : g \in v3.exited <=> g < n

\* What the process is, and what its streams are, follows from the step.
DaemonInv ==
  \/ v1 = "fork1" /\ StreamsAt("terminal", "terminal", "terminal") /\ ProcessAt(0, "shell")
  \/ v1 = "setsid" /\ StreamsAt("terminal", "terminal", "terminal") /\ ProcessAt(1, "shell")
  \/ v1 = "fork2" /\ StreamsAt("terminal", "terminal", "terminal") /\ ProcessAt(1, "leader")
  \/ v1 = "close" /\ StreamsAt("terminal", "terminal", "terminal") /\ ProcessAt(2, "member")
  \/ v1 = "open_null" /\ StreamsAt("closed", "closed", "closed") /\ ProcessAt(2, "member")
  \/ v1 = "open_log" /\ StreamsAt("null", "closed", "closed") /\ ProcessAt(2, "member")
  \/ v1 = "dup" /\ StreamsAt("null", "log", "closed") /\ ProcessAt(2, "member")
  \/ v1 \in {"run", "stopped"} /\ StreamsAt("null", "log", "log") /\ ProcessAt(2, "member")
  \/ v1 = "failed" /\ v3.generation \in Nat /\ v3.exited = 0 .. v3.generation

LEMMA InitDaemonInv == Forks!InitDaemon => DaemonInv
BY DEF Forks!InitDaemon, Forks!Streams, DaemonInv, StreamsAt, ProcessAt

\* open and dup take the first stream that is closed.
LEMMA OpenedFirst ==
  ASSUME NEW k \in 0 .. 2, NEW what, v2[k] = "closed", \A g \in 0 .. 2 : g < k => v2[g] # "closed", Forks!Opened(what)
  PROVE  v2' = [v2 EXCEPT ![k] = what]
<1> DEFINE P(f) == v2[f] = "closed" /\ \A g \in 0 .. f - 1 : v2[g] # "closed"
<1>1. P(k) /\ \A f \in 0 .. 2 : P(f) => f = k
  OBVIOUS
<1>2. k = CHOOSE f \in 0 .. 2 : P(f)
  BY <1>1, Zenon
<1>. QED BY <1>2 DEF Forks!Opened, Forks!Streams

LEMMA NextKeepsDaemonInv == DaemonInv /\ Forks!NextDaemon => DaemonInv'
<1> SUFFICES ASSUME DaemonInv, Forks!NextDaemon PROVE DaemonInv'
  OBVIOUS
<1>1. CASE Forks!FirstFork
  <2>1. StreamsAt("terminal", "terminal", "terminal") /\ ProcessAt(0, "shell") /\ v2' = v2 /\ v1' = "setsid"
    BY <1>1 DEF DaemonInv, Forks!FirstFork, Forks!ForkDaemon, Forks!Step
  <2>2. ProcessAt(1, "shell")'
    <3>1. v3' = [generation |-> 0 + 1, session |-> "shell", exited |-> v3.exited \cup {0}]
      BY <1>1, <2>1 DEF ProcessAt, Forks!FirstFork, Forks!ForkDaemon
    <3>2. v3.exited \cup {0} \in SUBSET Nat /\ \A g \in Nat : g \in v3.exited \cup {0} <=> g < 1
      BY <2>1 DEF ProcessAt
    <3>. QED BY <3>1, <3>2 DEF ProcessAt
  <2>. QED BY <2>1, <2>2 DEF DaemonInv, StreamsAt
<1>2. CASE Forks!SecondFork
  <2>1. StreamsAt("terminal", "terminal", "terminal") /\ ProcessAt(1, "leader") /\ v2' = v2 /\ v1' = "close"
    BY <1>2 DEF DaemonInv, Forks!SecondFork, Forks!ForkDaemon, Forks!Step
  <2>2. ProcessAt(2, "member")'
    <3>1. v3' = [generation |-> 1 + 1, session |-> "member", exited |-> v3.exited \cup {1}]
      BY <1>2, <2>1 DEF ProcessAt, Forks!SecondFork, Forks!ForkDaemon
    <3>2. v3.exited \cup {1} \in SUBSET Nat /\ \A g \in Nat : g \in v3.exited \cup {1} <=> g < 2
      BY <2>1 DEF ProcessAt
    <3>. QED BY <3>1, <3>2 DEF ProcessAt
  <2>. QED BY <2>1, <2>2 DEF DaemonInv, StreamsAt
<1>3. CASE Forks!SetSid
  BY <1>3 DEF DaemonInv, StreamsAt, ProcessAt, Forks!SetSid, Forks!Step
<1>4. CASE Forks!CloseStreams
  BY <1>4 DEF DaemonInv, StreamsAt, ProcessAt, Forks!CloseStreams, Forks!Step, Forks!Streams
<1>5. CASE Forks!OpenNull
  <2>1. StreamsAt("closed", "closed", "closed") /\ ProcessAt(2, "member")
    BY <1>5 DEF DaemonInv, Forks!OpenNull, Forks!Step
  <2>2. v2' = [v2 EXCEPT ![0] = "null"]
    BY <1>5, <2>1, OpenedFirst DEF StreamsAt, Forks!OpenNull
  <2>3. StreamsAt("null", "closed", "closed")'
    BY <2>1, <2>2 DEF StreamsAt
  <2>4. ProcessAt(2, "member")' /\ v1' = "open_log"
    BY <1>5, <2>1 DEF ProcessAt, Forks!OpenNull, Forks!Step
  <2>. QED BY <2>3, <2>4 DEF DaemonInv
<1>6. CASE Forks!OpenLog
  <2>1. StreamsAt("null", "closed", "closed") /\ ProcessAt(2, "member")
    BY <1>6 DEF DaemonInv, Forks!OpenLog, Forks!Step
  <2>2. v2' = [v2 EXCEPT ![1] = "log"]
    BY <1>6, <2>1, OpenedFirst DEF StreamsAt, Forks!OpenLog
  <2>3. StreamsAt("null", "log", "closed")'
    BY <2>1, <2>2 DEF StreamsAt
  <2>4. ProcessAt(2, "member")' /\ v1' = "dup"
    BY <1>6, <2>1 DEF ProcessAt, Forks!OpenLog, Forks!Step
  <2>. QED BY <2>3, <2>4 DEF DaemonInv
<1>7. CASE Forks!Dup
  <2>1. StreamsAt("null", "log", "closed") /\ ProcessAt(2, "member")
    BY <1>7 DEF DaemonInv, Forks!Dup, Forks!Step
  <2>2. v2' = [v2 EXCEPT ![2] = v2[1]] /\ v2[1] = "log"
    BY <1>7, <2>1, OpenedFirst DEF StreamsAt, Forks!Dup
  <2>3. StreamsAt("null", "log", "log")'
    BY <2>1, <2>2 DEF StreamsAt
  <2>4. ProcessAt(2, "member")' /\ v1' = "run"
    BY <1>7, <2>1 DEF ProcessAt, Forks!Dup, Forks!Step
  <2>. QED BY <2>3, <2>4 DEF DaemonInv
<1>8. CASE Forks!Stop
  BY <1>8 DEF DaemonInv, StreamsAt, ProcessAt, Forks!Stop, Forks!Step
<1>9. CASE Forks!FailsDaemon
  BY <1>9 DEF DaemonInv, StreamsAt, ProcessAt, Forks!FailsDaemon
<1>. QED BY <1>1, <1>2, <1>3, <1>4, <1>5, <1>6, <1>7, <1>8, <1>9 DEF Forks!NextDaemon

LEMMA DaemonInvDetaches == DaemonInv => Forks!DaemonDetached
BY DEF DaemonInv, StreamsAt, ProcessAt, Forks!DaemonDetached, Forks!Streams

-----------------------------------------------------------------------------
\* The servers that fork: v1 is the parent, v2 the children.

ParentPlaces == {"accept", "fork", "close", "exited"}

ForkTyped ==
  /\ v1 \in [program : {"process_per_connection", "mult_process_concurrent"}, at : ParentPlaces,
             conn : Sessions \cup {"none"}, open : SUBSET Sessions, pending : BOOLEAN, reaping : BOOLEAN]
  /\ v2 \in [Sessions -> [at : {"none", "running", "refused", "zombie", "reaped"}, open : SUBSET Sessions]]

\* Away from its accept the parent has the socket of the connection in hand and
\* no other; a zombie was announced.
ForkInv ==
  /\ ForkTyped
  /\ v1.at = "accept" => v1.open = {}
  /\ v1.at \in {"fork", "close"} => v1.conn \in Sessions /\ v1.open = {v1.conn}
  /\ Forks!Zombies # {} => v1.pending \/ v1.reaping \/ v1.at = "exited"
  /\ \A k \in Sessions : v2[k].open \subseteq {k}

LEMMA InitForkInv == Forks!Init => ForkInv
BY DEF Forks!Init, ForkInv, ForkTyped, ParentPlaces, Forks!Zombies, Forks!None

LEMMA NextKeepsForkInv == ForkInv /\ Forks!Next => ForkInv'
<1> SUFFICES ASSUME ForkInv, Forks!Next PROVE ForkInv'
  OBVIOUS
<1>. USE DEF ForkInv, ForkTyped, ParentPlaces, Forks!Zombies, Forks!None, Forks!Loop
<1>1. CASE Forks!Fork
  <2>1. v1.conn \in Sessions /\ v1.open = {v1.conn} /\ v1' = [v1 EXCEPT !.at = "close"]
        /\ v2' = [v2 EXCEPT ![v1.conn] = [at |-> "running", open |-> v1.open]]
    BY <1>1 DEF Forks!Fork
  <2>2. ForkTyped'
    BY <2>1
  <2>3. Forks!Zombies' \subseteq Forks!Zombies
    BY <2>1
  <2>4. \A k \in Sessions : v2'[k].open \subseteq {k}
    BY <2>1
  <2>5. /\ v1'.at = "close" /\ v1'.conn = v1.conn /\ v1'.open = v1.open
        /\ v1'.pending = v1.pending /\ v1'.reaping = v1.reaping
    BY <2>1
  <2>6. v1.at = "fork" /\ (Forks!Zombies # {} => v1.pending \/ v1.reaping)
    BY <1>1 DEF Forks!Fork
  <2>7. Forks!Zombies' # {} => v1'.pending \/ v1'.reaping
    BY ONLY <2>3, <2>5, <2>6, Zenon
  <2>. QED BY <2>1, <2>2, <2>4, <2>5, <2>7
<1>2. CASE Forks!ParentCloses
  BY <1>2 DEF Forks!ParentCloses
<1>3. CASE Forks!HandlerBegins
  BY <1>3 DEF Forks!HandlerBegins
<1>4. CASE Forks!Waitpid
  <2>1. CASE Forks!Zombies = {}
    <3>1. v1' = [v1 EXCEPT !.reaping = FALSE] /\ v2' = v2
      BY <1>4, <2>1 DEF Forks!Waitpid
    <3>2. v1'.at = v1.at /\ v1'.conn = v1.conn /\ v1'.open = v1.open
      BY <3>1
    <3>3. ForkTyped' /\ Forks!Zombies' = {}
      BY <2>1, <3>1
    <3>. QED BY <3>1, <3>2, <3>3
  <2>2. ASSUME NEW k \in Forks!Zombies, v2' = [v2 EXCEPT ![k].at = "reaped"], v1' = v1 PROVE ForkInv'
    BY <1>4, <2>2 DEF Forks!Waitpid
  <2>. QED BY <1>4, <2>1, <2>2 DEF Forks!Waitpid
<1>5. CASE Forks!ForkFails
  BY <1>5 DEF Forks!ForkFails
<1>6. ASSUME NEW k \in Sessions, Forks!Accept(k) PROVE ForkInv'
  BY <1>6 DEF Forks!Accept
<1>7. ASSUME NEW k \in Sessions, Forks!ChildEnds(k) PROVE ForkInv'
  BY <1>7 DEF Forks!ChildEnds
<1>. QED BY <1>1, <1>2, <1>3, <1>4, <1>5, <1>6, <1>7 DEF Forks!Next, Forks!ParentStep

LEMMA ForkInvForgetsNobody == ForkInv => Forks!NoZombieForgotten
BY DEF ForkInv, Forks!NoZombieForgotten

-----------------------------------------------------------------------------
\* wrap.c: v1 is the function, v2 the stream, v3 the call, v4 what is cached and
\* v5 where the call began.

WrapTyped ==
  /\ v1 \in {"Readn", "Writen", "Readline"}
  /\ v2 \in Nat /\ v2 <= StreamLength /\ v4 \in Nat /\ v5 \in Nat
  /\ v3 \in [at : {"idle", "busy", "done", "failed"}, n : Nat, out : Seq(Nat), ret : Nat]

EndsLine(o) == Len(o) > 0 /\ o[Len(o)] \in Newlines

\* How a call of Readn or Writen, and of Readline, stands.
BlockCall(at, n, o, r, s) == Len(o) <= n /\ (at = "done" => r = Len(o) /\ (r < n => s = StreamLength))

LineCall(at, n, o, r, s, c) ==
  /\ \A i \in 1 .. Len(o) - 1 : o[i] \notin Newlines
  /\ at = "busy" => ~EndsLine(o) /\ (Len(o) = 0 \/ Len(o) + 1 <= n)
  /\ at = "done" =>
       \/ r = Len(o) /\ (EndsLine(o) \/ (s = StreamLength /\ c = 0))
       \/ r = Len(o) + 1 /\ ~EndsLine(o) /\ Len(o) + 1 >= n

WrapInv ==
  /\ WrapTyped
  /\ Numbers(v3.out, v5) /\ v5 + Len(v3.out) + v4 = v2
  /\ v1 # "Readline" => v4 = 0 /\ BlockCall(v3.at, v3.n, v3.out, v3.ret, v2)
  /\ v1 = "Readline" => LineCall(v3.at, v3.n, v3.out, v3.ret, v2, v4)

LEMMA InitWrapInv == Streams!InitWrap => WrapInv
<1> SUFFICES ASSUME Streams!InitWrap PROVE WrapInv
  OBVIOUS
<1>1. /\ v1 \in {"Readn", "Writen", "Readline"} /\ v2 = 0 /\ v4 = 0 /\ v5 = 0
      /\ v3 = [at |-> "idle", n |-> 0, out |-> <<>>, ret |-> 0]
  BY DEF Streams!InitWrap
<1>2. v3.at = "idle" /\ v3.n = 0 /\ v3.out = <<>> /\ v3.ret = 0 /\ <<>> \in Seq(Nat) /\ Len(<<>>) = 0
  BY <1>1
<1>3. WrapTyped
  BY <1>1, <1>2, SizesAssumption DEF WrapTyped
<1>4. Numbers(v3.out, v5)
  BY <1>2 DEF Numbers
<1>. QED BY <1>1, <1>2, <1>3, <1>4 DEF WrapInv, BlockCall, LineCall, EndsLine

\* The bytes of a piece follow those before.
LEMMA NumbersMoved ==
  ASSUME NEW o \in Seq(Nat), NEW b \in Nat, Numbers(o, b), NEW s, s = b + Len(o), NEW k \in Nat
  PROVE  /\ o \o [i \in 1 .. k |-> s + i] \in Seq(Nat) /\ Len(o \o [i \in 1 .. k |-> s + i]) = Len(o) + k
         /\ Numbers(o \o [i \in 1 .. k |-> s + i], b)
<1>1. PICK m : m = [i \in 1 .. k |-> s + i]
  OBVIOUS
<1>2. m \in [1 .. k -> Nat] /\ (\A i \in 1 .. k : m[i] = s + i)
  BY <1>1
<1>3. m \in Seq(Nat) /\ Len(m) = k
  BY ONLY <1>2, k \in Nat, SeqDef, LenProperties
<1>4. PICK t : t = o \o m
  OBVIOUS
<1>5. t \in Seq(Nat) /\ Len(t) = Len(o) + k /\ \A i \in 1 .. Len(o) + k : t[i] = IF i <= Len(o) THEN o[i] ELSE m[i - Len(o)]
  BY ONLY <1>3, <1>4, o \in Seq(Nat), ConcatProperties
<1>6. Numbers(t, b)
  <2>1. Len(o) \in Nat /\ s \in Nat
    OBVIOUS
  <2>2. ASSUME NEW i \in 1 .. Len(t) PROVE t[i] = b + i
    <3>1. CASE i <= Len(o)
      BY ONLY <1>5, <2>1, <2>2, <3>1, Numbers(o, b), k \in Nat DEF Numbers
    <3>2. CASE i > Len(o)
      <4>1. PICK j \in 1 .. k : j = i - Len(o)
        <5>1. PICK l \in Nat : l = Len(o)
          BY <2>1
        <5>2. i \in 1 .. l + k /\ i > l
          BY <1>5, <2>2, <3>2, <5>1
        <5>3. i - l \in 1 .. k
          BY ONLY <5>1, <5>2, k \in Nat
        <5>. QED BY <5>1, <5>3
      <4>2. t[i] = m[j] /\ m[j] = s + j
        BY ONLY <1>2, <1>5, <2>1, <2>2, <3>2, <4>1, k \in Nat
      <4>. QED BY ONLY <2>1, <2>2, <4>1, <4>2, s = b + Len(o), b \in Nat, <1>5, k \in Nat
    <3>. QED BY <1>5, <2>1, <2>2, <3>1, <3>2
  <2>. QED BY <2>2 DEF Numbers
<1>. QED BY <1>1, <1>4, <1>5, <1>6

\* What min of a set of two numbers leaves.
LEMMA PieceFits ==
  ASSUME NEW m \in Nat, v2 \in Nat, v2 <= StreamLength, NEW k \in Streams!Piece(m)
  PROVE  k \in Nat /\ k >= 1 /\ k <= m /\ v2 + k <= StreamLength
<1>1. PICK d \in Nat : d = StreamLength - v2
  BY SizesAssumption
<1>2. m <= d \/ d <= m
  OBVIOUS
<1>3. \E x \in {m, d} : \A y \in {m, d} : x <= y
  BY <1>2
<1>4. Streams!Min({m, d}) \in {m, d} /\ Streams!Min({m, d}) <= m /\ Streams!Min({m, d}) <= d
  BY <1>3 DEF Streams!Min
<1>5. k \in 1 .. Streams!Min({m, d})
  BY <1>1 DEF Streams!Piece
<1>. QED BY <1>1, <1>4, <1>5, SizesAssumption

LEMMA MaxOfTwo == ASSUME NEW n \in Nat PROVE Streams!Max({1, n}) = IF n >= 1 THEN n ELSE 1
<1>1. \E x \in {1, n} : \A y \in {1, n} : x >= y
  OBVIOUS
<1>. QED BY <1>1 DEF Streams!Max

LEMMA NextKeepsWrapInv == WrapInv /\ Streams!NextWrap => WrapInv'
<1> SUFFICES ASSUME WrapInv, Streams!NextWrap PROVE WrapInv'
  OBVIOUS
<1> DEFINE Calls == [at : {"idle", "busy", "done", "failed"}, n : Nat, out : Seq(Nat), ret : Nat]
<1>a. /\ v1 \in {"Readn", "Writen", "Readline"} /\ v2 \in Nat /\ v2 <= StreamLength /\ v4 \in Nat /\ v5 \in Nat
      /\ v3 \in Calls /\ StreamLength \in Nat
  BY SizesAssumption DEF WrapInv, WrapTyped
<1>b. v3.at \in {"idle", "busy", "done", "failed"} /\ v3.n \in Nat /\ v3.out \in Seq(Nat) /\ v3.ret \in Nat /\ Len(v3.out) \in Nat
  BY <1>a
<1>c. Numbers(v3.out, v5) /\ v5 + Len(v3.out) + v4 = v2
  BY DEF WrapInv
<1>d. v1 # "Readline" => v4 = 0 /\ BlockCall(v3.at, v3.n, v3.out, v3.ret, v2)
  BY DEF WrapInv
<1>e. v1 = "Readline" => LineCall(v3.at, v3.n, v3.out, v3.ret, v2, v4)
  BY DEF WrapInv
\* A call that fails leaves the rest as it is.
<1>f. ASSUME v3.at = "busy", v3' = Streams!Failed, UNCHANGED <<v1, v2, v4, v5>> PROVE WrapInv'
  <2>1. v3' \in Calls /\ v3'.at = "failed" /\ v3'.n = v3.n /\ v3'.out = v3.out
    BY <1>a, <1>f DEF Streams!Failed
  <2>2. WrapTyped'
    BY <1>a, <1>f, <2>1 DEF WrapTyped
  <2>3. v1 # "Readline" => BlockCall(v3'.at, v3'.n, v3'.out, v3'.ret, v2')
    BY <1>d, <2>1 DEF BlockCall
  <2>4. v1 = "Readline" => LineCall(v3'.at, v3'.n, v3'.out, v3'.ret, v2', v4')
    BY <1>e, <2>1 DEF LineCall
  <2>. QED BY <1>c, <1>d, <1>f, <2>1, <2>2, <2>3, <2>4 DEF WrapInv
\* One that returns says so.
<1>g. ASSUME v3.at = "busy", NEW r \in Nat, v3' = Streams!Return(r), UNCHANGED <<v1, v2, v4, v5>>,
             v1 # "Readline" => r = Len(v3.out) /\ (r < v3.n => v2 = StreamLength),
             v1 = "Readline" => \/ r = Len(v3.out) /\ v2 = StreamLength /\ v4 = 0
                                \/ r = Len(v3.out) + 1 /\ Len(v3.out) + 1 >= v3.n
      PROVE  WrapInv'
  <2>1. v3' \in Calls /\ v3'.at = "done" /\ v3'.n = v3.n /\ v3'.out = v3.out /\ v3'.ret = r
    BY <1>a, <1>g DEF Streams!Return
  <2>2. WrapTyped'
    BY <1>a, <1>g, <2>1 DEF WrapTyped
  <2>3. v1 # "Readline" => BlockCall(v3'.at, v3'.n, v3'.out, v3'.ret, v2')
    BY <1>d, <1>g, <2>1 DEF BlockCall
  <2>4. v1 = "Readline" => LineCall(v3'.at, v3'.n, v3'.out, v3'.ret, v2', v4')
    BY <1>e, <1>g, <2>1 DEF LineCall
  <2>. QED BY <1>c, <1>d, <1>g, <2>1, <2>2, <2>3, <2>4 DEF WrapInv
<1>1. ASSUME NEW n \in Sizes, Streams!Call(n) PROVE WrapInv'
  <2>1. v3' = [at |-> "busy", n |-> n, out |-> <<>>, ret |-> 0] /\ v5' = v2 - v4 /\ UNCHANGED <<v1, v2, v4>>
    BY <1>1 DEF Streams!Call
  <2>2. v3'.at = "busy" /\ v3'.n = n /\ v3'.out = <<>> /\ n \in Nat /\ <<>> \in Seq(Nat) /\ Len(<<>>) = 0
    BY <2>1, SizesAssumption
  <2>3. v3' \in Calls
    BY <2>1, <2>2
  <2>4. v5' \in Nat /\ v5' + 0 + v4 = v2
    BY <1>a, <1>b, <1>c, <2>1
  <2>5. WrapTyped'
    BY <1>a, <2>1, <2>3, <2>4 DEF WrapTyped
  <2>6. Numbers(v3'.out, v5')
    BY <2>2 DEF Numbers
  <2>. QED BY <1>d, <2>1, <2>2, <2>4, <2>5, <2>6 DEF WrapInv, BlockCall, LineCall, EndsLine
<1>2. CASE Streams!ReadnWriten
  <2>1. v3.at = "busy" /\ v1 # "Readline" /\ v4 = 0 /\ Len(v3.out) <= v3.n /\ UNCHANGED <<v1, v4, v5>>
    BY <1>2, <1>d DEF Streams!ReadnWriten, Streams!Busy, BlockCall
  <2>2. PICK nleft \in Nat : nleft = v3.n - Len(v3.out) /\ nleft = Streams!nleft
    BY <1>b, <2>1 DEF Streams!nleft
  <2>3. CASE nleft = 0 /\ v3' = Streams!Return(v3.n) /\ v2' = v2
    BY <1>b, <1>g, <2>1, <2>2, <2>3
  <2>4. CASE nleft > 0 /\ \E k \in Streams!Piece(nleft) : v2' = v2 + k /\ v3' = [v3 EXCEPT !.out = v3.out \o Streams!Moved(k)]
    <3>1. PICK k \in Streams!Piece(nleft) : v2' = v2 + k /\ v3' = [v3 EXCEPT !.out = v3.out \o [i \in 1 .. k |-> v2 + i]]
      BY <2>4 DEF Streams!Moved
    <3>2. k \in Nat /\ k <= nleft /\ v2 + k <= StreamLength
      BY <1>a, PieceFits
    <3>3. v2 = v5 + Len(v3.out)
      BY <1>a, <1>b, <1>c, <2>1
    <3>4. PICK t : t = v3.out \o [i \in 1 .. k |-> v2 + i]
      OBVIOUS
    <3>5. t \in Seq(Nat) /\ Len(t) = Len(v3.out) + k /\ Numbers(t, v5)
      BY <1>a, <1>b, <1>c, <3>2, <3>3, <3>4, NumbersMoved
    <3>6. v3' \in Calls /\ v3'.at = "busy" /\ v3'.n = v3.n /\ v3'.out = t
      BY <1>a, <2>1, <3>1, <3>4, <3>5
    <3>7. WrapTyped'
      BY <1>a, <2>1, <3>1, <3>2, <3>6 DEF WrapTyped
    <3>8. v5' + Len(v3'.out) + v4' = v2'
      BY <1>a, <1>b, <2>1, <3>1, <3>2, <3>3, <3>5, <3>6
    <3>9. BlockCall(v3'.at, v3'.n, v3'.out, v3'.ret, v2')
      BY <1>b, <2>2, <3>2, <3>5, <3>6 DEF BlockCall
    <3>. QED BY <2>1, <3>5, <3>6, <3>7, <3>8, <3>9 DEF WrapInv
  <2>5. CASE nleft > 0 /\ v2 = StreamLength /\ v2' = v2 /\ v3' = IF v1 = "Readn" THEN Streams!Return(v3.n - nleft) ELSE Streams!Failed
    <3>1. v3.n - nleft = Len(v3.out)
      BY <1>b, <2>2
    <3>. QED BY <1>b, <1>f, <1>g, <2>1, <2>5, <3>1
  <2>6. CASE v3' = Streams!Failed /\ v2' = v2
    BY <1>f, <2>1, <2>6
  <2>. QED BY <1>2, <2>2, <2>3, <2>4, <2>5, <2>6 DEF Streams!ReadnWriten
<1>3. CASE Streams!Fill
  <2>1. v3.at = "busy" /\ v1 = "Readline" /\ v4 = 0 /\ UNCHANGED <<v1, v5>>
    BY <1>3 DEF Streams!Fill, Streams!Busy
  <2>2. CASE \E k \in Streams!Piece(BufSize) : v2' = v2 + k /\ v4' = k /\ UNCHANGED v3
    <3>1. PICK k \in Streams!Piece(BufSize) : v2' = v2 + k /\ v4' = k /\ v3' = v3
      BY <2>2
    <3>2. k \in Nat /\ v2 + k <= StreamLength
      BY <1>a, PieceFits, SizesAssumption
    <3>3. WrapTyped'
      BY <1>a, <2>1, <3>1, <3>2 DEF WrapTyped
    <3>4. v5' + Len(v3'.out) + v4' = v2'
      <4>1. PICK l \in Nat : l = Len(v3.out) /\ l = Len(v3'.out)
        BY <1>b, <3>1
      <4>2. v5 + l + 0 = v2
        BY <1>c, <2>1, <4>1
      <4>. QED BY ONLY <1>a, <2>1, <3>1, <3>2, <4>1, <4>2
    <3>5. LineCall(v3'.at, v3'.n, v3'.out, v3'.ret, v2', v4')
      BY <1>e, <2>1, <3>1 DEF LineCall
    <3>. QED BY <1>c, <2>1, <3>1, <3>3, <3>4, <3>5 DEF WrapInv
  <2>3. CASE v2 = StreamLength /\ v3' = Streams!Return(Len(v3.out)) /\ UNCHANGED <<v2, v4>>
    BY <1>b, <1>g, <2>1, <2>3
  <2>4. CASE v3' = Streams!Failed /\ UNCHANGED <<v2, v4>>
    BY <1>f, <2>1, <2>4
  <2>. QED BY <1>3, <2>2, <2>3, <2>4 DEF Streams!Fill
<1>4. CASE Streams!NextByte
  <2>1. /\ v3.at = "busy" /\ v1 = "Readline" /\ v4 > 0 /\ Len(v3.out) + 1 < v3.n /\ v4' = v4 - 1 /\ UNCHANGED <<v1, v2, v5>>
    BY <1>4 DEF Streams!NextByte, Streams!Busy
  <2>2. PICK c, t : c = v2 - v4 + 1 /\ t = Append(v3.out, c)
    OBVIOUS
  <2>3. c = v5 + Len(v3.out) + 1 /\ c \in Nat
    BY <1>a, <1>b, <1>c, <2>2
  <2>4. t \in Seq(Nat) /\ Len(t) = Len(v3.out) + 1 /\ t[Len(v3.out) + 1] = c /\ \A i \in 1 .. Len(v3.out) : t[i] = v3.out[i]
    BY <1>b, <2>2, <2>3, AppendElements
  <2>5. Numbers(t, v5)
    BY <1>a, <1>b, <1>c, <2>2, <2>3, NumbersAppend
  <2>6. v3' = IF c \in Newlines THEN [[v3 EXCEPT !.out = t] EXCEPT !.at = "done", !.ret = Streams!Result(t)] ELSE [v3 EXCEPT !.out = t]
    BY <1>4, <2>2 DEF Streams!NextByte
  <2>7. /\ v3'.n = v3.n /\ v3'.out = t /\ v3' \in Calls
        /\ c \in Newlines => v3'.at = "done" /\ v3'.ret = Len(t)
        /\ c \notin Newlines => v3'.at = "busy"
    <3>1. CASE c \in Newlines
      <4>1. v3' = [v3 EXCEPT !.out = t, !.at = "done", !.ret = Len(t)]
        BY <2>6, <3>1 DEF Streams!Result
      <4>2. Len(t) \in Nat
        BY <2>4
      <4>. QED BY ONLY <1>a, <2>4, <3>1, <4>1, <4>2
    <3>2. CASE c \notin Newlines
      BY ONLY <1>a, <2>1, <2>4, <2>6, <3>2
    <3>. QED BY <3>1, <3>2
  <2>8. WrapTyped'
    BY <1>a, <2>1, <2>7 DEF WrapTyped
  <2>9. v5' + Len(v3'.out) + v4' = v2'
    <3>1. PICK l \in Nat : l = Len(v3.out)
      BY <1>b
    <3>2. Len(v3'.out) = l + 1
      BY <2>4, <2>7, <3>1
    <3>3. v5 + l + v4 = v2
      BY <1>c, <3>1
    <3>. QED BY ONLY <1>a, <2>1, <3>1, <3>2, <3>3
  <2>10. EndsLine(t) <=> c \in Newlines
    BY <1>b, <2>4 DEF EndsLine
  <2>11. \A i \in 1 .. Len(t) - 1 : t[i] \notin Newlines
    <3>1. PICK l \in Nat : l = Len(v3.out)
      BY <1>b
    <3>2. (\A i \in 1 .. l - 1 : v3.out[i] \notin Newlines) /\ ~(l > 0 /\ v3.out[l] \in Newlines)
      BY <1>e, <2>1, <3>1 DEF LineCall, EndsLine
    <3>3. Len(t) = l + 1 /\ \A i \in 1 .. l : t[i] = v3.out[i]
      BY <2>4, <3>1
    <3>. QED BY ONLY <3>1, <3>2, <3>3
  <2>12. LineCall(v3'.at, v3'.n, v3'.out, v3'.ret, v2', v4')
    BY <1>b, <2>1, <2>4, <2>7, <2>10, <2>11 DEF LineCall
  <2>. QED BY <2>1, <2>5, <2>7, <2>8, <2>9, <2>12 DEF WrapInv
<1>5. CASE Streams!TooLong
  <2>1. /\ v3.at = "busy" /\ v1 = "Readline" /\ Len(v3.out) + 1 >= v3.n /\ UNCHANGED <<v1, v2, v4, v5>>
        /\ v3' = Streams!Return(Streams!Max({1, v3.n}))
    BY <1>5 DEF Streams!TooLong, Streams!Busy
  <2>2. Streams!Max({1, v3.n}) = Len(v3.out) + 1
    BY <1>b, <1>e, <2>1, MaxOfTwo DEF LineCall
  <2>. QED BY <1>b, <1>g, <2>1, <2>2
<1>. QED BY <1>1, <1>2, <1>3, <1>4, <1>5 DEF Streams!NextWrap

LEMMA WrapInvHandsOn == WrapInv => Streams!StreamInPieces
<1> SUFFICES ASSUME WrapInv PROVE Streams!StreamInPieces
  OBVIOUS
<1>1. /\ v3.out \in Seq(Nat) /\ v5 \in Nat /\ Numbers(v3.out, v5) /\ v1 \in {"Readn", "Writen", "Readline"}
  BY DEF WrapInv, WrapTyped
<1>2. v3.out = [i \in 1 .. Len(v3.out) |-> v5 + i]
  BY <1>1 DEF Numbers
<1>3. v3.out # <<>> <=> Len(v3.out) > 0
  BY <1>1
<1>. QED BY <1>2, <1>3 DEF Streams!StreamInPieces, WrapInv, BlockCall, LineCall, EndsLine

-----------------------------------------------------------------------------
\* The HTTP clients: v1 is the operation, v2 the reply, v3 what is not read yet,
\* v4 the streambuf and v5 the output.

AnyToken == Tokens \cup {"200", "other", "junk", "crlf", "header", "page"}

Replies == [status : {"200", "other", "junk"}, headers : 0 .. 2, content : Seq(AnyToken)]

Printed(lines, tokens) == [headers |-> lines, content |-> tokens, good |-> TRUE]

\* What comes after the first d elements of s is first and then second.
Pieces(first, second, s, d) ==
  /\ d + Len(first) + Len(second) = Len(s)
  /\ \A i \in 1 .. Len(first) : first[i] = s[d + i]
  /\ \A i \in 1 .. Len(second) : second[i] = s[d + Len(first) + i]

\* Nothing of the reply is lost before the headers are read.
BeforeHeaders(d) ==
  /\ v3 \in Seq(AnyToken) /\ v4 \in Seq(AnyToken) /\ v5 = Printed(<<>>, <<>>)
  /\ Pieces(v4, v3, Streams!to_buffers(v2), d)

\* After them what is printed and not read is the content.
AfterHeaders ==
  /\ v2.status = "200"
  /\ v2.headers > 0 =>
       v3 \in Seq(AnyToken) /\ \E x \in Seq(AnyToken) : v5 = Printed(Streams!HeaderLines(v2), x) /\ Pieces(x, v3, v2.content, 0)

PrintedSome ==
  /\ v2.status = "200"
  /\ v2.headers > 0 =>
       \E x \in Seq(AnyToken), y \in Seq(AnyToken) : v5 = Printed(Streams!HeaderLines(v2), x) /\ Pieces(x, y, v2.content, 0)

HttpClientInv ==
  /\ v2 \in Replies
  /\ v1 \in {"resolve", "connect", "write", "status", "headers", "content", "done", "failed", "invalid"}
  /\ v1 \in {"resolve", "connect", "write", "status"} => BeforeHeaders(0)
  /\ v1 = "headers" => v2.status = "200" /\ BeforeHeaders(2)
  /\ v1 \in {"content", "done"} => AfterHeaders
  /\ v1 = "done" => v3 = <<>>
  /\ v1 = "invalid" => v5 = Printed(<<>>, <<>>)
  /\ v1 = "failed" => v5 = Printed(<<>>, <<>>) \/ PrintedSome

\* The reply as it is sent.
LEMMA HeaderLinesAre ==
  ASSUME NEW r \in Replies
  PROVE  /\ Streams!HeaderLines(r) \in Seq(AnyToken) /\ Len(Streams!HeaderLines(r)) = 2 * r.headers
         /\ r.headers \in {1, 2} => Streams!HeaderLines(r)[1] = "header" /\ Streams!HeaderLines(r)[2] = "crlf"
         /\ r.headers = 2 => Streams!HeaderLines(r)[3] = "header" /\ Streams!HeaderLines(r)[4] = "crlf"
<1>1. PICK h \in 0 .. 2 : h = r.headers
  BY DEF Replies
<1>2. PICK n \in 0 .. 4 : n = 2 * h
  BY <1>1
<1>3. PICK l : l = [p \in 1 .. n |-> IF p % 2 = 1 THEN "header" ELSE "crlf"]
  OBVIOUS
<1>4. l = Streams!HeaderLines(r)
  BY <1>1, <1>2, <1>3 DEF Streams!HeaderLines, Streams!Crlf
<1>5. l \in [1 .. n -> AnyToken] /\ n \in Nat
  BY <1>2, <1>3 DEF AnyToken
<1>6. l \in Seq(AnyToken) /\ Len(l) = n
  BY ONLY <1>5, SeqDef, LenProperties
<1>7. 1 % 2 = 1 /\ 2 % 2 = 0 /\ 3 % 2 = 1 /\ 4 % 2 = 0
  OBVIOUS
<1>8. h \in {1, 2} => l[1] = "header" /\ l[2] = "crlf"
  BY ONLY <1>2, <1>3, <1>7
<1>9. h = 2 => l[3] = "header" /\ l[4] = "crlf"
  BY ONLY <1>2, <1>3, <1>7
<1>. QED BY <1>1, <1>2, <1>4, <1>6, <1>8, <1>9

LEMMA BufferElements ==
  ASSUME NEW r \in Replies
  PROVE  LET b == Streams!to_buffers(r)
         IN  /\ b \in Seq(AnyToken) /\ Len(b) = 3 + 2 * r.headers + Len(r.content)
             /\ b[1] = r.status /\ b[2] = "crlf" /\ b[3 + 2 * r.headers] = "crlf"
             /\ \A i \in 1 .. 2 * r.headers : b[2 + i] = Streams!HeaderLines(r)[i]
             /\ \A i \in 1 .. Len(r.content) : b[3 + 2 * r.headers + i] = r.content[i]
<1>1. PICK l, c, n : l = Streams!HeaderLines(r) /\ c = r.content /\ n = 2 * r.headers
  OBVIOUS
<1>2. l \in Seq(AnyToken) /\ Len(l) = n /\ c \in Seq(AnyToken) /\ Len(c) \in Nat /\ n \in Nat /\ r.status \in AnyToken
  <2>1. r.headers \in 0 .. 2 /\ c \in Seq(AnyToken) /\ r.status \in {"200", "other", "junk"}
    BY <1>1 DEF Replies
  <2>. QED BY <1>1, <2>1, HeaderLinesAre DEF AnyToken
<1>3. PICK x, y : x = <<r.status, "crlf">> /\ y = <<"crlf">>
  OBVIOUS
<1>4. x \in Seq(AnyToken) /\ Len(x) = 2 /\ x[1] = r.status /\ x[2] = "crlf"
  BY <1>2, <1>3 DEF AnyToken
<1>5. y \in Seq(AnyToken) /\ Len(y) = 1 /\ y[1] = "crlf"
  BY <1>3 DEF AnyToken
<1>6. PICK xl : xl = x \o l
  OBVIOUS
<1>7. /\ xl \in Seq(AnyToken) /\ Len(xl) = 2 + n
      /\ \A i \in 1 .. 2 + n : xl[i] = IF i <= 2 THEN x[i] ELSE l[i - 2]
  <2>1. /\ xl \in Seq(AnyToken) /\ Len(xl) = Len(x) + Len(l)
        /\ \A i \in 1 .. Len(x) + Len(l) : xl[i] = IF i <= Len(x) THEN x[i] ELSE l[i - Len(x)]
    BY <1>2, <1>4, <1>6, ConcatProperties
  <2>. QED BY ONLY <1>2, <1>4, <2>1
<1>8. PICK xly : xly = xl \o y
  OBVIOUS
<1>9. /\ xly \in Seq(AnyToken) /\ Len(xly) = 2 + n + 1
      /\ \A i \in 1 .. 2 + n + 1 : xly[i] = IF i <= 2 + n THEN xl[i] ELSE y[i - (2 + n)]
  <2>1. /\ xly \in Seq(AnyToken) /\ Len(xly) = Len(xl) + Len(y)
        /\ \A i \in 1 .. Len(xl) + Len(y) : xly[i] = IF i <= Len(xl) THEN xl[i] ELSE y[i - Len(xl)]
    BY <1>5, <1>7, <1>8, ConcatProperties
  <2>. QED BY ONLY <1>5, <1>7, <2>1
<1>10. PICK b : b = xly \o c
  OBVIOUS
<1>11. /\ b \in Seq(AnyToken) /\ Len(b) = 3 + n + Len(c)
       /\ \A i \in 1 .. 3 + n + Len(c) : b[i] = IF i <= 3 + n THEN xly[i] ELSE c[i - (3 + n)]
  <2>1. Len(xly) = 3 + n
    BY ONLY <1>2, <1>9
  <2>2. /\ b \in Seq(AnyToken) /\ Len(b) = Len(xly) + Len(c)
        /\ \A i \in 1 .. Len(xly) + Len(c) : b[i] = IF i <= Len(xly) THEN xly[i] ELSE c[i - Len(xly)]
    <3>1. xly \in Seq(AnyToken) /\ c \in Seq(AnyToken)
      BY <1>2, <1>9
    <3>. QED BY ONLY <1>10, <3>1, ConcatProperties
  <2>. QED BY ONLY <2>1, <2>2
<1>12. b[1] = r.status /\ b[2] = "crlf"
  BY ONLY <1>2, <1>4, <1>7, <1>9, <1>11
<1>13. b[3 + n] = "crlf"
  <2>1. (2 + n + 1) - (2 + n) = 1 /\ 3 + n = 2 + n + 1 /\ 3 + n \in 1 .. 3 + n + Len(c) /\ 2 + n + 1 \in 1 .. 2 + n + 1 /\ ~(2 + n + 1 <= 2 + n)
    BY ONLY <1>2
  <2>. QED BY ONLY <1>5, <1>9, <1>11, <2>1
<1>14. ASSUME NEW i \in 1 .. n PROVE b[2 + i] = l[i]
  <2>1. (2 + i) - 2 = i /\ 2 + i \in 1 .. 2 + n /\ ~(2 + i <= 2) /\ 2 + i <= 2 + n /\ 2 + i \in 1 .. 2 + n + 1 /\ 2 + i \in 1 .. 3 + n + Len(c) /\ 2 + i <= 3 + n
    BY ONLY <1>2, <1>14
  <2>. QED BY ONLY <1>7, <1>9, <1>11, <2>1
<1>15. ASSUME NEW i \in 1 .. Len(c) PROVE b[3 + n + i] = c[i]
  <2>1. (3 + n + i) - (3 + n) = i /\ 3 + n + i \in 1 .. 3 + n + Len(c) /\ ~(3 + n + i <= 3 + n)
    BY ONLY <1>2, <1>15
  <2>. QED BY ONLY <1>11, <2>1
<1>16. b = Streams!to_buffers(r)
  BY <1>1, <1>3, <1>6, <1>8, <1>10 DEF Streams!to_buffers, Streams!Crlf
<1>. QED BY <1>1, <1>11, <1>12, <1>13, <1>14, <1>15, <1>16

\* More of the second piece is read; some of the first is taken.
LEMMA CutPieces ==
  ASSUME NEW r \in Seq(AnyToken), NEW u \in Seq(AnyToken), NEW b \in Seq(AnyToken), NEW d \in Nat, Pieces(r, u, b, d),
         NEW k \in 1 .. Len(u)
  PROVE  /\ r \o SubSeq(u, 1, k) \in Seq(AnyToken) /\ SubSeq(u, k + 1, Len(u)) \in Seq(AnyToken)
         /\ Pieces(r \o SubSeq(u, 1, k), SubSeq(u, k + 1, Len(u)), b, d)
         /\ SubSeq(u, 1, k) # <<>>
<1>1. PICK x, y : x = SubSeq(u, 1, k) /\ y = SubSeq(u, k + 1, Len(u))
  OBVIOUS
<1>2. PICK m, j \in Nat : m = Len(u) /\ j = k /\ j <= m /\ j >= 1
  OBVIOUS
<1>3. PICK l \in Nat : l = Len(r)
  OBVIOUS
<1>4. x \in Seq(AnyToken) /\ Len(x) = j /\ \A i \in 1 .. j : x[i] = u[i]
  BY ONLY <1>1, <1>2, u \in Seq(AnyToken)
<1>5. y \in Seq(AnyToken) /\ Len(y) = m - j /\ \A i \in 1 .. m - j : y[i] = u[j + i]
  BY ONLY <1>1, <1>2, u \in Seq(AnyToken)
<1>6. PICK t : t = r \o x
  OBVIOUS
<1>7. t \in Seq(AnyToken) /\ Len(t) = l + j /\ \A i \in 1 .. l + j : t[i] = IF i <= l THEN r[i] ELSE x[i - l]
  BY ONLY <1>3, <1>4, <1>6, r \in Seq(AnyToken), ConcatProperties
<1>8. /\ d + l + m = Len(b) /\ (\A i \in 1 .. l : r[i] = b[d + i]) /\ \A i \in 1 .. m : u[i] = b[d + l + i]
  BY <1>2, <1>3 DEF Pieces
<1>9. ASSUME NEW i \in 1 .. l + j PROVE t[i] = b[d + i]
  <2>1. CASE i <= l
    BY ONLY <1>2, <1>3, <1>7, <1>8, <1>9, <2>1
  <2>2. CASE i > l
    <3>1. PICK h \in 1 .. j : h = i - l
      <4>1. i - l \in 1 .. j
        BY ONLY <1>2, <1>3, <1>9, <2>2
      <4>. QED BY <4>1
    <3>2. t[i] = u[h] /\ h \in 1 .. m
      BY ONLY <1>2, <1>3, <1>4, <1>7, <1>9, <2>2, <3>1
    <3>3. d + l + h = d + i
      BY ONLY <1>3, <1>9, <3>1, d \in Nat, <1>2
    <3>. QED BY ONLY <1>8, <3>2, <3>3
  <2>. QED BY <1>2, <1>3, <1>9, <2>1, <2>2
<1>10. ASSUME NEW i \in 1 .. m - j PROVE y[i] = b[d + (l + j) + i]
  <2>1. j + i \in 1 .. m /\ d + l + (j + i) = d + (l + j) + i
    BY ONLY <1>2, <1>3, <1>10, d \in Nat
  <2>. QED BY ONLY <1>5, <1>8, <1>10, <2>1
<1>11. d + (l + j) + (m - j) = Len(b)
  <2>1. d + (l + j) + (m - j) = d + l + m
    BY ONLY <1>2, <1>3, d \in Nat
  <2>. QED BY <1>8, <2>1
<1>12. Pieces(t, y, b, d)
  BY ONLY <1>5, <1>7, <1>9, <1>10, <1>11 DEF Pieces
<1>13. x # <<>>
  BY ONLY <1>2, <1>4
<1>. QED BY <1>1, <1>5, <1>6, <1>7, <1>12, <1>13

LEMMA DropPieces ==
  ASSUME NEW r \in Seq(AnyToken), NEW u \in Seq(AnyToken), NEW b \in Seq(AnyToken), NEW d \in Nat, Pieces(r, u, b, d),
         NEW p \in 0 .. Len(r)
  PROVE  /\ SubSeq(r, p + 1, Len(r)) \in Seq(AnyToken) /\ Len(SubSeq(r, p + 1, Len(r))) = Len(r) - p
         /\ Pieces(SubSeq(r, p + 1, Len(r)), u, b, d + p)
<1>1. PICK t : t = SubSeq(r, p + 1, Len(r))
  OBVIOUS
<1>2. PICK l, q \in Nat : l = Len(r) /\ q = p /\ q <= l
  OBVIOUS
<1>3. t \in Seq(AnyToken) /\ Len(t) = l - q /\ \A i \in 1 .. l - q : t[i] = r[q + i]
  BY ONLY <1>1, <1>2, r \in Seq(AnyToken)
<1>4. /\ d + l + Len(u) = Len(b) /\ (\A i \in 1 .. l : r[i] = b[d + i]) /\ \A i \in 1 .. Len(u) : u[i] = b[d + l + i]
  BY <1>2 DEF Pieces
<1>5. ASSUME NEW i \in 1 .. l - q PROVE t[i] = b[d + q + i]
  <2>1. q + i \in 1 .. l /\ d + (q + i) = d + q + i
    BY ONLY <1>2, <1>5, d \in Nat
  <2>. QED BY ONLY <1>3, <1>4, <1>5, <2>1
<1>6. d + q + (l - q) = d + l
  BY ONLY <1>2, d \in Nat
<1>7. Pieces(t, u, b, d + q)
  BY ONLY <1>3, <1>4, <1>5, <1>6 DEF Pieces
<1>. QED BY <1>1, <1>2, <1>3, <1>7

\* Where the headers end in what was read after the status line, and what
\* follows them.
LEMMA HeadersEnd ==
  ASSUME NEW r \in Replies, r.headers > 0, NEW s \in Seq(AnyToken), NEW u \in Seq(AnyToken),
         Pieces(s, u, Streams!to_buffers(r), 2),
         NEW f \in 1 .. Len(s), f > 1, s[f] = "crlf", s[f - 1] = "crlf"
  PROVE  LET e == 2 * r.headers + 1
         IN  /\ e \in 1 .. Len(s) /\ s[e] = "crlf" /\ s[e - 1] = "crlf" /\ e > 1
             /\ \A q \in 1 .. e - 1 : ~(s[q] = "crlf" /\ (q = 1 \/ s[q - 1] = "crlf"))
             /\ SubSeq(s, 1, e - 1) = Streams!HeaderLines(r)
<1>1. PICK h \in {1, 2} : h = r.headers
  BY DEF Replies
<1>2. PICK b, l : b = Streams!to_buffers(r) /\ l = Streams!HeaderLines(r)
  OBVIOUS
<1>3. PICK n \in {2, 4} : n = 2 * h /\ (h = 1 => n = 2) /\ (h = 2 => n = 4)
  BY <1>1
<1>4. /\ b[3 + n] = "crlf" /\ \A i \in 1 .. n : b[2 + i] = l[i]
  BY <1>1, <1>2, <1>3, BufferElements
<1>5. /\ l \in Seq(AnyToken) /\ Len(l) = n /\ l[1] = "header" /\ l[2] = "crlf" /\ (n = 4 => l[3] = "header" /\ l[4] = "crlf")
  BY <1>1, <1>2, <1>3, HeaderLinesAre
<1>6. \A i \in 1 .. Len(s) : s[i] = b[2 + i]
  BY <1>2 DEF Pieces
<1>7. PICK m \in Nat : m = Len(s)
  OBVIOUS
<1>8. \A i \in 1 .. m : i <= n => s[i] = l[i]
  BY ONLY <1>3, <1>4, <1>6, <1>7
<1>9. f \in 1 .. m /\ f > 1 /\ s[f] = "crlf" /\ s[f - 1] = "crlf"
  BY <1>7
<1>10. f >= n + 1
  <2>1. m >= 1 => s[1] = "header"
    BY ONLY <1>3, <1>5, <1>7, <1>8
  <2>2. n = 4 /\ m >= 3 => s[3] = "header"
    BY ONLY <1>3, <1>5, <1>7, <1>8
  <2>. QED BY ONLY <1>3, <1>7, <1>9, <2>1, <2>2
<1>11. n + 1 \in 1 .. m /\ n + 1 > 1 /\ n + 1 <= m
  BY ONLY <1>3, <1>7, <1>9, <1>10
<1>12. s[n + 1] = "crlf" /\ s[n] = "crlf"
  <2>1. 2 + (n + 1) = 3 + n /\ n \in 1 .. m /\ n <= n
    BY ONLY <1>3, <1>7, <1>11
  <2>2. s[n + 1] = b[3 + n]
    BY ONLY <1>6, <1>7, <1>11, <2>1
  <2>3. s[n] = l[n]
    BY ONLY <1>8, <2>1
  <2>. QED BY ONLY <1>3, <1>4, <1>5, <2>2, <2>3
<1>13. s[1] = "header" /\ (n = 4 => s[3] = "header")
  BY ONLY <1>3, <1>5, <1>7, <1>8, <1>11
<1>14. ASSUME NEW q \in 1 .. n PROVE ~(s[q] = "crlf" /\ (q = 1 \/ s[q - 1] = "crlf"))
  <2>1. q = 1 \/ q = 2 \/ (n = 4 /\ q = 3) \/ (n = 4 /\ q = 4)
    BY ONLY <1>3, <1>14
  <2>2. 2 - 1 = 1 /\ 4 - 1 = 3
    OBVIOUS
  <2>. QED BY ONLY <1>13, <2>1, <2>2
<1>15. SubSeq(s, 1, n) = l
  <2>1. PICK t : t = SubSeq(s, 1, n)
    OBVIOUS
  <2>2. n \in Nat /\ n <= Len(s) /\ n >= 1
    BY ONLY <1>3, <1>7, <1>11
  <2>3. t \in Seq(AnyToken) /\ Len(t) = n /\ \A i \in 1 .. n : t[i] = s[i]
    BY ONLY <2>1, <2>2, s \in Seq(AnyToken)
  <2>4. \A i \in 1 .. Len(t) : t[i] = l[i]
    BY ONLY <1>7, <1>8, <2>2, <2>3
  <2>5. t = l
    BY ONLY <1>5, <2>3, <2>4, SameSequence
  <2>. QED BY <2>1, <2>5
<1>16. n + 1 - 1 = n
  BY ONLY <1>3
<1>. QED BY <1>1, <1>2, <1>3, <1>7, <1>11, <1>12, <1>14, <1>15, <1>16

\* What follows the headers is the content.
LEMMA PiecesOfContent ==
  ASSUME NEW r \in Replies, NEW s \in Seq(AnyToken), NEW u \in Seq(AnyToken),
         Pieces(s, u, Streams!to_buffers(r), 2 + (2 * r.headers + 1))
  PROVE  Pieces(s, u, r.content, 0)
<1>1. PICK b, c : b = Streams!to_buffers(r) /\ c = r.content
  OBVIOUS
<1>2. PICK n \in Nat : n = 2 * r.headers
  BY DEF Replies
<1>3. 2 + (n + 1) = 3 + n
  BY <1>2
<1>4. Len(b) = 3 + n + Len(c) /\ (\A i \in 1 .. Len(c) : b[3 + n + i] = c[i]) /\ Len(c) \in Nat
  <2>1. c \in Seq(AnyToken)
    BY <1>1 DEF Replies
  <2>2. Len(b) = 3 + n + Len(c) /\ (\A i \in 1 .. Len(c) : b[3 + n + i] = c[i])
    BY <1>1, <1>2, BufferElements
  <2>. QED BY <2>1, <2>2
<1>5. /\ 3 + n + Len(s) + Len(u) = Len(b) /\ (\A i \in 1 .. Len(s) : s[i] = b[3 + n + i])
      /\ \A i \in 1 .. Len(u) : u[i] = b[3 + n + Len(s) + i]
  BY <1>1, <1>2, <1>3 DEF Pieces
<1>6. PICK x, y, z \in Nat : x = Len(s) /\ y = Len(u) /\ z = Len(c)
  BY <1>4
<1>7. 0 + x + y = z /\ 0 + x = x /\ x + y = z
  BY ONLY <1>2, <1>4, <1>5, <1>6
<1>8. ASSUME NEW i \in 1 .. x PROVE s[i] = c[0 + i]
  <2>1. i \in 1 .. z /\ 0 + i = i
    BY ONLY <1>6, <1>7, <1>8
  <2>. QED BY ONLY <1>4, <1>5, <1>6, <1>8, <2>1
<1>9. ASSUME NEW i \in 1 .. y PROVE u[i] = c[0 + x + i]
  <2>1. x + i \in 1 .. z
    BY ONLY <1>6, <1>7, <1>9
  <2>2. 0 + x + i = x + i /\ 3 + n + (x + i) = 3 + n + x + i
    <3>1. i \in Nat /\ x \in Nat /\ n \in Nat
      BY <1>6, <1>9
    <3>. QED BY ONLY <3>1
  <2>. QED BY ONLY <1>4, <1>5, <1>6, <1>9, <2>1, <2>2
<1>10. Pieces(s, u, c, 0)
  BY ONLY <1>6, <1>7, <1>8, <1>9 DEF Pieces
<1>. QED BY <1>1, <1>10

\* What is printed after what was.
WithLines(o, x) == [o EXCEPT !.headers = x]
WithContent(o, x) == [o EXCEPT !.content = x]

LEMMA PrintedMore ==
  ASSUME NEW l, NEW c, NEW x
  PROVE  WithContent(Printed(l, c), x) = Printed(l, x) /\ WithLines(Printed(l, c), x) = Printed(x, c)
<1>0. PICK o : o = Printed(l, c)
  OBVIOUS
<1>1. PICK g : g = TRUE
  OBVIOUS
<1>2. \A y, z : Printed(y, z) = [headers |-> y, content |-> z, good |-> g]
  BY ONLY <1>1, Zenon DEF Printed
<1>3. o = [headers |-> l, content |-> c, good |-> g]
  BY <1>0, <1>2, Zenon
<1>4. PICK p, q : p = [headers |-> l, content |-> x, good |-> g] /\ q = [headers |-> x, content |-> c, good |-> g]
  OBVIOUS
<1>5. [o EXCEPT !.content = x] = p /\ [o EXCEPT !.headers = x] = q
  BY ONLY <1>3, <1>4
<1>6. p = Printed(l, x) /\ q = Printed(x, c)
  BY <1>2, <1>4, Zenon
<1>7. WithContent(o, x) = p /\ WithLines(o, x) = q
  BY ONLY <1>5 DEF WithContent, WithLines
<1>. QED BY ONLY <1>0, <1>6, <1>7, Zenon

LEMMA PrintedFields ==
  ASSUME NEW l, NEW c
  PROVE  Printed(l, c).good = TRUE /\ Printed(l, c).content = c /\ Printed(l, c).headers = l
BY DEF Printed

LEMMA InitHttpClientInv == Streams!Init => HttpClientInv
<1> SUFFICES ASSUME Streams!Init PROVE HttpClientInv
  OBVIOUS
<1>1. v1 = "resolve" /\ v3 = Streams!to_buffers(v2) /\ v4 = <<>> /\ v5 = Printed(<<>>, <<>>)
  BY DEF Streams!Init, Printed
<1>2. v2 \in Replies
  <2>1. CASE \E status \in Streams!Status \ {"junk"} : v2 = Streams!stock_reply(status)
    <3>1. PICK status \in {"200", "other"} : v2 = Streams!stock_reply(status)
      BY <2>1 DEF Streams!Status
    <3>2. Streams!StockContent(status) \in Seq(AnyToken)
      <4>1. <<>> \in Seq(AnyToken) /\ <<"page">> \in Seq(AnyToken)
        BY DEF AnyToken
      <4>. QED BY <4>1 DEF Streams!StockContent
    <3>. QED BY <3>1, <3>2 DEF Streams!stock_reply, Replies
  <2>2. CASE v2 \in [status : Streams!Status, headers : 0 .. 2, content : Contents]
    <3>1. Contents \subseteq Seq(AnyToken)
      <4>1. ASSUME NEW x \in Contents PROVE x \in Seq(AnyToken)
        <5>1. PICK n \in 0 .. MaxContent : x \in [1 .. n -> Tokens]
          BY DEF Contents
        <5>2. n \in Nat /\ x \in [1 .. n -> AnyToken]
          BY <5>1, SizesAssumption DEF AnyToken
        <5>. QED BY ONLY <5>2, SeqDef
      <4>. QED BY <4>1
    <3>. QED BY <2>2, <3>1 DEF Replies, Streams!Status
  <2>. QED BY <2>1, <2>2 DEF Streams!Init
<1>3. PICK b : b = Streams!to_buffers(v2)
  OBVIOUS
<1>4. b \in Seq(AnyToken)
  BY <1>2, <1>3, BufferElements
<1>5. Pieces(<<>>, b, b, 0)
  <2>1. PICK m \in Nat : m = Len(b)
    BY <1>4
  <2>2. Len(<<>>) = 0 /\ 0 + 0 + m = m /\ \A i \in 1 .. m : 0 + 0 + i = i
    BY <2>1
  <2>. QED BY ONLY <2>1, <2>2 DEF Pieces
<1>6. <<>> \in Seq(AnyToken)
  OBVIOUS
<1>7. BeforeHeaders(0)
  BY <1>1, <1>3, <1>4, <1>5, <1>6 DEF BeforeHeaders
<1>. QED BY <1>1, <1>2, <1>7 DEF HttpClientInv

LEMMA NextKeepsHttpClientInv == HttpClientInv /\ Streams!Next => HttpClientInv'
<1> SUFFICES ASSUME HttpClientInv, Streams!Next PROVE HttpClientInv'
  OBVIOUS
<1>0. /\ v2 \in Replies
      /\ v1 \in {"resolve", "connect", "write", "status", "headers", "content", "done", "failed", "invalid"}
  BY DEF HttpClientInv
<1>b. PICK b : b = Streams!to_buffers(v2)
  OBVIOUS
<1>c. b \in Seq(AnyToken)
  BY <1>0, <1>b, BufferElements
<1>1. CASE Streams!handle_resolve \/ Streams!handle_connect \/ Streams!handle_write_request
  <2>1. v1 \in {"resolve", "connect", "write"} /\ v1' \in {"connect", "write", "status"} /\ UNCHANGED <<v2, v3, v4, v5>>
    BY <1>1 DEF Streams!handle_resolve, Streams!handle_connect, Streams!handle_write_request, Streams!Going
  <2>2. BeforeHeaders(0)
    BY <2>1 DEF HttpClientInv
  <2>3. BeforeHeaders(0)'
    BY <2>1, <2>2 DEF BeforeHeaders
  <2>. QED BY <1>0, <2>1, <2>3 DEF HttpClientInv
<1>2. CASE Streams!ReadSome
  <2>1. v1 \in {"status", "headers"} /\ UNCHANGED <<v1, v2, v5>>
    BY <1>2 DEF Streams!ReadSome
  <2>2. PICK k \in 1 .. Len(v3) : v4' = v4 \o SubSeq(v3, 1, k) /\ v3' = SubSeq(v3, k + 1, Len(v3))
    BY <1>2 DEF Streams!ReadSome
  <2>3. ASSUME NEW d \in Nat, BeforeHeaders(d) PROVE BeforeHeaders(d)'
    <3>1. v3 \in Seq(AnyToken) /\ v4 \in Seq(AnyToken) /\ Pieces(v4, v3, b, d)
      BY <1>b, <2>3 DEF BeforeHeaders
    <3>2. v3' \in Seq(AnyToken) /\ v4' \in Seq(AnyToken) /\ Pieces(v4', v3', b, d)
      BY <1>c, <2>2, <3>1, CutPieces
    <3>. QED BY <1>b, <2>1, <2>3, <3>2 DEF BeforeHeaders
  <2>4. v1 = "status" => BeforeHeaders(0)'
    BY <2>3 DEF HttpClientInv
  <2>5. v1 = "headers" => v2.status = "200" /\ BeforeHeaders(2)'
    BY <2>3 DEF HttpClientInv
  <2>. QED BY <1>0, <2>1, <2>4, <2>5 DEF HttpClientInv
<1>3. CASE Streams!handle_read_status_line
  <2>1. v1 = "status" /\ Streams!Found # {} /\ UNCHANGED <<v2, v3, v5>>
        /\ v1' = (IF v4[1] = "200" THEN "headers" ELSE "invalid")
    BY <1>3 DEF Streams!handle_read_status_line
  <2>2. v3 \in Seq(AnyToken) /\ v4 \in Seq(AnyToken) /\ Pieces(v4, v3, b, 0) /\ v5 = Printed(<<>>, <<>>)
    BY <1>b, <2>1 DEF HttpClientInv, BeforeHeaders
  <2>3. b[1] = v2.status /\ b[2] = "crlf" /\ v2.status # "crlf"
    BY <1>0, <1>b, BufferElements DEF Replies
  <2>4. PICK s : s = v4
    OBVIOUS
  <2>4a. PICK m \in Nat : m = Len(s)
    BY <2>2, <2>4
  <2>5. \A i \in 1 .. m : s[i] = b[i]
    BY <2>2, <2>4, <2>4a DEF Pieces
  <2>6. Streams!Found = {p \in 1 .. m : s[p] = "crlf"}
    BY <2>1, <2>4, <2>4a DEF Streams!Found, Streams!Crlf
  <2>7. PICK f \in 1 .. m : s[f] = "crlf"
    BY <2>1, <2>6
  <2>8. s[1] = v2.status /\ f # 1 /\ 2 \in 1 .. m /\ s[2] = "crlf"
    BY <2>3, <2>4, <2>4a, <2>5, <2>7
  <2>9. 2 \in Streams!Found /\ \A q \in Streams!Found : 2 <= q
    BY <2>3, <2>4, <2>4a, <2>6, <2>8
  <2>10. \A p \in Streams!Found : (\A q \in Streams!Found : p <= q) => p = 2
    BY <2>4, <2>4a, <2>6, <2>9
  <2>11. (CHOOSE p \in Streams!Found : \A q \in Streams!Found : p <= q) = 2
    BY ONLY <2>9, <2>10
  <2>12. v4' = SubSeq(v4, 2 + 1, Len(v4))
    BY <1>3, <2>11 DEF Streams!handle_read_status_line, Streams!After
  <2>13. 2 \in 0 .. Len(v4) /\ 0 + 2 = 2
    BY <2>4, <2>4a, <2>8
  <2>14. v4' \in Seq(AnyToken) /\ Pieces(v4', v3, b, 2)
    BY <1>c, <2>2, <2>12, <2>13, DropPieces
  <2>15. BeforeHeaders(2)'
    BY <1>b, <2>1, <2>2, <2>14 DEF BeforeHeaders
  <2>16. v1' = "headers" => v2.status = "200"
    BY <2>1, <2>4, <2>4a, <2>8
  <2>. QED BY <1>0, <2>1, <2>2, <2>15, <2>16 DEF HttpClientInv
<1>4. CASE Streams!handle_read_headers
  <2>1. v1 = "headers" /\ Streams!Found # {} /\ v1' = "content" /\ v4' = <<>> /\ UNCHANGED <<v2, v3>>
    BY <1>4 DEF Streams!handle_read_headers
  <2>2. /\ v2.status = "200" /\ v3 \in Seq(AnyToken) /\ v4 \in Seq(AnyToken) /\ Pieces(v4, v3, Streams!to_buffers(v2), 2)
        /\ v5 = Printed(<<>>, <<>>)
    BY <2>1 DEF HttpClientInv, BeforeHeaders
  <2>3. ASSUME v2.headers > 0
        PROVE  \E x \in Seq(AnyToken) : v5' = Printed(Streams!HeaderLines(v2), x) /\ Pieces(x, v3, v2.content, 0)
    <3>1. PICK f \in 1 .. Len(v4) : f > 1 /\ v4[f] = "crlf" /\ v4[f - 1] = "crlf"
      BY <2>1 DEF Streams!Found, Streams!Crlf
    <3>2. PICK e : e = 2 * v2.headers + 1
      OBVIOUS
    <3>3. /\ e \in 1 .. Len(v4) /\ v4[e] = "crlf" /\ v4[e - 1] = "crlf" /\ e > 1
          /\ \A q \in 1 .. e - 1 : ~(v4[q] = "crlf" /\ (q = 1 \/ v4[q - 1] = "crlf"))
          /\ SubSeq(v4, 1, e - 1) = Streams!HeaderLines(v2)
      BY <1>0, <2>2, <2>3, <3>1, <3>2, HeadersEnd
    <3> DEFINE Empty(p) == v4[p] = "crlf" /\ (p = 1 \/ v4[p - 1] = "crlf")
               Blank(p) == Empty(p) /\ \A q \in 1 .. p - 1 : ~Empty(q)
    <3>4. e \in DOMAIN v4 /\ Blank(e) /\ e \in Nat /\ DOMAIN v4 = 1 .. Len(v4) /\ Len(v4) \in Nat
      BY <2>2, <3>3
    <3>5. ASSUME NEW p \in DOMAIN v4, Blank(p) PROVE p = e
      <4>1. p \in Nat /\ p >= 1 /\ e >= 1
        BY <3>3, <3>4
      <4>2. CASE p < e
        <5>1. p \in 1 .. e - 1
          BY ONLY <3>4, <4>1, <4>2
        <5>. QED BY <3>4, <3>5, <5>1
      <4>3. CASE e < p
        <5>1. e \in 1 .. p - 1
          BY ONLY <3>4, <4>1, <4>3
        <5>. QED BY <3>4, <3>5, <5>1
      <4>. QED BY <3>4, <4>1, <4>2, <4>3
    <3>6. (CHOOSE p \in DOMAIN v4 : Blank(p)) = e
      <4> HIDE DEF Blank
      <4>. QED BY ONLY <3>4, <3>5
    <3>7. PICK x : x = SubSeq(v4, e + 1, Len(v4))
      OBVIOUS
    <3>8. v5' = Streams!Rest([v5 EXCEPT !.headers = SubSeq(v4, 1, e - 1)], SubSeq(v4, e + 1, Len(v4)))
      BY <1>4, <3>6 DEF Streams!handle_read_headers, Streams!After, Streams!Crlf
    <3>9. x \in Seq(AnyToken) /\ Pieces(x, v3, b, 2 + e)
      <4>1. e \in 0 .. Len(v4)
        BY <3>3
      <4>. QED BY <1>b, <1>c, <2>2, <3>7, <4>1, DropPieces
    <3>10. Pieces(x, v3, v2.content, 0)
      BY <1>0, <1>b, <2>2, <3>2, <3>9, PiecesOfContent
    <3>11. [v5 EXCEPT !.headers = SubSeq(v4, 1, e - 1)] = Printed(Streams!HeaderLines(v2), <<>>)
      <4>1. PICK o, w : o = v5 /\ w = SubSeq(v4, 1, e - 1)
        OBVIOUS
      <4>2. o = Printed(<<>>, <<>>)
        BY <2>2, <4>1
      <4>3. [o EXCEPT !.headers = w] = Printed(w, <<>>)
        BY ONLY <4>2, PrintedMore, Zenon DEF WithLines
      <4>. QED BY ONLY <3>3, <4>1, <4>3, Zenon
    <3>12. v5' = Printed(Streams!HeaderLines(v2), x)
      <4>1. CASE x = <<>>
        BY <3>7, <3>8, <3>11, <4>1 DEF Streams!Rest
      <4>2. CASE x # <<>>
        <5>1. PICK o : o = Printed(Streams!HeaderLines(v2), <<>>)
          OBVIOUS
        <5>2. o.good = TRUE /\ o.content = <<>> /\ [o EXCEPT !.content = x] = Printed(Streams!HeaderLines(v2), x)
          <6>1. PICK l : l = Streams!HeaderLines(v2) /\ o = Printed(l, <<>>)
            BY <5>1
          <6>2. WithContent(o, x) = Printed(l, x)
            BY ONLY <6>1, PrintedMore
          <6>3. [o EXCEPT !.content = x] = WithContent(o, x)
            BY ONLY Zenon DEF WithContent
          <6>4. o.content = <<>>
            BY ONLY <6>1, PrintedFields
          <6>5. o.good = TRUE
            BY ONLY <6>1, PrintedFields, Zenon
          <6>. QED BY ONLY <6>1, <6>2, <6>3, <6>4, <6>5, Zenon
        <5>3. <<>> \o x = x
          BY ONLY <3>9, ConcatEmptySeq
        <5>4. Streams!Output(o, x) = [o EXCEPT !.content = x]
          BY <4>2, <5>2, <5>3 DEF Streams!Output
        <5>. QED BY <3>7, <3>8, <3>11, <4>2, <5>1, <5>2, <5>4 DEF Streams!Rest
      <4>. QED BY <4>1, <4>2
    <3>. QED BY <3>9, <3>10, <3>12
  <2>4. AfterHeaders'
    BY <2>1, <2>2, <2>3 DEF AfterHeaders
  <2>. QED BY <1>0, <2>1, <2>4 DEF HttpClientInv
<1>5. CASE Streams!handle_read_content
  <2>1. v1 = "content" /\ UNCHANGED <<v1, v2, v4>>
    BY <1>5 DEF Streams!handle_read_content
  <2>2. PICK k \in 1 .. Len(v3) : v5' = Streams!Output(v5, SubSeq(v3, 1, k)) /\ v3' = SubSeq(v3, k + 1, Len(v3))
    BY <1>5 DEF Streams!handle_read_content, Streams!After
  <2>3. v2.status = "200"
    BY <2>1 DEF HttpClientInv, AfterHeaders
  <2>4. ASSUME v2.headers > 0
        PROVE  v3' \in Seq(AnyToken) /\ \E x \in Seq(AnyToken) : v5' = Printed(Streams!HeaderLines(v2), x) /\ Pieces(x, v3', v2.content, 0)
    <3>1. PICK x \in Seq(AnyToken) : v5 = Printed(Streams!HeaderLines(v2), x) /\ Pieces(x, v3, v2.content, 0)
      BY <2>1, <2>4 DEF HttpClientInv, AfterHeaders
    <3>2. v3 \in Seq(AnyToken) /\ v2.content \in Seq(AnyToken)
      BY <1>0, <2>1, <2>4 DEF HttpClientInv, AfterHeaders, Replies
    <3>3. PICK t, y : t = SubSeq(v3, 1, k) /\ y = x \o t
      OBVIOUS
    <3>4. y \in Seq(AnyToken) /\ v3' \in Seq(AnyToken) /\ Pieces(y, v3', v2.content, 0) /\ t # <<>>
      BY <2>2, <3>1, <3>2, <3>3, CutPieces
    <3>5. PICK o : o = Printed(Streams!HeaderLines(v2), x)
      OBVIOUS
    <3>6. o.good = TRUE /\ o.content = x /\ [o EXCEPT !.content = y] = Printed(Streams!HeaderLines(v2), y)
      <4>1. PICK l : l = Streams!HeaderLines(v2) /\ o = Printed(l, x)
        BY <3>5
      <4>2. WithContent(o, y) = Printed(l, y)
        BY ONLY <4>1, PrintedMore
      <4>3. [o EXCEPT !.content = y] = WithContent(o, y)
        BY ONLY Zenon DEF WithContent
      <4>4. o.content = x
        BY ONLY <4>1, PrintedFields
      <4>5. o.good = TRUE
        BY ONLY <4>1, PrintedFields, Zenon
      <4>. QED BY ONLY <4>1, <4>2, <4>3, <4>4, <4>5, Zenon
    <3>7. Streams!Output(o, t) = [o EXCEPT !.content = y]
      BY <3>3, <3>4, <3>6 DEF Streams!Output
    <3>. QED BY <2>2, <3>1, <3>3, <3>4, <3>5, <3>6, <3>7
  <2>5. AfterHeaders'
    BY <2>1, <2>3, <2>4 DEF AfterHeaders
  <2>. QED BY <1>0, <2>1, <2>5 DEF HttpClientInv
<1>6. CASE Streams!EndOfContent
  <2>1. v1 = "content" /\ v1' = "done" /\ v3 = <<>> /\ UNCHANGED <<v2, v3, v4, v5>>
    BY <1>6 DEF Streams!EndOfContent, Streams!Going
  <2>2. AfterHeaders'
    BY <2>1 DEF HttpClientInv, AfterHeaders
  <2>. QED BY <1>0, <2>1, <2>2 DEF HttpClientInv
<1>7. CASE Streams!Fails
  <2>1. v1' = "failed" /\ v1 \notin {"failed", "invalid", "done"} /\ UNCHANGED <<v2, v3, v4, v5>>
    BY <1>7 DEF Streams!Fails
  <2>2. v5 = Printed(<<>>, <<>>) \/ PrintedSome
    <3>1. CASE v1 = "content"
      BY <3>1 DEF HttpClientInv, AfterHeaders, PrintedSome
    <3>2. CASE v1 # "content"
      BY <1>0, <2>1, <3>2 DEF HttpClientInv, BeforeHeaders
    <3>. QED BY <3>1, <3>2
  <2>3. v5' = Printed(<<>>, <<>>) \/ PrintedSome'
    BY <2>1, <2>2 DEF PrintedSome
  <2>. QED BY <1>0, <2>1, <2>3 DEF HttpClientInv
<1>. QED BY <1>1, <1>2, <1>3, <1>4, <1>5, <1>6, <1>7 DEF Streams!Next

\* A first piece is a prefix, and all of it if there is no second.
LEMMA PiecesBegin ==
  ASSUME NEW x \in Seq(AnyToken), NEW y \in Seq(AnyToken), NEW c \in Seq(AnyToken), Pieces(x, y, c, 0)
  PROVE  Streams!IsPrefix(x, c) /\ (y = <<>> => x = c)
<1>1. PICK l, m \in Nat : l = Len(x) /\ m = Len(c)
  OBVIOUS
<1>2. l <= m /\ (\A i \in 1 .. l : x[i] = c[i]) /\ (y = <<>> => l = m)
  BY <1>1 DEF Pieces
<1>3. PICK s, t : s = SubSeq(x, 1, l) /\ t = SubSeq(c, 1, l)
  OBVIOUS
<1>4. s \in Seq(AnyToken) /\ Len(s) = l /\ \A i \in 1 .. l : s[i] = x[i]
  BY ONLY <1>1, <1>3, x \in Seq(AnyToken)
<1>5. t \in Seq(AnyToken) /\ Len(t) = l /\ \A i \in 1 .. l : t[i] = c[i]
  BY ONLY <1>1, <1>2, <1>3, c \in Seq(AnyToken)
<1>6. s = t
  <2>1. \A i \in 1 .. Len(s) : s[i] = t[i]
    BY ONLY <1>2, <1>4, <1>5
  <2>. QED BY ONLY <1>4, <1>5, <2>1, SameSequence
<1>7. ASSUME y = <<>> PROVE x = c
  <2>1. Len(x) = Len(c) /\ \A i \in 1 .. Len(x) : x[i] = c[i]
    BY <1>1, <1>2, <1>7
  <2>. QED BY ONLY <2>1, x \in Seq(AnyToken), c \in Seq(AnyToken), SameSequence
<1>. QED BY <1>1, <1>2, <1>3, <1>6, <1>7 DEF Streams!IsPrefix

LEMMA HttpClientInvPrints == HttpClientInv => Streams!ContentAsSent
<1> SUFFICES ASSUME HttpClientInv PROVE Streams!ContentAsSent
  OBVIOUS
<1>0. /\ v2 \in Replies /\ v2.content \in Seq(AnyToken)
      /\ v1 \in {"resolve", "connect", "write", "status", "headers", "content", "done", "failed", "invalid"}
  BY DEF HttpClientInv, Replies
<1>1. v5 = Printed(<<>>, <<>>) \/ PrintedSome
  BY <1>0 DEF HttpClientInv, BeforeHeaders, AfterHeaders, PrintedSome
<1>2. v2.status # "200" => v5 = [headers |-> <<>>, content |-> <<>>, good |-> TRUE]
  BY <1>1 DEF PrintedSome, Printed
<1>3. ASSUME v2.headers > 0 PROVE Streams!IsPrefix(v5.content, v2.content)
  <2>1. CASE v5 = Printed(<<>>, <<>>)
    <3>1. Pieces(<<>>, v2.content, v2.content, 0)
      <4>1. PICK m \in Nat : m = Len(v2.content)
        BY <1>0
      <4>2. Len(<<>>) = 0 /\ 0 + 0 + m = m /\ \A i \in 1 .. m : 0 + 0 + i = i
        BY <4>1
      <4>. QED BY ONLY <4>1, <4>2 DEF Pieces
    <3>2. v5.content = <<>> /\ <<>> \in Seq(AnyToken)
      BY <2>1 DEF Printed
    <3>. QED BY <1>0, <3>1, <3>2, PiecesBegin
  <2>2. CASE PrintedSome
    <3>1. PICK x \in Seq(AnyToken), y \in Seq(AnyToken) : v5 = Printed(Streams!HeaderLines(v2), x) /\ Pieces(x, y, v2.content, 0)
      BY <1>3, <2>2 DEF PrintedSome
    <3>2. v5.content = x
      BY <3>1 DEF Printed
    <3>. QED BY <1>0, <3>1, <3>2, PiecesBegin
  <2>. QED BY <1>1, <2>1, <2>2
<1>4. ASSUME v2.headers > 0, v1 \in {"content", "done"}
      PROVE  v5.headers = Streams!HeaderLines(v2) /\ (v1 = "done" => v5.content = v2.content)
  <2>1. AfterHeaders /\ (v1 = "done" => v3 = <<>>)
    BY <1>4 DEF HttpClientInv
  <2>2. PICK x \in Seq(AnyToken) : v5 = Printed(Streams!HeaderLines(v2), x) /\ Pieces(x, v3, v2.content, 0) /\ v3 \in Seq(AnyToken)
    BY <1>4, <2>1 DEF AfterHeaders
  <2>3. v5.content = x /\ v5.headers = Streams!HeaderLines(v2)
    BY <2>2 DEF Printed
  <2>. QED BY <1>0, <2>1, <2>2, <2>3, PiecesBegin
<1>. QED BY <1>2, <1>3, <1>4 DEF Streams!ContentAsSent

-----------------------------------------------------------------------------
\* The copies of a file: v1 is the job, v2 how often each byte was written, v3 the
\* bytes each copier has copied.

LEMMA Quotient ==
  ASSUME NEW a \in Nat, NEW n \in Nat, n > 0
  PROVE  /\ a \div n \in Nat /\ n * (a \div n) <= a /\ a < n * (a \div n) + n
         /\ a % n = a - n * (a \div n) /\ a % n \in Nat
<1>1. a \div n \in Nat
  OBVIOUS
<1>2. n * (a \div n) <= a
  OBVIOUS
<1>3. a < n * (a \div n) + n
  OBVIOUS
<1>4. a % n = a - n * (a \div n)
  OBVIOUS
<1>5. a % n \in Nat
  OBVIOUS
<1>. QED BY ONLY <1>1, <1>2, <1>3, <1>4, <1>5

LEMMA Multiples ==
  ASSUME NEW i \in Nat, NEW j \in Nat, NEW q \in Nat
  PROVE  /\ i * q \in Nat /\ (i + 1) * q = i * q + q /\ i * q = q * i
         /\ i < j => i * q + q <= j * q
<1>1. i * q \in Nat /\ (i + 1) * q = i * q + q /\ i * q = q * i
  OBVIOUS
<1>2. ASSUME i < j PROVE i * q + q <= j * q
  <2>1. PICK d \in Nat : j = i + 1 + d
    <3>1. j - i - 1 \in Nat /\ j = i + 1 + (j - i - 1)
      BY <1>2
    <3>. QED BY <3>1
  <2>2. (i + 1 + d) * q = i * q + q + d * q
    OBVIOUS
  <2>3. d * q \in Nat /\ i * q \in Nat
    OBVIOUS
  <2>. QED BY ONLY <2>1, <2>2, <2>3, q \in Nat
<1>. QED BY <1>1, <1>2

\* Block i of n of q bytes: the last one also has the rest.
ShareSize(q, n, len, i) == IF i = n - 1 THEN q + (len - n * q) ELSE q

LEMMA ShareFits ==
  ASSUME NEW q \in Nat, NEW n \in Nat, NEW len \in Nat, n * q <= len, NEW i \in 0 .. n - 1
  PROVE  ShareSize(q, n, len, i) \in Nat /\ i * q \in Nat /\ i * q + ShareSize(q, n, len, i) <= len
<1>1. i \in Nat /\ i < n /\ n - 1 + 1 = n
  OBVIOUS
<1>2. PICK p, r \in Nat : p = i * q /\ r = n * q
  BY <1>1, Multiples
<1>3. p + q <= r /\ r <= len
  BY <1>1, <1>2, Multiples
<1>4. i = n - 1 => p + q = r
  BY <1>1, <1>2, Multiples
<1>. QED BY ONLY <1>2, <1>3, <1>4, q \in Nat, len \in Nat DEF ShareSize

LEMMA SharesApart ==
  ASSUME NEW q \in Nat, NEW n \in Nat, NEW len \in Nat, n * q <= len, NEW i \in 0 .. n - 1, NEW j \in 0 .. n - 1, i # j,
         NEW k \in Nat, k < ShareSize(q, n, len, i), NEW m \in Nat, m < ShareSize(q, n, len, j)
  PROVE  i * q + k # j * q + m
<1>1. i \in Nat /\ j \in Nat /\ i <= n - 1 /\ j <= n - 1
  OBVIOUS
<1>2. PICK x, y \in Nat : x = i * q /\ y = j * q
  BY <1>1, Multiples
<1>3. CASE i < j
  <2>1. k < q
    BY ONLY <1>1, <1>3, k < ShareSize(q, n, len, i), n \in Nat DEF ShareSize
  <2>2. x + q <= y
    BY <1>1, <1>2, <1>3, Multiples
  <2>3. x + k # y + m
    BY ONLY <1>2, <2>1, <2>2, q \in Nat, k \in Nat, m \in Nat
  <2>. QED BY <1>2, <2>3
<1>4. CASE j < i
  <2>1. m < q
    BY ONLY <1>1, <1>4, m < ShareSize(q, n, len, j), n \in Nat DEF ShareSize
  <2>2. y + q <= x
    BY <1>1, <1>2, <1>4, Multiples
  <2>3. x + k # y + m
    BY ONLY <1>2, <2>1, <2>2, q \in Nat, k \in Nat, m \in Nat
  <2>. QED BY <1>2, <2>3
<1>. QED BY <1>1, <1>3, <1>4

LEMMA SharesCover ==
  ASSUME NEW q \in Nat, NEW n \in Nat, n > 0, NEW len \in Nat, n * q <= len, NEW b \in 0 .. len - 1
  PROVE  \E i \in 0 .. n - 1 : \E k \in Nat : k < ShareSize(q, n, len, i) /\ b = i * q + k
<1>0. n - 1 \in 0 .. n - 1 /\ n - 1 \in Nat /\ (n - 1) + 1 = n /\ b \in Nat /\ b < len
  OBVIOUS
<1>1. PICK e \in Nat : e * q <= b /\ (q = 0 \/ b < e * q + q)
  <2>1. CASE q = 0
    BY <1>0, <2>1
  <2>2. CASE q > 0
    <3>1. b \div q \in Nat /\ q * (b \div q) <= b /\ b < q * (b \div q) + q
      BY <1>0, <2>2, Quotient
    <3>2. q * (b \div q) = (b \div q) * q
      BY <3>1, Multiples
    <3>. QED BY <3>1, <3>2
  <2>. QED BY <2>1, <2>2
<1>2. CASE q > 0 /\ e < n - 1
  <2>1. PICK x \in Nat : x = e * q
    BY Multiples
  <2>2. b - x \in Nat /\ b - x < q /\ b = x + (b - x)
    BY ONLY <1>0, <1>1, <1>2, <2>1, q \in Nat
  <2>3. e \in 0 .. n - 1 /\ ShareSize(q, n, len, e) = q
    BY <1>2 DEF ShareSize
  <2>. QED BY ONLY <2>1, <2>2, <2>3
<1>3. CASE q = 0 \/ e >= n - 1
  <2>1. PICK x, y, z \in Nat : x = (n - 1) * q /\ y = n * q /\ z = e * q
    BY <1>0, Multiples
  <2>2. y = x + q
    BY <1>0, <2>1, Multiples
  <2>3. x <= b
    <3>1. CASE q = 0
      BY <1>0, <2>1, <3>1
    <3>2. CASE e = n - 1
      BY <1>1, <2>1, <3>2
    <3>3. CASE e > n - 1
      <4>1. x + q <= z
        BY <1>0, <2>1, <3>3, Multiples
      <4>. QED BY ONLY <1>0, <1>1, <2>1, <4>1, q \in Nat
    <3>. QED BY <1>0, <1>3, <3>1, <3>2, <3>3
  <2>4. b - x \in Nat /\ b = x + (b - x) /\ b - x < q + (len - y)
    BY ONLY <1>0, <2>1, <2>2, <2>3, q \in Nat, len \in Nat
  <2>5. ShareSize(q, n, len, n - 1) = q + (len - y)
    BY <2>1 DEF ShareSize
  <2>. QED BY ONLY <1>0, <2>1, <2>4, <2>5
<1>. QED BY <1>0, <1>2, <1>3

\* Block i of a process.
ChildOff(q, n, i) == IF i = n - 1 THEN i * q ELSE IF i = 0 THEN 0 ELSE i * q + 1
ChildSize(q, n, m, i) == IF i = n - 1 THEN q + m ELSE q

LEMMA ChildFits ==
  ASSUME NEW q \in Nat, q > 0, NEW n \in Nat, NEW len \in Nat, NEW m \in Nat, n * q + m <= len, NEW i \in 0 .. n - 1
  PROVE  /\ ChildSize(q, n, m, i) \in Nat /\ ChildSize(q, n, m, i) > 0 /\ ChildOff(q, n, i) \in Nat
         /\ ChildOff(q, n, i) + ChildSize(q, n, m, i) <= len
<1>1. i \in Nat /\ i < n /\ n - 1 + 1 = n /\ i + 1 \in Nat
  OBVIOUS
<1>2. PICK p, s, r \in Nat : p = i * q /\ s = (i + 1) * q /\ r = n * q
  BY <1>1, Multiples
<1>3. s = p + q /\ s <= r
  <2>1. s = p + q
    BY <1>1, <1>2, Multiples
  <2>2. CASE i + 1 = n
    BY <1>2, <2>2
  <2>3. CASE i + 1 < n
    BY <1>1, <1>2, <2>3, Multiples
  <2>. QED BY <1>1, <2>1, <2>2, <2>3
<1>4. i # n - 1 => s + 1 <= r
  <2>1. ASSUME i # n - 1 PROVE s + q <= r
    BY <1>1, <1>2, <2>1, Multiples
  <2>. QED BY ONLY <1>2, <2>1, q \in Nat, q > 0
<1>5. r + m <= len
  BY <1>2
<1>. QED BY ONLY <1>1, <1>2, <1>3, <1>4, <1>5, q \in Nat, q > 0, m \in Nat, len \in Nat, n \in Nat DEF ChildOff, ChildSize

LEMMA ChildrenCover ==
  ASSUME NEW q \in Nat, q > 0, NEW n \in Nat, n > 0, NEW m \in Nat, NEW b \in Nat, b # q, b < n * q
  PROVE  \E i \in 0 .. n - 1 : ChildOff(q, n, i) <= b /\ b < ChildOff(q, n, i) + ChildSize(q, n, m, i)
<1>0. n - 1 \in 0 .. n - 1 /\ n - 1 \in Nat /\ (n - 1) + 1 = n /\ 0 \in 0 .. n - 1 /\ 0 * q = 0
  OBVIOUS
<1>1. CASE b < q
  <2>1. ChildOff(q, n, 0) = 0 /\ ChildSize(q, n, m, 0) >= q
    BY <1>0 DEF ChildOff, ChildSize
  <2>2. ChildSize(q, n, m, 0) \in Nat
    BY DEF ChildSize
  <2>. QED BY ONLY <1>0, <1>1, <2>1, <2>2, q \in Nat, b \in Nat
<1>2. CASE b > q
  <2>1. PICK c \in Nat : c = b - 1
    BY <1>2
  <2>2. PICK e \in Nat : e * q <= c /\ c < e * q + q
    <3>1. c \div q \in Nat /\ q * (c \div q) <= c /\ c < q * (c \div q) + q
      BY Quotient
    <3>2. q * (c \div q) = (c \div q) * q
      BY <3>1, Multiples
    <3>. QED BY <3>1, <3>2
  <2>3. PICK x, r, y \in Nat : x = e * q /\ r = n * q /\ y = (n - 1) * q
    BY <1>0, Multiples
  <2>4. e < n
    <3>1. n < e => r + q <= x
      BY <2>3, Multiples
    <3>2. n = e => r = x
      BY <2>3
    <3>. QED BY ONLY <2>1, <2>2, <2>3, <3>1, <3>2, q \in Nat, b \in Nat, n \in Nat, b < n * q
  <2>5. e # 0
    <3>1. e = 0 => x = 0
      BY <1>0, <2>3
    <3>. QED BY ONLY <1>2, <2>1, <2>2, <2>3, <3>1, q \in Nat, b \in Nat
  <2>6. CASE e = n - 1
    <3>1. y + q = r /\ x = y
      BY <1>0, <2>3, <2>6, Multiples
    <3>2. ChildOff(q, n, n - 1) = y /\ ChildSize(q, n, m, n - 1) = q + m
      BY <2>3 DEF ChildOff, ChildSize
    <3>3. y <= b /\ b < y + (q + m)
      BY ONLY <2>1, <2>2, <2>3, <3>1, q \in Nat, m \in Nat, b \in Nat, b < n * q
    <3>. QED BY ONLY <1>0, <3>2, <3>3
  <2>7. CASE e < n - 1
    <3>1. ChildOff(q, n, e) = x + 1 /\ ChildSize(q, n, m, e) = q /\ e \in 0 .. n - 1
      BY <2>3, <2>5, <2>7 DEF ChildOff, ChildSize
    <3>2. x + 1 <= b /\ b < x + 1 + q
      BY ONLY <2>1, <2>2, <2>3, q \in Nat, b \in Nat
    <3>. QED BY ONLY <3>1, <3>2
  <2>. QED BY <1>0, <2>4, <2>6, <2>7
<1>. QED BY <1>1, <1>2

\* The children cover every byte but those two kinds.
LEMMA ChildrenCoverExactly ==
  ASSUME NEW q \in Nat, q > 0, NEW n \in Nat, n > 0, NEW m \in Nat, NEW b \in Nat
  PROVE  (\E i \in 0 .. n - 1 : ChildOff(q, n, i) <= b /\ b < ChildOff(q, n, i) + ChildSize(q, n, m, i))
           <=> ~((n > 2 /\ b = q) \/ b >= n * q + m)
<1>0. n - 1 \in 0 .. n - 1 /\ n - 1 \in Nat /\ (n - 1) + 1 = n /\ 1 * q = q
  OBVIOUS
<1>1. PICK x, y \in Nat : x = (n - 1) * q /\ y = n * q /\ y = x + q
  <2>1. (n - 1) * q \in Nat /\ n * q = (n - 1) * q + q /\ n * q \in Nat
    BY <1>0, Multiples
  <2>. QED BY <2>1
<1>2. ChildOff(q, n, n - 1) = x /\ ChildSize(q, n, m, n - 1) = q + m
  BY <1>1 DEF ChildOff, ChildSize
<1>3. n > 2 => x > q
  <2>1. ASSUME n > 2 PROVE q + q <= x
    BY <1>0, <1>1, <2>1, Multiples
  <2>. QED BY ONLY <1>1, <2>1, q \in Nat, q > 0
<1>4. n <= 2 => x <= q
  <2>1. n = 1 => x = 0
    BY <1>1
  <2>2. n = 2 => x = q
    BY <1>0, <1>1
  <2>. QED BY ONLY <1>1, <2>1, <2>2, n \in Nat, n > 0, q \in Nat
<1>5. ASSUME ~((n > 2 /\ b = q) \/ b >= y + m)
      PROVE  \E i \in 0 .. n - 1 : ChildOff(q, n, i) <= b /\ b < ChildOff(q, n, i) + ChildSize(q, n, m, i)
  <2>1. CASE b >= x
    <3>1. x <= b /\ b < x + (q + m)
      BY ONLY <1>1, <1>5, <2>1, q \in Nat, m \in Nat, b \in Nat
    <3>. QED BY ONLY <1>0, <1>2, <3>1
  <2>2. CASE b < x
    <3>1. b # q /\ b < y
      BY ONLY <1>1, <1>4, <1>5, <2>2, n \in Nat, q \in Nat, b \in Nat
    <3>. QED BY <1>1, <3>1, ChildrenCover
  <2>. QED BY <1>1, <2>1, <2>2
<1>6. ASSUME NEW i \in 0 .. n - 1, ChildOff(q, n, i) <= b, b < ChildOff(q, n, i) + ChildSize(q, n, m, i)
      PROVE  ~((n > 2 /\ b = q) \/ b >= y + m)
  <2>1. CASE i = n - 1
    <3>1. x <= b /\ b < x + (q + m)
      BY ONLY <1>2, <1>6, <2>1
    <3>. QED BY ONLY <1>1, <1>3, <3>1, n \in Nat, q \in Nat, m \in Nat, b \in Nat
  <2>2. CASE i # n - 1 /\ i = 0
    <3>1. b < q
      BY <1>6, <2>2 DEF ChildOff, ChildSize
    <3>. QED BY ONLY <1>1, <3>1, q \in Nat, m \in Nat, b \in Nat
  <2>3. CASE i # n - 1 /\ i # 0
    <3>1. PICK z \in Nat : z = i * q
      BY Multiples
    <3>2. i \in Nat /\ 0 < i /\ i < n - 1
      BY <2>3
    <3>3. z + q <= x
      BY <1>0, <1>1, <3>1, <3>2, Multiples
    <3>4. q <= z
      <4>1. 0 * q = 0 /\ 0 * q + q <= i * q
        BY <3>2, Multiples
      <4>. QED BY <3>1, <4>1
    <3>5. z + 1 <= b /\ b < z + 1 + q
      BY <1>6, <2>3, <3>1 DEF ChildOff, ChildSize
    <3>. QED BY ONLY <1>1, <3>3, <3>4, <3>5, q \in Nat, q > 0, m \in Nat, b \in Nat
  <2>. QED BY <2>1, <2>2, <2>3
<1>. QED BY <1>1, <1>5, <1>6

JobTyped ==
  /\ v1 \in [by : {"process", "thread"}, len : Nat, n : Nat]
  /\ v1.len > 0 /\ v1.n > 0 /\ (v1.by = "process" => v1.n <= v1.len)
  /\ v2 \in [0 .. v1.len - 1 -> Nat] /\ v3 \in [0 .. v1.n - 1 -> Nat]

InBlock(b, i) == Files!ProcessBlock(i).off <= b /\ b < Files!ProcessBlock(i).off + Files!ProcessBlock(i).size

\* The bytes that are written are those of the children that have copied; a child
\* copies all of its block at once.
ChildrenWrote ==
  \A b \in 0 .. v1.len - 1 : v2[b] # 0 <=> \E i \in 0 .. v1.n - 1 : v3[i] # 0 /\ InBlock(b, i)

\* The bytes of a thread's block are written once up to where it is, and not yet
\* from there on.
ThreadsWrote ==
  \A i \in 0 .. v1.n - 1 :
    /\ v3[i] <= Files!ThreadBlock(i).size
    /\ \A k \in Nat : k < Files!ThreadBlock(i).size =>
         v2[Files!ThreadBlock(i).off + k] = IF k < v3[i] THEN 1 ELSE 0

CopyInv ==
  /\ JobTyped
  /\ v1.by = "process" => ChildrenWrote
  /\ v1.by = "thread" => ThreadsWrote

\* The blocks are those of the lemmas.
LEMMA ThreadBlocks ==
  ASSUME JobTyped
  PROVE  /\ v1.len \div v1.n \in Nat /\ v1.n * (v1.len \div v1.n) <= v1.len
         /\ \A i \in 0 .. v1.n - 1 :
              /\ Files!ThreadBlock(i).off = i * (v1.len \div v1.n)
              /\ Files!ThreadBlock(i).size = ShareSize(v1.len \div v1.n, v1.n, v1.len, i)
<1>1. v1.len \in Nat /\ v1.n \in Nat /\ v1.n > 0
  BY DEF JobTyped
<1>2. PICK len, n, q : len = v1.len /\ n = v1.n /\ q = len \div n
  OBVIOUS
<1>3. q \in Nat /\ n * q <= len /\ len % n = len - n * q
  BY <1>1, <1>2, Quotient
<1>4. ASSUME NEW i \in 0 .. n - 1
      PROVE  Files!ThreadBlock(i).off = i * q /\ Files!ThreadBlock(i).size = ShareSize(q, n, len, i)
  <2>1. Files!ThreadBlock(i) = [off |-> i * q, size |-> IF i = n - 1 THEN q + (len % n) ELSE q]
    BY <1>2 DEF Files!ThreadBlock
  <2>. QED BY <1>3, <2>1 DEF ShareSize
<1>. QED BY <1>2, <1>3, <1>4

LEMMA ProcessBlocks ==
  ASSUME JobTyped, v1.n <= v1.len
  PROVE  \E q \in Nat, m \in Nat :
           /\ q = v1.len \div v1.n /\ q > 0 /\ v1.n * q + m <= v1.len /\ m = v1.len % q
           /\ \A i \in 0 .. v1.n - 1 :
                /\ Files!ProcessBlock(i).off = ChildOff(q, v1.n, i)
                /\ Files!ProcessBlock(i).size = ChildSize(q, v1.n, m, i)
<1>1. v1.len \in Nat /\ v1.n \in Nat /\ v1.n > 0
  BY DEF JobTyped
<1>2. PICK len, n, q : len = v1.len /\ n = v1.n /\ q = len \div n
  OBVIOUS
<1>3. len \in Nat /\ n \in Nat /\ n > 0 /\ n <= len
  BY <1>1, <1>2
<1>4. q \in Nat /\ n * q <= len /\ len < n * q + n
  BY <1>2, <1>3, Quotient
<1>5. q > 0
  <2>1. q = 0 => n * q = 0
    BY <1>3
  <2>. QED BY ONLY <1>3, <1>4, <2>1
<1>6. PICK m, d : m = len % q /\ d = len \div q
  OBVIOUS
<1>7. d \in Nat /\ m \in Nat /\ m = len - q * d /\ len < q * d + q
  BY <1>3, <1>4, <1>5, <1>6, Quotient
<1>8. PICK x, y \in Nat : x = n * q /\ y = d * q /\ y = q * d
  BY <1>3, <1>4, <1>7, Multiples
<1>9. x <= y
  <2>1. CASE d < n
    <3>1. y + q <= x
      BY <1>3, <1>4, <1>7, <1>8, <2>1, Multiples
    <3>. QED BY ONLY <1>3, <1>4, <1>7, <1>8, <3>1
  <2>2. CASE d = n
    BY <1>8, <2>2
  <2>3. CASE n < d
    <3>1. x + q <= y
      BY <1>3, <1>4, <1>7, <1>8, <2>3, Multiples
    <3>. QED BY ONLY <1>4, <1>8, <3>1
  <2>. QED BY <1>3, <1>7, <2>1, <2>2, <2>3
<1>10. x + m <= len
  BY ONLY <1>3, <1>7, <1>8, <1>9
<1>11. ASSUME NEW i \in 0 .. n - 1
       PROVE  Files!ProcessBlock(i).off = ChildOff(q, n, i) /\ Files!ProcessBlock(i).size = ChildSize(q, n, m, i)
  <2>1. Files!ProcessBlock(i) = CASE i = n - 1 -> [off |-> i * q, size |-> q + m]
                                  [] i = 0 /\ n > 1 -> [off |-> 0, size |-> q]
                                  [] OTHER -> [off |-> i * q + 1, size |-> q]
    BY <1>2, <1>6 DEF Files!ProcessBlock
  <2>2. CASE i = n - 1
    <3>1. ~(i = 0 /\ n > 1)
      BY <1>3, <2>2
    <3>2. Files!ProcessBlock(i) = [off |-> i * q, size |-> q + m]
      BY <2>1, <2>2, <3>1
    <3>. QED BY <2>2, <3>2 DEF ChildOff, ChildSize
  <2>3. CASE i = 0 /\ n > 1
    <3>1. ~(i = n - 1)
      BY <1>3, <2>3
    <3>2. Files!ProcessBlock(i) = [off |-> 0, size |-> q]
      BY <2>1, <2>3, <3>1
    <3>. QED BY <2>3, <3>1, <3>2 DEF ChildOff, ChildSize
  <2>4. CASE ~(i = n - 1) /\ ~(i = 0 /\ n > 1)
    <3>1. Files!ProcessBlock(i) = [off |-> i * q + 1, size |-> q] /\ i # 0
      BY <1>3, <2>1, <2>4
    <3>. QED BY <2>4, <3>1 DEF ChildOff, ChildSize
  <2>. QED BY <2>2, <2>3, <2>4
<1>. QED BY <1>2, <1>4, <1>5, <1>6, <1>7, <1>8, <1>10, <1>11

LEMMA InitCopyInv == Files!Init => CopyInv
<1> SUFFICES ASSUME Files!Init PROVE CopyInv
  OBVIOUS
<1>1. /\ v1 \in [by : {"process", "thread"}, len : 1 .. MaxFile, n : 1 .. MaxCopiers]
      /\ v1.by = "process" => v1.n <= v1.len
      /\ v2 = [b \in 0 .. v1.len - 1 |-> 0] /\ v3 = [i \in 0 .. v1.n - 1 |-> 0]
  BY DEF Files!Init
<1>2. JobTyped
  BY <1>1, SizesAssumption DEF JobTyped
<1>3. ChildrenWrote
  BY <1>1 DEF ChildrenWrote
<1>4. ThreadsWrote
  <2>1. ASSUME NEW i \in 0 .. v1.n - 1
        PROVE  /\ 0 <= Files!ThreadBlock(i).size
               /\ \A k \in Nat : k < Files!ThreadBlock(i).size => v2[Files!ThreadBlock(i).off + k] = 0
    <3>1. PICK len, n, q : len = v1.len /\ n = v1.n /\ q = len \div n
      OBVIOUS
    <3>2. len \in Nat /\ n \in Nat /\ q \in Nat /\ n * q <= len /\ i \in 0 .. n - 1
      BY <1>2, <3>1, ThreadBlocks DEF JobTyped
    <3>3. PICK x, s \in Nat : x = i * q /\ s = ShareSize(q, n, len, i) /\ x + s <= len
      BY <3>2, ShareFits
    <3>4. Files!ThreadBlock(i).off = x /\ Files!ThreadBlock(i).size = s
      BY <1>2, <3>1, <3>3, ThreadBlocks
    <3>5. \A k \in Nat : k < s => x + k \in 0 .. len - 1
      BY ONLY <3>2, <3>3
    <3>. QED BY <1>1, <3>1, <3>3, <3>4, <3>5
  <2>2. \A i \in 0 .. v1.n - 1 : v3[i] = 0
    BY <1>1
  <2>. QED BY <2>1, <2>2 DEF ThreadsWrote
<1>. QED BY <1>2, <1>3, <1>4 DEF CopyInv

LEMMA NextKeepsCopyInv == CopyInv /\ Files!Next => CopyInv'
<1> SUFFICES ASSUME CopyInv, Files!Next PROVE CopyInv'
  OBVIOUS
<1>0. JobTyped /\ DOMAIN v3 = 0 .. v1.n - 1 /\ DOMAIN v2 = 0 .. v1.len - 1
  BY DEF CopyInv, JobTyped
<1>1. ASSUME NEW j \in 0 .. v1.n - 1, Files!Memcpy(j) PROVE CopyInv'
  <2>1. PICK off, size : off = Files!ProcessBlock(j).off /\ size = Files!ProcessBlock(j).size
    OBVIOUS
  <2>2. /\ v1.by = "process" /\ v1' = v1 /\ v3' = [v3 EXCEPT ![j] = size]
        /\ v2' = [b \in 0 .. v1.len - 1 |-> IF b >= off /\ b < off + size THEN v2[b] + 1 ELSE v2[b]]
    BY <1>0, <1>1, <2>1 DEF Files!Memcpy
  <2>3. size \in Nat /\ off \in Nat
    <3>1. v1.n <= v1.len /\ v1.len \in Nat /\ v1.n \in Nat
      BY <1>0, <2>2 DEF JobTyped
    <3>2. PICK q \in Nat, m \in Nat : /\ q > 0 /\ v1.n * q + m <= v1.len
                                      /\ off = ChildOff(q, v1.n, j) /\ size = ChildSize(q, v1.n, m, j)
      BY <1>0, <2>1, <3>1, ProcessBlocks
    <3>. QED BY <3>1, <3>2, ChildFits
  <2>4. \A b \in 0 .. v1.len - 1 : v2[b] \in Nat
    BY <1>0 DEF JobTyped
  <2>5. v2' \in [0 .. v1.len - 1 -> Nat] /\ \A b \in 0 .. v1.len - 1 : v2'[b] # 0 <=> v2[b] # 0 \/ (off <= b /\ b < off + size)
    <3>1. \A b \in 0 .. v1.len - 1 : v2'[b] = IF b >= off /\ b < off + size THEN v2[b] + 1 ELSE v2[b]
      BY <2>2
    <3>2. ASSUME NEW b \in 0 .. v1.len - 1 PROVE v2'[b] \in Nat /\ (v2'[b] # 0 <=> v2[b] # 0 \/ (off <= b /\ b < off + size))
      <4>1. PICK x \in Nat : x = v2[b]
        BY <2>4
      <4>2. off <= b <=> b >= off
        BY <2>3
      <4>. QED BY <3>1, <4>1, <4>2
    <3>. QED BY <2>2, <3>2
  <2>6. JobTyped'
    BY <1>0, <2>2, <2>3, <2>5 DEF JobTyped
  <2>7. \A i \in 0 .. v1.n - 1 : Files!ProcessBlock(i)' = Files!ProcessBlock(i)
    BY <2>2 DEF Files!ProcessBlock
  <2>8. ASSUME NEW b \in 0 .. v1.len - 1
        PROVE  v2'[b] # 0 <=> \E i \in 0 .. v1.n - 1 : v3'[i] # 0 /\ InBlock(b, i)
    <3>1. v2[b] # 0 <=> \E i \in 0 .. v1.n - 1 : v3[i] # 0 /\ InBlock(b, i)
      BY <2>2 DEF CopyInv, ChildrenWrote
    <3>2. v3'[j] = size /\ v3[j] = 0 /\ \A i \in 0 .. v1.n - 1 : i # j => v3'[i] = v3[i]
      BY <1>0, <1>1, <2>2 DEF JobTyped, Files!Memcpy
    <3>3. InBlock(b, j) <=> off <= b /\ b < off + size
      BY <2>1 DEF InBlock
    <3>4. off <= b /\ b < off + size => size # 0
      BY <2>3
    <3>5. (\E i \in 0 .. v1.n - 1 : v3'[i] # 0 /\ InBlock(b, i))
            <=> (\E i \in 0 .. v1.n - 1 : v3[i] # 0 /\ InBlock(b, i)) \/ InBlock(b, j)
      BY ONLY <3>2, <3>3, <3>4, j \in 0 .. v1.n - 1
    <3>. QED BY <2>5, <3>1, <3>3, <3>5
  <2>9. ChildrenWrote'
    <3>1. \A b \in 0 .. v1.len - 1, i \in 0 .. v1.n - 1 : InBlock(b, i)' <=> InBlock(b, i)
      BY <2>7 DEF InBlock
    <3>. QED BY <2>2, <2>8, <3>1 DEF ChildrenWrote
  <2>. QED BY <2>2, <2>6, <2>9 DEF CopyInv
<1>2. ASSUME NEW j \in 0 .. v1.n - 1, Files!tfn(j) PROVE CopyInv'
  <2>1. PICK len, n, q : len = v1.len /\ n = v1.n /\ q = len \div n
    OBVIOUS
  <2>2. len \in Nat /\ n \in Nat /\ q \in Nat /\ n * q <= len /\ j \in 0 .. n - 1
    BY <1>0, <2>1, ThreadBlocks DEF JobTyped
  <2>3. \A i \in 0 .. n - 1 : Files!ThreadBlock(i).off = i * q /\ Files!ThreadBlock(i).size = ShareSize(q, n, len, i)
    BY <1>0, <2>1, ThreadBlocks
  <2>4. PICK x, s \in Nat : x = j * q /\ s = ShareSize(q, n, len, j) /\ x + s <= len
    BY <2>2, ShareFits
  <2>5. PICK d \in Nat : d = v3[j]
    BY <1>0, <2>1, <2>2 DEF JobTyped
  <2>6. /\ v1.by = "thread" /\ v1' = v1 /\ d < s /\ v3' = [v3 EXCEPT ![j] = d + 1]
        /\ v2' = [v2 EXCEPT ![x + d] = v2[x + d] + 1]
    BY <1>2, <2>1, <2>2, <2>3, <2>4, <2>5 DEF Files!tfn
  <2>7. x + d \in 0 .. len - 1
    BY ONLY <2>2, <2>4, <2>5, <2>6
  <2>8. v2[x + d] = 0
    <3>1. v2[Files!ThreadBlock(j).off + d] = IF d < v3[j] THEN 1 ELSE 0
      BY <2>1, <2>2, <2>3, <2>4, <2>5, <2>6 DEF CopyInv, ThreadsWrote
    <3>. QED BY <2>2, <2>3, <2>4, <2>5, <3>1
  <2>9. v2'[x + d] = 1 /\ (\A b \in 0 .. len - 1 : b # x + d => v2'[b] = v2[b])
        /\ v3'[j] = d + 1 /\ (\A i \in 0 .. n - 1 : i # j => v3'[i] = v3[i])
    BY <1>0, <2>1, <2>2, <2>6, <2>7, <2>8 DEF JobTyped
  <2>10. JobTyped'
    <3>1. v2 \in [0 .. v1.len - 1 -> Nat] /\ v3 \in [0 .. v1.n - 1 -> Nat] /\ d + 1 \in Nat /\ v2[x + d] + 1 \in Nat
      BY <1>0, <2>5, <2>8 DEF JobTyped
    <3>2. v2' \in [0 .. v1.len - 1 -> Nat] /\ v3' \in [0 .. v1.n - 1 -> Nat]
      BY ONLY <2>6, <3>1
    <3>. QED BY <1>0, <2>6, <3>2 DEF JobTyped
  <2>11. \A i \in 0 .. n - 1 : Files!ThreadBlock(i)' = Files!ThreadBlock(i)
    BY <2>6 DEF Files!ThreadBlock
  <2>12. ASSUME NEW i \in 0 .. n - 1
         PROVE  /\ v3'[i] <= ShareSize(q, n, len, i)
                /\ \A k \in Nat : k < ShareSize(q, n, len, i) => v2'[i * q + k] = IF k < v3'[i] THEN 1 ELSE 0
    <3>1. /\ v3[i] <= ShareSize(q, n, len, i)
          /\ \A k \in Nat : k < ShareSize(q, n, len, i) => v2[i * q + k] = IF k < v3[i] THEN 1 ELSE 0
      BY <2>1, <2>3, <2>6 DEF CopyInv, ThreadsWrote
    <3>2. PICK y, z \in Nat : y = i * q /\ z = ShareSize(q, n, len, i) /\ y + z <= len
      BY <2>2, ShareFits
    <3>3. \A k \in Nat : k < z => y + k \in 0 .. len - 1
      BY ONLY <2>2, <3>2
    <3>4. CASE i # j
      <4>1. \A k \in Nat : k < z => y + k # x + d
        BY <2>2, <2>4, <2>5, <2>6, <3>2, <3>4, SharesApart
      <4>. QED BY ONLY <2>9, <3>1, <3>2, <3>3, <3>4, <4>1, i \in 0 .. n - 1
    <3>5. CASE i = j
      <4>1. y = x /\ z = s
        BY <2>4, <3>2, <3>5
      <4>2. v3'[i] = d + 1 /\ v3[i] = d /\ d + 1 <= z
        BY <2>4, <2>5, <2>6, <2>9, <3>2, <3>5, <4>1
      <4>3. ASSUME NEW k \in Nat, k < z PROVE v2'[y + k] = IF k < d + 1 THEN 1 ELSE 0
        <5>1. CASE k = d
          BY <2>5, <2>9, <4>1, <5>1
        <5>2. CASE k # d
          <6>1. y + k # x + d /\ y + k \in 0 .. len - 1 /\ (k < d <=> k < d + 1)
            BY <2>4, <2>5, <3>3, <4>1, <4>3, <5>2
          <6>2. v2[y + k] = IF k < d THEN 1 ELSE 0
            BY <3>1, <3>2, <4>2, <4>3
          <6>. QED BY <2>9, <6>1, <6>2
        <5>. QED BY <5>1, <5>2
      <4>. QED BY <3>2, <4>2, <4>3
    <3>. QED BY <3>4, <3>5
  <2>13. ThreadsWrote'
    BY <2>1, <2>3, <2>6, <2>11, <2>12 DEF ThreadsWrote
  <2>. QED BY <2>6, <2>10, <2>13 DEF CopyInv
<1>3. CASE Files!display
  <2>1. UNCHANGED <<v1, v2, v3>>
    BY <1>3 DEF Files!display
  <2>. QED BY <2>1 DEF CopyInv, JobTyped, ChildrenWrote, InBlock, ThreadsWrote, Files!ProcessBlock, Files!ThreadBlock
<1>. QED BY <1>0, <1>1, <1>2, <1>3 DEF Files!Next, Files!Copier

LEMMA CopyInvCopies == CopyInv => Files!CopyComplete /\ Files!BlocksInFile
<1> SUFFICES ASSUME CopyInv PROVE Files!CopyComplete /\ Files!BlocksInFile
  OBVIOUS
<1>0. JobTyped /\ DOMAIN v3 = 0 .. v1.n - 1 /\ DOMAIN v2 = 0 .. v1.len - 1
  BY DEF CopyInv, JobTyped
<1>1. PICK len, n, q : len = v1.len /\ n = v1.n /\ q = len \div n
  OBVIOUS
<1>2. len \in Nat /\ n \in Nat /\ n > 0 /\ len > 0 /\ v1.by \in {"process", "thread"} /\ (v1.by = "process" => n <= len)
  BY <1>0, <1>1 DEF JobTyped
<1>3. CASE v1.by = "thread"
  <2>1. q \in Nat /\ n * q <= len
    BY <1>0, <1>1, ThreadBlocks
  <2>2. \A i \in 0 .. n - 1 : Files!ThreadBlock(i).off = i * q /\ Files!ThreadBlock(i).size = ShareSize(q, n, len, i)
    BY <1>0, <1>1, ThreadBlocks
  <2>3. Files!BlocksInFile
    <3>1. \A i \in 0 .. n - 1 : i * q + ShareSize(q, n, len, i) <= len
      BY <1>2, <2>1, ShareFits
    <3>. QED BY <1>0, <1>1, <1>3, <2>2, <3>1 DEF Files!BlocksInFile
  <2>4. ASSUME \A i \in 0 .. n - 1 : v3[i] = Files!ThreadBlock(i).size, NEW b \in 0 .. len - 1 PROVE v2[b] = 1
    <3>1. PICK i \in 0 .. n - 1 : \E k \in Nat : k < ShareSize(q, n, len, i) /\ b = i * q + k
      BY <1>2, <2>1, SharesCover
    <3>2. PICK k \in Nat : k < ShareSize(q, n, len, i) /\ b = i * q + k
      BY <3>1
    <3>3. v2[Files!ThreadBlock(i).off + k] = IF k < v3[i] THEN 1 ELSE 0
      BY <1>1, <1>3, <2>2, <3>1, <3>2 DEF CopyInv, ThreadsWrote
    <3>4. k < v3[i] /\ Files!ThreadBlock(i).off + k = b
      BY <2>2, <2>4, <3>1, <3>2
    <3>. QED BY <3>3, <3>4
  <2>5. Files!CopyComplete
    BY <1>0, <1>1, <1>3, <2>4 DEF Files!CopyComplete, Files!Finished
  <2>. QED BY <2>3, <2>5
<1>4. CASE v1.by = "process"
  <2>1. PICK m \in Nat : /\ q \in Nat /\ q > 0 /\ n * q + m <= len /\ m = len % q
                         /\ \A i \in 0 .. n - 1 : /\ Files!ProcessBlock(i).off = ChildOff(q, n, i)
                                                  /\ Files!ProcessBlock(i).size = ChildSize(q, n, m, i)
    <3>1. v1.n <= v1.len
      BY <1>1, <1>2, <1>4
    <3>2. PICK p \in Nat, m \in Nat :
            /\ p = v1.len \div v1.n /\ p > 0 /\ v1.n * p + m <= v1.len /\ m = v1.len % p
            /\ \A i \in 0 .. v1.n - 1 : /\ Files!ProcessBlock(i).off = ChildOff(p, v1.n, i)
                                       /\ Files!ProcessBlock(i).size = ChildSize(p, v1.n, m, i)
      BY <1>0, <3>1, ProcessBlocks
    <3>3. p = q
      BY <1>1, <3>2
    <3>. QED BY <1>1, <3>2, <3>3
  <2>2. \A i \in 0 .. n - 1 : /\ ChildSize(q, n, m, i) \in Nat /\ ChildSize(q, n, m, i) > 0 /\ ChildOff(q, n, i) \in Nat
                              /\ ChildOff(q, n, i) + ChildSize(q, n, m, i) <= len
    BY <1>2, <2>1, ChildFits
  <2>3. Files!BlocksInFile
    BY <1>0, <1>1, <1>4, <2>1, <2>2 DEF Files!BlocksInFile
  <2>4. ASSUME \A i \in 0 .. n - 1 : v3[i] = Files!ProcessBlock(i).size, NEW b \in 0 .. len - 1
        PROVE  v2[b] = 0 <=> (n > 2 /\ b = q) \/ b >= n * q + m
    <3>1. v2[b] # 0 <=> \E i \in 0 .. n - 1 : v3[i] # 0 /\ InBlock(b, i)
      BY <1>1, <1>4 DEF CopyInv, ChildrenWrote
    <3>2. \A i \in 0 .. n - 1 : v3[i] # 0
      BY <2>1, <2>2, <2>4
    <3>3. \A i \in 0 .. n - 1 : InBlock(b, i) <=> ChildOff(q, n, i) <= b /\ b < ChildOff(q, n, i) + ChildSize(q, n, m, i)
      BY <2>1 DEF InBlock
    <3>4. (\E i \in 0 .. n - 1 : ChildOff(q, n, i) <= b /\ b < ChildOff(q, n, i) + ChildSize(q, n, m, i))
            <=> ~((n > 2 /\ b = q) \/ b >= n * q + m)
      <4>1. q \in Nat /\ q > 0 /\ n \in Nat /\ n > 0 /\ m \in Nat /\ b \in Nat
        BY <1>2, <2>1
      <4>. QED BY ONLY <4>1, ChildrenCoverExactly, Zenon
    <3>. QED BY ONLY <3>1, <3>2, <3>3, <3>4
  <2>5. Files!CopyComplete
    BY <1>0, <1>1, <1>4, <2>1, <2>4 DEF Files!CopyComplete, Files!Finished
  <2>. QED BY <2>3, <2>5
<1>. QED BY <1>2, <1>3, <1>4

-----------------------------------------------------------------------------
\* The philosophers: v1 says who they are, v2 the forks, v3 where they are.

Places == {"lock", "try", "eat", "unlock"}

Philosophers == Mutexes!Philosophers

\* Philosopher i holds fork k: the left one from taking it to putting it back,
\* the right one while eating.
Holds(i, k) ==
  \/ k = Mutexes!Left(i) /\ v3[i] \in {"try", "eat", "unlock"}
  \/ k = Mutexes!Right(i) /\ v3[i] = "eat"

ForksInv ==
  /\ v1 \in {"thread", "process"}
  /\ v2 \in [0 .. 5 -> 0 .. 5]
  /\ v3 \in [Philosophers -> Places]
  /\ \A i \in Philosophers, k \in 0 .. 5 : v2[k] = i <=> Holds(i, k)

LEMMA InitForksInv == Mutexes!Init => ForksInv
BY DEF Mutexes!Init, ForksInv, Philosophers, Mutexes!Philosophers, Mutexes!Nobody, Places, Holds

\* The forks of a philosopher are two.
LEMMA ForksApart ==
  ASSUME v1 \in {"thread", "process"}, NEW i \in Philosophers
  PROVE  /\ Mutexes!Left(i) \in 0 .. 5 /\ Mutexes!Right(i) \in 0 .. 5 /\ Mutexes!Left(i) # Mutexes!Right(i)
         /\ i # Mutexes!Nobody
BY DEF Mutexes!Left, Mutexes!Right, Philosophers, Mutexes!Philosophers, Mutexes!Nobody

LEMMA NextKeepsForksInv == ForksInv /\ Mutexes!Next => ForksInv'
<1> SUFFICES ASSUME ForksInv, NEW i \in Philosophers, Mutexes!Philosopher(i) PROVE ForksInv'
  BY DEF Mutexes!Next, Philosophers
<1>1. /\ Mutexes!Left(i) \in 0 .. 5 /\ Mutexes!Right(i) \in 0 .. 5 /\ Mutexes!Left(i) # Mutexes!Right(i)
      /\ i # Mutexes!Nobody
  BY ForksApart DEF ForksInv
<1>2. v1' = v1 /\ \A j \in Philosophers : Mutexes!Left(j)' = Mutexes!Left(j) /\ Mutexes!Right(j)' = Mutexes!Right(j)
  BY DEF Mutexes!Philosopher, Mutexes!TakeLeft, Mutexes!TryRight, Mutexes!PutRight, Mutexes!PutLeft, Mutexes!Left, Mutexes!Right
<1>3. i \in 0 .. 4 /\ i \in Nat /\ Philosophers = 0 .. 4 /\ Mutexes!Nobody = 5
  BY DEF Philosophers, Mutexes!Philosophers, Mutexes!Nobody
<1>4. v2' \in [0 .. 5 -> 0 .. 5] /\ v3' \in [Philosophers -> Places]
  BY <1>1, <1>3 DEF Mutexes!Philosopher, Mutexes!TakeLeft, Mutexes!TryRight, Mutexes!PutRight, Mutexes!PutLeft, ForksInv, Places
<1>5. ASSUME NEW j \in Philosophers, NEW k \in 0 .. 5 PROVE v2'[k] = j <=> Holds(j, k)'
  <2>. USE <1>1, <1>2, <1>3 DEF ForksInv, Holds
  <2>1. CASE Mutexes!TakeLeft(i)
    BY <2>1 DEF Mutexes!TakeLeft
  <2>2. CASE Mutexes!TryRight(i)
    BY <2>2 DEF Mutexes!TryRight
  <2>3. CASE Mutexes!PutRight(i)
    BY <2>3 DEF Mutexes!PutRight
  <2>4. CASE Mutexes!PutLeft(i)
    BY <2>4 DEF Mutexes!PutLeft
  <2>. QED BY <2>1, <2>2, <2>3, <2>4 DEF Mutexes!Philosopher
<1>. QED BY <1>2, <1>4, <1>5 DEF ForksInv

\* Two philosophers with a fork in common do not eat together, and the holder
\* of a fork somebody waits for does not wait.
LEMMA ForksInvExcludes == ForksInv => Mutexes!NeighboursTakeTurns /\ Mutexes!NoCircle
<1> SUFFICES ASSUME ForksInv PROVE Mutexes!NeighboursTakeTurns /\ Mutexes!NoCircle
  OBVIOUS
<1>1. Mutexes!NeighboursTakeTurns
  BY DEF Mutexes!NeighboursTakeTurns, ForksInv, Holds, Philosophers, Mutexes!Philosophers, Mutexes!Left, Mutexes!Right
<1>2. Mutexes!NoCircle
  BY ForksApart DEF Mutexes!NoCircle, ForksInv, Holds, Philosophers, Mutexes!Philosophers, Mutexes!Nobody
<1>. QED BY <1>1, <1>2

-----------------------------------------------------------------------------
\* Singleton.h: v1 is m_pSington, v5 the counters.

Steps == {"idle", "lock", "make", "owner", "return"}

SingletonTyped ==
  /\ v1 \in [ptr : Nat, owner : Nat]
  /\ v2 \in Threads \cup {Mutexes!NoThread}
  /\ v3 \in [Threads -> Steps]
  /\ v4 \in [Threads -> {<<>>} \cup Nat \X Nat]
  /\ v5 \in [made : Nat, resets : Nat, calls : Nat]

\* The holder of the mutex is the thread between the second test and the end of
\* the assignment.
OneMaker ==
  /\ \A t \in Threads : v2 = t <=> v3[t] \in {"make", "owner"}
  /\ \A t \in Threads : v3[t] = "make" => v1.ptr = 0

\* There is an instance exactly when one more was made than reset, and it is the
\* one made last.
Counted ==
  /\ v1.ptr = 0 => v5.made = v5.resets
  /\ v1.ptr # 0 => v5.made = v5.resets + 1 /\ v1.ptr = v5.made

\* Until the first reset whoever has passed the tests finds the first instance.
FirstForAll ==
  v5.resets = 0 =>
    /\ \A t \in Threads : v3[t] \in {"owner", "return"} => v1.ptr # 0
    /\ \A t \in Threads : v4[t] # <<>> => v4[t][1] = 1

SingletonInv == SingletonTyped /\ OneMaker /\ Counted /\ FirstForAll

LEMMA InitSingletonInv == Mutexes!InitSingleton => SingletonInv
<1> SUFFICES ASSUME Mutexes!InitSingleton PROVE SingletonInv
  OBVIOUS
<1>1. v4 = [t \in Threads |-> <<>>]
  BY DEF Mutexes!InitSingleton
<1>2. v4 \in [Threads -> {<<>>} \cup Nat \X Nat]
  BY <1>1
<1>3. v1 \in [ptr : Nat, owner : Nat] /\ v5 \in [made : Nat, resets : Nat, calls : Nat] /\ v3 \in [Threads -> Steps]
  BY DEF Mutexes!InitSingleton, Steps
<1>4. SingletonTyped
  BY <1>2, <1>3 DEF SingletonTyped, Mutexes!InitSingleton
<1>5. OneMaker /\ Counted
  BY ThreadsAssumption DEF Mutexes!InitSingleton, OneMaker, Counted, Mutexes!NoThread
<1>6. FirstForAll
  BY <1>1 DEF Mutexes!InitSingleton, FirstForAll
<1>. QED BY <1>4, <1>5, <1>6 DEF SingletonInv

\* m_pSington and the counters, field by field, after each step that writes them.
LEMMA SingletonFields ==
  ASSUME SingletonTyped
  PROVE  /\ \A t \in Threads : Mutexes!FirstTest(t) => v5' = [made |-> v5.made, resets |-> v5.resets, calls |-> v5.calls + 1]
         /\ \A t \in Threads : Mutexes!Make(t) => /\ v1' = [ptr |-> v5.made + 1, owner |-> v1.owner]
                                                  /\ v5' = [made |-> v5.made + 1, resets |-> v5.resets, calls |-> v5.calls]
         /\ \A t \in Threads : Mutexes!SetOwner(t) => v1' = [ptr |-> v1.ptr, owner |-> v5.made]
         /\ Mutexes!DesInstance => v5' = [made |-> v5.made, resets |-> v5.resets + 1, calls |-> v5.calls + 1]
<1>1. \A t \in Threads : Mutexes!FirstTest(t) => v5' = [made |-> v5.made, resets |-> v5.resets, calls |-> v5.calls + 1]
  BY DEF SingletonTyped, Mutexes!FirstTest
<1>2. ASSUME NEW t \in Threads, Mutexes!Make(t)
      PROVE  v1' = [ptr |-> v5.made + 1, owner |-> v1.owner]
  BY <1>2 DEF SingletonTyped, Mutexes!Make
<1>3. ASSUME NEW t \in Threads, Mutexes!Make(t)
      PROVE  v5' = [made |-> v5.made + 1, resets |-> v5.resets, calls |-> v5.calls]
  BY <1>3 DEF SingletonTyped, Mutexes!Make
<1>4. \A t \in Threads : Mutexes!SetOwner(t) => v1' = [ptr |-> v1.ptr, owner |-> v5.made]
  BY DEF SingletonTyped, Mutexes!SetOwner
<1>5. Mutexes!DesInstance => v5' = [made |-> v5.made, resets |-> v5.resets + 1, calls |-> v5.calls + 1]
  BY DEF SingletonTyped, Mutexes!DesInstance
<1>. QED BY <1>1, <1>2, <1>3, <1>4, <1>5

LEMMA NextKeepsSingletonInv == SingletonInv /\ Mutexes!NextSingleton => SingletonInv'
<1> SUFFICES ASSUME SingletonInv, Mutexes!NextSingleton PROVE SingletonInv'
  OBVIOUS
<1>0. SingletonTyped /\ \A t \in Threads : t # Mutexes!NoThread
  BY ThreadsAssumption DEF SingletonInv, Mutexes!NoThread
<1>1. ASSUME NEW t \in Threads, Mutexes!FirstTest(t) PROVE SingletonInv'
  <2>. USE <1>0, <1>1, SingletonFields DEF Mutexes!FirstTest, Mutexes!Go, SingletonInv
  <2>1. SingletonTyped'
    BY DEF SingletonTyped, Steps
  <2>2. OneMaker'
    BY DEF SingletonTyped, OneMaker
  <2>3. Counted' /\ FirstForAll'
    BY DEF SingletonTyped, Counted, FirstForAll
  <2>. QED BY <2>1, <2>2, <2>3
<1>2. ASSUME NEW t \in Threads, Mutexes!SecondTest(t) PROVE SingletonInv'
  <2>. USE <1>0, <1>2 DEF Mutexes!SecondTest, Mutexes!Go, SingletonInv
  <2>1. SingletonTyped'
    BY DEF SingletonTyped, Steps
  <2>2. OneMaker'
    BY DEF SingletonTyped, OneMaker
  <2>3. Counted' /\ FirstForAll'
    BY DEF SingletonTyped, Counted, FirstForAll
  <2>. QED BY <2>1, <2>2, <2>3
<1>3. ASSUME NEW t \in Threads, Mutexes!Make(t) PROVE SingletonInv'
  <2>. USE <1>0, <1>3, SingletonFields DEF Mutexes!Make, Mutexes!Go, SingletonInv
  <2>1. SingletonTyped'
    <3>1. v1' = [ptr |-> v5.made + 1, owner |-> v1.owner] /\ v5' = [made |-> v5.made + 1, resets |-> v5.resets, calls |-> v5.calls]
      OBVIOUS
    <3>2. v1' \in [ptr : Nat, owner : Nat] /\ v5' \in [made : Nat, resets : Nat, calls : Nat]
      BY ONLY <3>1, SingletonTyped DEF SingletonTyped
    <3>. QED BY <3>2 DEF SingletonTyped, Steps
  <2>2. OneMaker'
    BY DEF SingletonTyped, OneMaker
  <2>3. Counted' /\ FirstForAll'
    BY DEF SingletonTyped, OneMaker, Counted, FirstForAll
  <2>. QED BY <2>1, <2>2, <2>3
<1>4. ASSUME NEW t \in Threads, Mutexes!SetOwner(t) PROVE SingletonInv'
  <2>. USE <1>0, <1>4, SingletonFields DEF Mutexes!SetOwner, Mutexes!Go, SingletonInv
  <2>1. SingletonTyped'
    BY DEF SingletonTyped, Steps
  <2>2. OneMaker'
    BY DEF SingletonTyped, OneMaker
  <2>3. Counted' /\ FirstForAll'
    BY DEF SingletonTyped, Counted, FirstForAll
  <2>. QED BY <2>1, <2>2, <2>3
<1>5. ASSUME NEW t \in Threads, Mutexes!Return(t) PROVE SingletonInv'
  <2>. USE <1>0, <1>5 DEF Mutexes!Return, Mutexes!Go, SingletonInv
  <2>1. SingletonTyped'
    BY DEF SingletonTyped, Steps
  <2>2. OneMaker'
    BY DEF SingletonTyped, OneMaker
  <2>3. Counted' /\ FirstForAll'
    BY DEF SingletonTyped, Counted, FirstForAll
  <2>. QED BY <2>1, <2>2, <2>3
<1>6. ASSUME Mutexes!DesInstance PROVE SingletonInv'
  <2>. USE <1>0, <1>6, SingletonFields DEF Mutexes!DesInstance, SingletonInv
  <2>1. SingletonTyped'
    BY SMTT(60) DEF SingletonTyped
  <2>2. OneMaker'
    BY DEF SingletonTyped, OneMaker
  <2>3. Counted' /\ FirstForAll'
    BY DEF SingletonTyped, Counted, FirstForAll
  <2>. QED BY <2>1, <2>2, <2>3
<1>. QED BY <1>1, <1>2, <1>3, <1>4, <1>5, <1>6 DEF Mutexes!NextSingleton, Mutexes!GetInstance

LEMMA SingletonInvOnce == SingletonInv => Mutexes!OneInstance
BY DEF SingletonInv, SingletonTyped, Counted, FirstForAll, Mutexes!OneInstance

-----------------------------------------------------------------------------
\* The program that runs keeps its invariant.
IInv ==
  /\ program = "chat_server" => RoomInv
  /\ program = "chat_client" => ClientInv
  /\ program = "tcp" => TcpInv(AllFit)
  /\ program = "tcp_large" => TcpInv(ReadFits)
  /\ program = "udp" => UdpInv
  /\ program = "fork" => ForkInv
  /\ program = "daemon" => DaemonInv
  /\ program = "timer" => TimerInv
  /\ program = "http_client" => HttpClientInv
  /\ program = "wrap" => WrapInv
  /\ program = "file_cp" => CopyInv
  /\ program = "philosopher" => ForksInv
  /\ program = "Singleton" => SingletonInv

LEMMA InitIInv == Init => IInv
<1> SUFFICES ASSUME Init PROVE IInv
  OBVIOUS
<1>1. /\ program = "chat_server" => Room!Init
      /\ program = "chat_client" => Chat!Init
      /\ program = "tcp" => Asio(AllFit)!Init
      /\ program = "tcp_large" => Asio(ReadFits)!Init
      /\ program = "udp" => Asio(AllFit)!InitUdp
      /\ program = "fork" => Forks!Init
      /\ program = "daemon" => Forks!InitDaemon
      /\ program = "timer" => Asio(AllFit)!InitTimer
      /\ program = "http_client" => Streams!Init
      /\ program = "wrap" => Streams!InitWrap
      /\ program = "file_cp" => Files!Init
      /\ program = "philosopher" => Mutexes!Init
      /\ program = "Singleton" => Mutexes!InitSingleton
  BY DEF Init, Tables!Init
<1>. QED BY <1>1, InitRoomInv, InitClientInv, InitTcpInv, InitUdpInv, InitForkInv, InitDaemonInv, InitTimerInv,
            InitHttpClientInv, InitWrapInv, InitCopyInv, InitForksInv, InitSingletonInv DEF IInv

LEMMA NextKeepsIInv == IInv /\ Next => IInv'
<1> SUFFICES ASSUME IInv, Next PROVE IInv'
  OBVIOUS
<1>1. CASE NextOwn
  <2>0. program' = program
    BY <1>1 DEF NextOwn
  <2>1. program = "chat_server" => RoomInv'
    BY <1>1, NextKeepsRoomInv DEF NextOwn, IInv
  <2>2. program = "chat_client" => ClientInv'
    BY <1>1, NextKeepsClientInv DEF NextOwn, IInv
  <2>3. program = "tcp" => TcpInv(AllFit)'
    BY <1>1, NextKeepsTcpInv DEF NextOwn, IInv
  <2>4. program = "tcp_large" => TcpInv(ReadFits)'
    BY <1>1, NextKeepsTcpInv DEF NextOwn, IInv
  <2>5. program = "udp" => UdpInv'
    BY <1>1, NextKeepsUdpInv DEF NextOwn, IInv
  <2>6. program = "fork" => ForkInv'
    BY <1>1, NextKeepsForkInv DEF NextOwn, IInv
  <2>7. program = "daemon" => DaemonInv'
    BY <1>1, NextKeepsDaemonInv DEF NextOwn, IInv
  <2>8. program = "timer" => TimerInv'
    BY <1>1, NextKeepsTimerInv DEF NextOwn, IInv
  <2>9. program = "http_client" => HttpClientInv'
    BY <1>1, NextKeepsHttpClientInv DEF NextOwn, IInv
  <2>10. program = "wrap" => WrapInv'
    BY <1>1, NextKeepsWrapInv DEF NextOwn, IInv
  <2>11. program = "file_cp" => CopyInv'
    BY <1>1, NextKeepsCopyInv DEF NextOwn, IInv
  <2>12. program = "philosopher" => ForksInv'
    BY <1>1, NextKeepsForksInv DEF NextOwn, IInv
  <2>13. program = "Singleton" => SingletonInv'
    BY <1>1, NextKeepsSingletonInv DEF NextOwn, IInv
  <2>. QED BY <2>0, <2>1, <2>2, <2>3, <2>4, <2>5, <2>6, <2>7, <2>8, <2>9, <2>10, <2>11, <2>12, <2>13 DEF IInv
<1>2. CASE Tables!Next
  <2>1. /\ program' = program
        /\ program \in {"invert", "invert_table", "exp", "ini", "LRUCache", "encode"}
    BY <1>2 DEF Tables!Next
  <2>. QED BY <2>1 DEF IInv
<1>. QED BY <1>1, <1>2 DEF Next

LEMMA StutterKeepsIInv == IInv /\ UNCHANGED vars => IInv'
<1> SUFFICES ASSUME IInv, UNCHANGED vars PROVE IInv'
  OBVIOUS
<1>0. UNCHANGED <<program, v1, v2, v3, v4, v5, v6, v7, v8, v9>>
  BY DEF vars
<1>1. RoomInv => RoomInv'
  BY <1>0 DEF RoomInv, RoomTyped, RoomLog, QueueInv
<1>2. ClientInv => ClientInv'
  BY <1>0 DEF ClientInv, ClientTyped, LinesFollow, OneWrite
<1>3. TcpInv(AllFit) => TcpInv(AllFit)'
  BY <1>0 DEF TcpInv, TcpTyped, EchoesInOrder, BlocksOwned
<1>4. TcpInv(ReadFits) => TcpInv(ReadFits)'
  BY <1>0 DEF TcpInv, TcpTyped, EchoesInOrder, BlocksOwned
<1>5. UdpInv => UdpInv'
  BY <1>0 DEF UdpInv
<1>6. ForkInv => ForkInv'
  BY <1>0 DEF ForkInv, ForkTyped, Forks!Zombies
<1>7. DaemonInv => DaemonInv'
  BY <1>0 DEF DaemonInv, StreamsAt, ProcessAt
<1>8. TimerInv => TimerInv'
  BY <1>0 DEF TimerInv, TimerLimit
<1>9. HttpClientInv => HttpClientInv'
  BY <1>0 DEF HttpClientInv, BeforeHeaders, AfterHeaders, PrintedSome
<1>10. WrapInv => WrapInv'
  BY <1>0 DEF WrapInv, WrapTyped
<1>11. CopyInv => CopyInv'
  BY <1>0 DEF CopyInv, JobTyped, ChildrenWrote, InBlock, ThreadsWrote, Files!ProcessBlock, Files!ThreadBlock
<1>12. ForksInv => ForksInv'
  BY <1>0 DEF ForksInv, Holds, Mutexes!Left, Mutexes!Right
<1>13. SingletonInv => SingletonInv'
  BY <1>0 DEF SingletonInv, SingletonTyped, OneMaker, Counted, FirstForAll
<1>. QED BY <1>0, <1>1, <1>2, <1>3, <1>4, <1>5, <1>6, <1>7, <1>8, <1>9, <1>10, <1>11, <1>12, <1>13 DEF IInv

\* Whichever program runs, its invariant is inductive.
LEMMA InvariantHolds == Spec => []IInv
BY InitIInv, NextKeepsIInv, StutterKeepsIInv, PTL DEF Spec

\* However joins, messages, writes and failures interleave in chat_server.cpp,
\* what a session has written and queued is the log of the room from the recent
\* messages it was given when it joined: nothing is missing, doubled or out of
\* order, and a participant with a message has a write in progress.  The lines
\* typed to chat_client.cpp reach the socket in order.
THEOREM ChatKeepsOrder == Spec => []ChatInOrder
<1>1. IInv => ChatInOrder
  BY RoomInvGives, ClientInvOrders DEF IInv, ChatInOrder
<1>. QED BY <1>1, InvariantHolds, PTL

\* The memory of a session of the allocating server is given to one handler at a
\* time, and is freed once; the data of a client come back to it in order; a
\* datagram is answered to the client that sent it.
THEOREM SessionsKeepTheirs == Spec => []SessionsOwnTheirs
<1>1. IInv => SessionsOwnTheirs
  BY TcpInvReuses, UdpInvReplies DEF IInv, SessionsOwnTheirs
<1>. QED BY <1>1, InvariantHolds, PTL

\* In the servers that fork, a child that ended has been announced to a parent
\* that is alive, and every process holds the connection it serves and no other;
\* the daemon has left its terminal whatever signals and children do.
THEOREM ProcessesStayAccountedFor == Spec => []ProcessesAccountedFor
<1>1. IInv => ProcessesAccountedFor
  BY ForkInvForgetsNobody, DaemonInvDetaches DEF IInv, ProcessesAccountedFor
<1>. QED BY <1>1, InvariantHolds, PTL

\* In whatever pieces a reply arrives, the HTTP clients print its headers and
\* its content as they were sent; Readn, Writen and Readline of wrap.c hand on the
\* bytes of a stream of any length once and in order, with buffers of any size;
\* timers on several threads print every number once.
THEOREM StreamsHandedOn == Spec => []NothingTwice
<1>1. IInv => NothingTwice
  BY HttpClientInvPrints, WrapInvHandsOn, TimerInvCounts DEF IInv, NothingTwice
<1>. QED BY <1>1, InvariantHolds, PTL

\* For every length of a file and every number of copiers, the threads of file_cp
\* write each byte once; the children write inside the file and leave out exactly
\* the first byte of the second block, if they are more than two, and what lies
\* behind the len % bs bytes the last one adds to its block.
THEOREM FilesCopied == Spec => []CopiedWhole
<1>1. IInv => CopiedWhole
  BY CopyInvCopies DEF IInv, CopiedWhole
<1>. QED BY <1>1, InvariantHolds, PTL

\* Philosophers who share a fork never eat together, as threads or as processes,
\* and nobody holds a fork while waiting for another.  For any threads and any
\* number of calls, GetInstance makes an instance only when there is none, and
\* until a DesInstance everybody is given the first one.
THEOREM MutexesExclude == Spec => []ExclusiveUse
<1>1. IInv => ExclusiveUse
  BY ForksInvExcludes, SingletonInvOnce DEF IInv, ExclusiveUse
<1>. QED BY <1>1, InvariantHolds, PTL

=============================================================================
