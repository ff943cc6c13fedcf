----------------------------- MODULE ServersProofs -----------------------------
(***************************************************************************)
(* The servers of MCServers, for any clients and any sizes of tables: the  *)
(* table of a reactor and its epoll set agree, no client of a reactor gets *)
(* the data of another, what edge-triggered readers leave unread, and the  *)
(* arrays, sets and counters of the other servers agree with what is open. *)
(* Each program has an inductive invariant of its own.                     *)
(***************************************************************************)
EXTENDS MCServers, Sequences, FiniteSetTheorems, WellFoundedInduction, TLAPS

\* A set of numbers that is not empty has a least one.
LEMMA LeastExists ==
  ASSUME NEW S \in SUBSET Nat, S # {}
  PROVE  \E x \in S : \A y \in S : x <= y
<1>. DEFINE Less == {p \in Nat \X Nat : p[1] < p[2]}
<1>1. IsWellFoundedOn(Less, Nat)
  BY NatLessThanWellFounded DEF OpToRel
<1>2. \E x \in S : \A y \in S : ~(<<y, x>> \in Less)
  <2>. HIDE DEF Less
  <2>. QED BY <1>1, WFMin, Zenon
<1>3. PICK x \in S : \A y \in S : ~(<<y, x>> \in Less)
  BY <1>2
<1>4. ASSUME NEW y \in S PROVE x <= y
  <2>1. <<y, x>> \in Nat \X Nat /\ <<y, x>>[1] = y /\ <<y, x>>[2] = x
    OBVIOUS
  <2>. QED BY <1>3, <2>1
<1>. QED BY <1>4

\* Both ways of asking for it find it: the least free entry and the least free
\* descriptor of the reactors.
LEMMA LeastIsMember ==
  ASSUME NEW S \in SUBSET Nat, S # {}
  PROVE  Reactor!Least(S) \in S /\ Reactor01!Min(S) \in S
BY LeastExists DEF Reactor!Least, Reactor01!Min

-----------------------------------------------------------------------------
\* epoll_ET_LT

Readers == [program : {"1-epoll", "2-block_epoll", "3-noblock_epoll"}, at : {"wait", "read"}, out : Nat, told : Nat]

EdgeInv ==
  /\ g_events \in Readers /\ peer \in [written : Nat, edge : BOOLEAN]
  /\ g_events.out <= peer.written
  /\ g_events.program # "3-noblock_epoll" /\ peer.edge => 2 * g_events.told + 2 <= peer.written
  /\ Epoll!NothingLeftBehind

LEMMA InitEdgeInv == Epoll!InitEdge => EdgeInv
BY DEF Epoll!InitEdge, EdgeInv, Readers, Epoll!NothingLeftBehind, Epoll!UnreadEdge

\* The reader that reads everything stops only at nothing; the others have been
\* told once for two halves and read once for being told.
LEMMA NextKeepsEdgeInv == EdgeInv /\ Epoll!NextEdge => EdgeInv'
<1> SUFFICES ASSUME EdgeInv, Epoll!NextEdge PROVE EdgeInv'
  OBVIOUS
<1>0. g_events \in Readers /\ peer \in [written : Nat, edge : BOOLEAN]
  BY DEF EdgeInv
<1>1. CASE Epoll!WriteEdge
  BY <1>1 DEF Epoll!WriteEdge, EdgeInv, Readers, Epoll!NothingLeftBehind, Epoll!UnreadEdge
<1>2. CASE Epoll!WaitEdge
  <2>1. peer' \in [written : Nat, edge : BOOLEAN] /\ peer'.edge = FALSE /\ peer'.written = peer.written
    BY <1>0, <1>2 DEF Epoll!WaitEdge
  <2>2. g_events' = [program |-> g_events.program, at |-> "read", out |-> g_events.out, told |-> g_events.told + 1]
    BY <1>0, <1>2 DEF Epoll!WaitEdge, Readers
  <2>. QED BY <1>2, <2>1, <2>2 DEF Epoll!WaitEdge, EdgeInv, Readers, Epoll!NothingLeftBehind, Epoll!UnreadEdge
<1>3. CASE Epoll!ReadOnce
  <2>1. g_events' = [program |-> g_events.program, at |-> "wait", out |-> g_events.out + 1, told |-> g_events.told]
    BY <1>0, <1>3 DEF Epoll!ReadOnce, Readers
  <2>. QED BY <1>3, <2>1 DEF Epoll!ReadOnce, EdgeInv, Readers, Epoll!NothingLeftBehind, Epoll!UnreadEdge
<1>4. CASE Epoll!ReadAll
  BY <1>4 DEF Epoll!ReadAll, EdgeInv, Readers, Epoll!NothingLeftBehind, Epoll!UnreadEdge
<1>. QED BY <1>1, <1>2, <1>3, <1>4 DEF Epoll!NextEdge

-----------------------------------------------------------------------------
\* 02_epoll_loop

Events == {"EPOLLIN", "EPOLLOUT"}

EntryRecords ==
  [fd : 0 .. ReactorFds, call_back : {Reactor!None, "recvdata", "senddata"}, events : {Reactor!None} \cup Events,
   status : {0, 1}, buf : Clients \cup {Reactor!None}]

ReactorTyped ==
  /\ g_events \in [Reactor!Entries -> EntryRecords]
  /\ peer \in [Reactor!Fds -> Clients \cup {Reactor!None}]
  /\ epoll \in [Reactor!Fds -> [entry : Reactor!Entries, events : Events] \cup {Reactor!Unregistered}]
  /\ backlog \in SUBSET Clients /\ sent \in SUBSET Clients /\ fresh \in SUBSET Clients
  /\ events \in SUBSET [entry : Reactor!Entries \cup {Reactor!Listener}, events : Events]

\* An entry that waits to send holds the data of the client it will be sent to.
OwnBuffer ==
  \A e \in Reactor!InUse : g_events[e].call_back = "senddata" => g_events[e].buf = peer[g_events[e].fd]

ReactorInv ==
  /\ ReactorTyped
  /\ Reactor!TypeOK
  /\ Reactor!TableMatchesEpoll
  /\ OwnBuffer
  /\ Reactor!OwnDataOnly

LEMMA InitReactorInv == Reactor!Init => ReactorInv
BY SizesAssumption
DEF Reactor!Init, ReactorInv, ReactorTyped, Reactor!TypeOK, Reactor!TableMatchesEpoll, OwnBuffer, Reactor!OwnDataOnly,
    EntryRecords, Reactor!InUse, Reactor!Entries, Reactor!Fds, Reactor!Unset, Reactor!Unregistered, Reactor!None, Reactor!Listener

\* What eventset, eventadd and eventdel write, field by field.
LEMMA EntryUpdates ==
  ASSUME NEW entry \in EntryRecords, NEW fd, NEW call_back, NEW ev
  PROVE  /\ Reactor!Listening(entry, fd, call_back, ev) =
              [fd |-> fd, call_back |-> call_back, events |-> ev, status |-> 1, buf |-> entry.buf]
         /\ Reactor!Deleted(entry) =
              [fd |-> entry.fd, call_back |-> entry.call_back, events |-> entry.events, status |-> 0, buf |-> entry.buf]
<1>1. ASSUME NEW x, x = Reactor!Listening(entry, fd, call_back, ev)
      PROVE  x = [fd |-> fd, call_back |-> call_back, events |-> ev, status |-> 1, buf |-> entry.buf]
  BY <1>1 DEF EntryRecords, Reactor!Listening
<1>2. ASSUME NEW x, x = Reactor!Deleted(entry)
      PROVE  x = [fd |-> entry.fd, call_back |-> entry.call_back, events |-> entry.events, status |-> 0, buf |-> entry.buf]
  BY <1>2 DEF EntryRecords, Reactor!Deleted
<1>. QED BY <1>1, <1>2, Zenon

\* Entries can be deleted and their descriptors closed, whichever they are, if
\* no event of theirs is left in the array.
LEMMA ClosingKeepsReactorInv ==
  ASSUME ReactorInv,
         NEW gone \in SUBSET Reactor!InUse,
         g_events' = [e \in Reactor!Entries |-> IF e \in gone THEN Reactor!Deleted(g_events[e]) ELSE g_events[e]],
         Reactor!CloseAll({g_events[e].fd : e \in gone}),
         events' \in SUBSET events, \A ev \in events' : ev.entry \notin gone,
         at' \in {"sweep", "wait", "events"}, at' = "events" <=> events' # {},
         checkpos' \in 0 .. MAX_EVENTS,
         UNCHANGED <<backlog, sent, fresh, misled>>
  PROVE  ReactorInv'
<1>. DEFINE closed == {g_events[e].fd : e \in gone}
<1>1. \A e \in Reactor!InUse : e \in Reactor!Entries /\ g_events[e] \in EntryRecords /\ g_events[e].fd \in Reactor!Fds
                               /\ epoll[g_events[e].fd].entry = e
  BY DEF ReactorInv, ReactorTyped, Reactor!TypeOK, Reactor!TableMatchesEpoll, Reactor!InUse
<1>2. \A e \in Reactor!Entries : /\ g_events'[e].fd = g_events[e].fd /\ g_events'[e].events = g_events[e].events
                                 /\ g_events'[e].call_back = g_events[e].call_back
                                 /\ g_events'[e].buf = g_events[e].buf
                                 /\ g_events'[e].status = IF e \in gone THEN 0 ELSE g_events[e].status
                                 /\ g_events'[e] \in EntryRecords
  <2>1. TAKE e \in Reactor!Entries
  <2>2. g_events[e] \in EntryRecords
    BY DEF ReactorInv, ReactorTyped
  <2>3. CASE e \in gone
    <3>1. g_events'[e] = [fd |-> g_events[e].fd, call_back |-> g_events[e].call_back, events |-> g_events[e].events,
                          status |-> 0, buf |-> g_events[e].buf]
      BY <2>2, <2>3, EntryUpdates
    <3>. QED BY <2>2, <2>3, <3>1 DEF EntryRecords
  <2>4. CASE e \notin gone
    BY <2>2, <2>4
  <2>. QED BY <2>3, <2>4
<1>3. Reactor!InUse' = Reactor!InUse \ gone
  BY <1>1, <1>2 DEF Reactor!InUse
<1>4. \A f \in Reactor!Fds : /\ f \in closed => peer'[f] = Reactor!None /\ epoll'[f] = Reactor!Unregistered
                             /\ f \notin closed => peer'[f] = peer[f] /\ epoll'[f] = epoll[f]
  BY DEF Reactor!CloseAll
<1>5. /\ \A e \in Reactor!InUse' : g_events[e].fd \notin closed
      /\ \A e \in gone : g_events[e].fd \in closed
  BY <1>1, <1>3
<1>. HIDE DEF closed
<1>6. ReactorTyped'
  <2>1. g_events' \in [Reactor!Entries -> EntryRecords]
    <3>1. \A e \in Reactor!Entries : g_events'[e] \in EntryRecords
      BY <1>2
    <3>. QED BY <3>1
  <2>2. peer' \in [Reactor!Fds -> Clients \cup {Reactor!None}]
    BY DEF Reactor!CloseAll, ReactorInv, ReactorTyped
  <2>3. epoll' \in [Reactor!Fds -> [entry : Reactor!Entries, events : Events] \cup {Reactor!Unregistered}]
    BY DEF Reactor!CloseAll, ReactorInv, ReactorTyped
  <2>. QED BY <2>1, <2>2, <2>3 DEF ReactorInv, ReactorTyped
<1>7. Reactor!TypeOK'
  BY <1>1, <1>2, <1>3 DEF Reactor!TypeOK, EntryRecords
<1>8. Reactor!TableMatchesEpoll'
  <2>1. ASSUME NEW f \in Reactor!Fds, epoll'[f] # Reactor!Unregistered
        PROVE  /\ peer'[f] # Reactor!None
               /\ epoll'[f].entry \in Reactor!InUse' /\ g_events'[epoll'[f].entry].fd = f
               /\ g_events'[epoll'[f].entry].events = epoll'[f].events
    <3>1. f \notin closed /\ peer'[f] = peer[f] /\ epoll'[f] = epoll[f]
      BY <1>4, <2>1
    <3>2. /\ peer[f] # Reactor!None
          /\ epoll[f].entry \in Reactor!InUse /\ g_events[epoll[f].entry].fd = f
          /\ g_events[epoll[f].entry].events = epoll[f].events
      BY <2>1, <3>1 DEF ReactorInv, Reactor!TableMatchesEpoll
    <3>3. epoll[f].entry \notin gone
      BY <1>5, <3>1, <3>2
    <3>. QED BY <1>1, <1>2, <1>3, <3>1, <3>2, <3>3
  <2>2. ASSUME NEW e \in Reactor!InUse'
        PROVE  /\ epoll'[g_events'[e].fd].entry = e
               /\ g_events'[e].call_back = IF g_events'[e].events = "EPOLLIN" THEN "recvdata" ELSE "senddata"
    <3>1. e \in Reactor!InUse /\ g_events'[e].fd = g_events[e].fd /\ epoll'[g_events[e].fd] = epoll[g_events[e].fd]
      BY <1>1, <1>2, <1>3, <1>4, <1>5
    <3>. QED BY <1>1, <1>2, <3>1 DEF ReactorInv, Reactor!TableMatchesEpoll
  <2>3. ASSUME NEW ev \in events', ev.entry # Reactor!Listener
        PROVE  ev.entry \in Reactor!InUse' /\ g_events'[ev.entry].events = ev.events
    BY <1>1, <1>2, <1>3, <2>3 DEF ReactorInv, Reactor!TableMatchesEpoll
  <2>. QED BY <2>1, <2>2, <2>3 DEF Reactor!TableMatchesEpoll
<1>9. OwnBuffer'
  <2>1. ASSUME NEW e \in Reactor!InUse', g_events'[e].call_back = "senddata"
        PROVE  g_events'[e].buf = peer'[g_events'[e].fd]
    BY <1>1, <1>2, <1>3, <1>4, <1>5, <2>1 DEF ReactorInv, OwnBuffer
  <2>. QED BY <2>1 DEF OwnBuffer
<1>. QED BY <1>6, <1>7, <1>8, <1>9 DEF ReactorInv, Reactor!OwnDataOnly

\* An entry e can be set, and registered for the event ev of the descriptor f,
\* if it is free and so is f or f is its own already, and if no other event of
\* it is left in the array.
LEMMA SettingKeepsReactorInv ==
  ASSUME ReactorInv,
         NEW e \in Reactor!Entries, NEW f \in Reactor!Fds, NEW ev \in Events, NEW buf \in Clients \cup {Reactor!None},
         NEW k \in Clients,
         \/ e \notin Reactor!InUse /\ epoll[f] = Reactor!Unregistered
         \/ e \in Reactor!InUse /\ g_events[e].fd = f,
         g_events' = [g_events EXCEPT ![e] = [fd |-> f, call_back |-> IF ev = "EPOLLIN" THEN "recvdata" ELSE "senddata",
                                              events |-> ev, status |-> 1, buf |-> buf]],
         epoll' = [epoll EXCEPT ![f] = Reactor!Registered(e, ev)],
         peer' = [peer EXCEPT ![f] = k],
         ev = "EPOLLOUT" => buf = k,
         events' \in SUBSET events, \A other \in events' : other.entry # e,
         at' \in {"sweep", "wait", "events"}, at' = "events" <=> events' # {},
         backlog' \in SUBSET Clients, sent' \in SUBSET Clients,
         UNCHANGED <<checkpos, fresh, misled>>
  PROVE  ReactorInv'
<1>. DEFINE new == [fd |-> f, call_back |-> IF ev = "EPOLLIN" THEN "recvdata" ELSE "senddata",
                    events |-> ev, status |-> 1, buf |-> buf]
<1>0. new \in EntryRecords
  BY DEF EntryRecords, Events, Reactor!Fds
<1>1. \A d \in Reactor!InUse : d \in Reactor!Entries /\ g_events[d].fd \in Reactor!Fds /\ epoll[g_events[d].fd].entry = d
  BY DEF ReactorInv, ReactorTyped, Reactor!TypeOK, Reactor!TableMatchesEpoll, Reactor!InUse
<1>2. \A d \in Reactor!Entries : g_events'[d] = IF d = e THEN new ELSE g_events[d]
  BY DEF ReactorInv, ReactorTyped
<1>3. /\ g_events'[e].fd = f /\ g_events'[e].events = ev /\ g_events'[e].status = 1 /\ g_events'[e].buf = buf
      /\ g_events'[e].call_back = IF ev = "EPOLLIN" THEN "recvdata" ELSE "senddata"
  BY <1>2
<1>4. Reactor!InUse' = Reactor!InUse \cup {e}
  BY <1>2, <1>3 DEF Reactor!InUse
<1>5. \A h \in Reactor!Fds : /\ h = f => peer'[h] = k /\ epoll'[h] = [entry |-> e, events |-> ev]
                             /\ h # f => peer'[h] = peer[h] /\ epoll'[h] = epoll[h]
  BY DEF ReactorInv, ReactorTyped, Reactor!Registered
<1>6. peer'[f] = k /\ epoll'[f].entry = e /\ epoll'[f].events = ev
  <2>1. peer'[f] = k /\ epoll'[f] = [entry |-> e, events |-> ev]
    BY <1>5
  <2>. QED BY ONLY <2>1
<1>7. \A d \in Reactor!InUse : d # e => g_events[d].fd # f
  <2>1. ASSUME NEW d \in Reactor!InUse, d # e, g_events[d].fd = f PROVE FALSE
    <3>1. epoll[f].entry = d /\ d \in Reactor!Entries
      BY <1>1, <2>1
    <3>2. Reactor!Unregistered.entry = -1 /\ -1 \notin Reactor!Entries
      BY DEF Reactor!Unregistered, Reactor!Entries
    <3>. QED BY <1>1, <2>1, <3>1, <3>2
  <2>. QED BY <2>1
<1>8. ReactorTyped'
  <2>1. g_events' \in [Reactor!Entries -> EntryRecords]
    BY <1>0 DEF ReactorInv, ReactorTyped
  <2>2. peer' \in [Reactor!Fds -> Clients \cup {Reactor!None}]
    BY DEF ReactorInv, ReactorTyped
  <2>3. epoll' \in [Reactor!Fds -> [entry : Reactor!Entries, events : Events] \cup {Reactor!Unregistered}]
    <3>1. Reactor!Registered(e, ev) \in [entry : Reactor!Entries, events : Events]
      BY DEF Reactor!Registered
    <3>. QED BY <3>1 DEF ReactorInv, ReactorTyped
  <2>. QED BY <2>1, <2>2, <2>3 DEF ReactorInv, ReactorTyped
<1>9. Reactor!TypeOK'
  <2>1. \A d \in Reactor!Entries : g_events'[d].fd \in 0 .. ReactorFds
    BY <1>8 DEF ReactorTyped, EntryRecords
  <2>2. \A d \in Reactor!InUse' : g_events'[d].fd \in Reactor!Fds
    BY <1>1, <1>2, <1>4
  <2>. QED BY <2>1, <2>2 DEF Reactor!TypeOK, ReactorInv
<1>10. Reactor!TableMatchesEpoll'
  <2>1. ASSUME NEW h \in Reactor!Fds, epoll'[h] # Reactor!Unregistered
        PROVE  /\ peer'[h] # Reactor!None
               /\ epoll'[h].entry \in Reactor!InUse' /\ g_events'[epoll'[h].entry].fd = h
               /\ g_events'[epoll'[h].entry].events = epoll'[h].events
    <3>1. CASE h = f
      <4>1. k # Reactor!None
        BY SizesAssumption DEF Reactor!None
      <4>. QED BY <1>3, <1>6, <1>4, <3>1, <4>1
    <3>2. CASE h # f
      <4>1. /\ peer[h] # Reactor!None
            /\ epoll[h].entry \in Reactor!InUse /\ g_events[epoll[h].entry].fd = h
            /\ g_events[epoll[h].entry].events = epoll[h].events
        BY <1>5, <2>1, <3>2 DEF ReactorInv, Reactor!TableMatchesEpoll
      <4>2. epoll[h].entry # e
        BY <3>2, <4>1
      <4>. QED BY <1>1, <1>2, <1>4, <1>5, <3>2, <4>1, <4>2
    <3>. QED BY <3>1, <3>2
  <2>2. ASSUME NEW d \in Reactor!InUse'
        PROVE  /\ epoll'[g_events'[d].fd].entry = d
               /\ g_events'[d].call_back = IF g_events'[d].events = "EPOLLIN" THEN "recvdata" ELSE "senddata"
    <3>1. CASE d = e
      BY <1>3, <1>6, <3>1
    <3>2. CASE d # e
      <4>1. d \in Reactor!InUse /\ g_events'[d] = g_events[d] /\ epoll'[g_events[d].fd] = epoll[g_events[d].fd]
        BY <1>1, <1>2, <1>4, <1>5, <1>7, <3>2
      <4>. QED BY <4>1 DEF ReactorInv, Reactor!TableMatchesEpoll
    <3>. QED BY <3>1, <3>2
  <2>3. ASSUME NEW other \in events', other.entry # Reactor!Listener
        PROVE  other.entry \in Reactor!InUse' /\ g_events'[other.entry].events = other.events
    <3>1. other.entry \in Reactor!InUse /\ g_events[other.entry].events = other.events /\ other.entry # e
      BY <2>3 DEF ReactorInv, Reactor!TableMatchesEpoll
    <3>. QED BY <1>1, <1>2, <1>4, <3>1
  <2>. QED BY <2>1, <2>2, <2>3 DEF Reactor!TableMatchesEpoll
<1>11. OwnBuffer'
  <2>1. ASSUME NEW d \in Reactor!InUse', g_events'[d].call_back = "senddata"
        PROVE  g_events'[d].buf = peer'[g_events'[d].fd]
    <3>1. CASE d = e
      BY <1>3, <1>6, <2>1, <3>1 DEF Events
    <3>2. CASE d # e
      BY <1>1, <1>2, <1>4, <1>5, <1>7, <2>1, <3>2 DEF ReactorInv, OwnBuffer
    <3>. QED BY <3>1, <3>2
  <2>. QED BY <2>1 DEF OwnBuffer
<1>. QED BY <1>8, <1>9, <1>10, <1>11 DEF ReactorInv, Reactor!OwnDataOnly

\* The callback of an event works on an entry in use, for a connection that is
\* open, and the array holds no second event of that entry.
LEMMA CallbackFacts ==
  ASSUME ReactorInv, NEW ev \in events, Reactor!Dispatch(ev), ev.entry # Reactor!Listener
  PROVE  /\ ev.entry \in Reactor!InUse /\ ev.entry \in Reactor!Entries /\ g_events[ev.entry] \in EntryRecords
         /\ g_events[ev.entry].fd \in Reactor!Fds /\ peer[g_events[ev.entry].fd] \in Clients
         /\ events' \in SUBSET events /\ \A other \in events' : other.entry # ev.entry
         /\ at' \in {"sweep", "wait", "events"} /\ (at' = "events" <=> events' # {})
         /\ UNCHANGED <<checkpos, fresh>>
<1>1. /\ ev.entry \in Reactor!InUse /\ ev.entry \in Reactor!Entries /\ g_events[ev.entry] \in EntryRecords
      /\ g_events[ev.entry].fd \in Reactor!Fds /\ epoll[g_events[ev.entry].fd].entry = ev.entry
  BY DEF ReactorInv, ReactorTyped, Reactor!TableMatchesEpoll, Reactor!TypeOK, Reactor!InUse
<1>2. peer[g_events[ev.entry].fd] \in Clients
  <2>1. Reactor!Unregistered.entry = -1 /\ -1 \notin Reactor!Entries
    BY DEF Reactor!Unregistered, Reactor!Entries
  <2>2. epoll[g_events[ev.entry].fd] # Reactor!Unregistered
    BY <1>1, <2>1
  <2>. QED BY <1>1, <2>2 DEF ReactorInv, ReactorTyped, Reactor!TableMatchesEpoll
<1>3. \A other \in events' : other.entry # ev.entry
  <2>1. ASSUME NEW other \in events', other.entry = ev.entry PROVE FALSE
    <3>1. other \in events /\ other # ev
      BY DEF Reactor!Dispatch
    <3>2. other.events = ev.events
      BY <2>1, <3>1 DEF ReactorInv, Reactor!TableMatchesEpoll
    <3>3. \A x \in events : x = [entry |-> x.entry, events |-> x.events]
      BY DEF ReactorInv, ReactorTyped
    <3>. QED BY <2>1, <3>1, <3>2, <3>3, Zenon
  <2>. QED BY <2>1
<1>. QED BY <1>1, <1>2, <1>3 DEF Reactor!Dispatch

LEMMA SweepKeepsReactorInv == ReactorInv /\ Reactor!Sweep => ReactorInv'
<1> SUFFICES ASSUME ReactorInv, Reactor!Sweep PROVE ReactorInv'
  OBVIOUS
<1>. DEFINE idle == {e \in Reactor!Swept : g_events[e].status = 1 /\ e \in stale}
<1>1. Reactor!Swept \in SUBSET Reactor!Entries /\ Reactor!NextCheck \in 0 .. MAX_EVENTS
  BY SizesAssumption DEF ReactorInv, Reactor!TypeOK, Reactor!Swept, Reactor!NextCheck, Reactor!Entries
<1>2. idle \in SUBSET Reactor!InUse
  BY <1>1 DEF Reactor!InUse
<1>3. events = {}
  BY DEF Reactor!Sweep, ReactorInv, Reactor!TypeOK
<1>4. /\ g_events' = [e \in Reactor!Entries |-> IF e \in idle THEN Reactor!Deleted(g_events[e]) ELSE g_events[e]]
      /\ Reactor!CloseAll({g_events[e].fd : e \in idle})
      /\ events' = events /\ at' = "wait" /\ checkpos' = Reactor!NextCheck
      /\ UNCHANGED <<backlog, sent, fresh, misled>>
  BY DEF Reactor!Sweep
<1>. HIDE DEF idle
<1>. QED BY <1>1, <1>2, <1>3, <1>4, ClosingKeepsReactorInv

LEMMA WaitKeepsReactorInv == ReactorInv /\ Reactor!Wait => ReactorInv'
<1> SUFFICES ASSUME ReactorInv, Reactor!Wait PROVE ReactorInv'
  OBVIOUS
<1>1. UNCHANGED <<g_events, checkpos, stale, peer, epoll, backlog, sent, fresh, misled>>
  BY DEF Reactor!Wait, Reactor!kernelVars
<1>2. ASSUME NEW ev \in events'
      PROVE  \/ ev = [entry |-> Reactor!Listener, events |-> "EPOLLIN"]
             \/ \E f \in Reactor!Fds : ev = epoll[f] /\ epoll[f].events \in Events
  BY DEF Reactor!Wait, Reactor!Waiting, Reactor!Registered, Events
<1>3. ASSUME NEW f \in Reactor!Fds, epoll[f].events \in Events
      PROVE  epoll[f] # Reactor!Unregistered
  BY <1>3 DEF Reactor!Unregistered, Reactor!None, Events
<1>4. ReactorTyped'
  <2>1. events' \in SUBSET [entry : Reactor!Entries \cup {Reactor!Listener}, events : Events]
    BY <1>2, <1>3 DEF ReactorInv, ReactorTyped, Events
  <2>. QED BY <1>1, <2>1 DEF ReactorInv, ReactorTyped
<1>5. at' \in {"sweep", "wait", "events"} /\ (at' = "events" <=> events' # {})
  BY DEF Reactor!Wait
<1>6. Reactor!TypeOK'
  BY <1>1, <1>5 DEF ReactorInv, Reactor!TypeOK, Reactor!InUse
<1>7. ASSUME NEW ev \in events', ev.entry # Reactor!Listener
      PROVE  ev.entry \in Reactor!InUse /\ g_events[ev.entry].events = ev.events
  BY <1>2, <1>3, <1>7 DEF ReactorInv, Reactor!TableMatchesEpoll
<1>8. Reactor!TableMatchesEpoll'
  BY <1>1, <1>7 DEF ReactorInv, Reactor!TableMatchesEpoll, Reactor!InUse
<1>9. OwnBuffer' /\ Reactor!OwnDataOnly'
  BY <1>1 DEF ReactorInv, OwnBuffer, Reactor!InUse, Reactor!OwnDataOnly
<1>. QED BY <1>4, <1>6, <1>8, <1>9 DEF ReactorInv

LEMMA acceptconnKeepsReactorInv ==
  ASSUME ReactorInv, NEW ev \in events, Reactor!acceptconn(ev)
  PROVE  ReactorInv'
<1>1. /\ events' \in SUBSET events /\ at' \in {"sweep", "wait", "events"} /\ (at' = "events" <=> events' # {})
      /\ UNCHANGED <<checkpos, fresh, sent, misled>>
  BY DEF Reactor!acceptconn, Reactor!Dispatch
<1>2. CASE UNCHANGED <<g_events, epoll>> /\ peer' = peer /\ backlog' = backlog
  BY <1>1, <1>2 DEF ReactorInv, ReactorTyped, Reactor!TypeOK, Reactor!TableMatchesEpoll, OwnBuffer, Reactor!OwnDataOnly,
                    Reactor!InUse
<1>3. ASSUME NEW cfd, \E f \in Reactor!Fds : peer[f] = Reactor!None,
             cfd = Reactor!Least({f \in Reactor!Fds : peer[f] = Reactor!None})
      PROVE  cfd \in Reactor!Fds /\ peer[cfd] = Reactor!None /\ epoll[cfd] = Reactor!Unregistered
  <2>1. {f \in Reactor!Fds : peer[f] = Reactor!None} \in SUBSET Nat /\ {f \in Reactor!Fds : peer[f] = Reactor!None} # {}
    BY <1>3, SizesAssumption DEF Reactor!Fds
  <2>2. cfd \in {f \in Reactor!Fds : peer[f] = Reactor!None}
    BY <1>3, <2>1, LeastIsMember, Zenon
  <2>. QED BY <2>2 DEF ReactorInv, Reactor!TableMatchesEpoll
<1>4. ASSUME NEW k \in backlog, NEW cfd \in Reactor!Fds, peer[cfd] = Reactor!None, epoll[cfd] = Reactor!Unregistered,
             backlog' = backlog \ {k}, peer' = [peer EXCEPT ![cfd] = k], UNCHANGED <<g_events, stale, epoll>>
      PROVE  ReactorInv'
  <2>1. k \in Clients /\ k # Reactor!None
    BY SizesAssumption DEF ReactorInv, ReactorTyped, Reactor!None
  <2>2. ReactorTyped'
    BY <1>1, <1>4, <2>1 DEF ReactorInv, ReactorTyped
  <2>3. Reactor!TypeOK'
    BY <1>1, <1>4 DEF ReactorInv, Reactor!TypeOK, Reactor!InUse
  <2>4. \A f \in Reactor!Fds : f # cfd => peer'[f] = peer[f]
    BY <1>4 DEF ReactorInv, ReactorTyped
  <2>5. Reactor!TableMatchesEpoll'
    BY <1>1, <1>4, <2>4 DEF ReactorInv, Reactor!TableMatchesEpoll, Reactor!InUse
  <2>6. \A e \in Reactor!InUse : g_events[e].fd \in Reactor!Fds /\ g_events[e].fd # cfd
    <3>1. Reactor!Unregistered.entry = -1 /\ -1 \notin Reactor!Entries
      BY DEF Reactor!Unregistered, Reactor!Entries
    <3>. QED BY <1>4, <3>1 DEF ReactorInv, Reactor!TypeOK, Reactor!TableMatchesEpoll, Reactor!InUse
  <2>7. OwnBuffer' /\ Reactor!OwnDataOnly'
    BY <1>1, <1>4, <2>4, <2>6 DEF ReactorInv, OwnBuffer, Reactor!InUse, Reactor!OwnDataOnly
  <2>. QED BY <2>2, <2>3, <2>5, <2>7 DEF ReactorInv
<1>5. ASSUME NEW k \in backlog, NEW cfd \in Reactor!Fds, epoll[cfd] = Reactor!Unregistered,
             backlog' = backlog \ {k}, peer' = [peer EXCEPT ![cfd] = k],
             Reactor!FreeEntries # {}, NEW e, e = Reactor!Least(Reactor!FreeEntries),
             g_events' = [g_events EXCEPT ![e] = Reactor!Listening(g_events[e], cfd, "recvdata", "EPOLLIN")],
             epoll' = [epoll EXCEPT ![cfd] = Reactor!Registered(e, "EPOLLIN")]
      PROVE  ReactorInv'
  <2>1. Reactor!FreeEntries \in SUBSET Nat
    BY SizesAssumption DEF Reactor!FreeEntries, Reactor!Entries
  <2>2. e \in Reactor!FreeEntries
    BY <1>5, <2>1, LeastIsMember, Zenon
  <2>3. e \in Reactor!Entries /\ e \notin Reactor!InUse /\ g_events[e] \in EntryRecords
    BY <2>2 DEF Reactor!FreeEntries, Reactor!InUse, ReactorInv, ReactorTyped
  <2>4. g_events' = [g_events EXCEPT ![e] = [fd |-> cfd, call_back |-> IF "EPOLLIN" = "EPOLLIN" THEN "recvdata" ELSE "senddata",
                                             events |-> "EPOLLIN", status |-> 1, buf |-> g_events[e].buf]]
    <3>1. Reactor!Listening(g_events[e], cfd, "recvdata", "EPOLLIN") =
            [fd |-> cfd, call_back |-> IF "EPOLLIN" = "EPOLLIN" THEN "recvdata" ELSE "senddata",
             events |-> "EPOLLIN", status |-> 1, buf |-> g_events[e].buf]
      BY <2>3, EntryUpdates
    <3>. QED BY <1>5, <3>1, Zenon
  <2>5. \A other \in events' : other.entry # e
    <3>1. ~(e = Reactor!Listener)
      BY <2>3, SizesAssumption DEF Reactor!Entries, Reactor!Listener
    <3>. QED BY <1>1, <2>3, <3>1 DEF ReactorInv, Reactor!TableMatchesEpoll
  <2>6. k \in Clients /\ "EPOLLIN" \in Events /\ "EPOLLIN" # "EPOLLOUT"
    BY DEF ReactorInv, ReactorTyped, Events
  <2>7. g_events[e].buf \in Clients \cup {Reactor!None}
    BY <2>3 DEF EntryRecords
  <2>8. backlog' \in SUBSET Clients /\ sent' \in SUBSET Clients
    BY <1>1, <1>5 DEF ReactorInv, ReactorTyped
  <2>. QED BY <1>1, <1>5, <2>3, <2>4, <2>5, <2>6, <2>7, <2>8, SettingKeepsReactorInv, ZenonT(60)
<1>. QED BY <1>2, <1>3, <1>4, <1>5 DEF Reactor!acceptconn

\* recvdata and senddata at the end of a connection or after an error.
LEMMA EndKeepsReactorInv ==
  ASSUME ReactorInv, NEW ev \in events, Reactor!ReceiveEnd(ev) \/ Reactor!SendFails(ev)
  PROVE  ReactorInv'
<1>. DEFINE e == ev.entry
<1>1. /\ Reactor!Dispatch(ev) /\ e # Reactor!Listener
      /\ g_events' = [g_events EXCEPT ![e] = Reactor!Deleted(g_events[e])]
      /\ Reactor!CloseAll({g_events[e].fd})
      /\ UNCHANGED <<backlog, sent, misled>>
  BY DEF Reactor!ReceiveEnd, Reactor!SendFails, Reactor!Calls, Reactor!CallsBack
<1>2. /\ e \in Reactor!InUse /\ events' \in SUBSET events /\ \A other \in events' : other.entry # e
      /\ at' \in {"sweep", "wait", "events"} /\ (at' = "events" <=> events' # {})
      /\ UNCHANGED <<checkpos, fresh>>
  BY <1>1, CallbackFacts
<1>. HIDE DEF e
<1>3. g_events' = [d \in Reactor!Entries |-> IF d \in {e} THEN Reactor!Deleted(g_events[d]) ELSE g_events[d]]
  BY <1>1, <1>2 DEF ReactorInv, ReactorTyped
<1>4. {g_events[d].fd : d \in {e}} = {g_events[e].fd}
  OBVIOUS
<1>5. checkpos' \in 0 .. MAX_EVENTS
  BY <1>2 DEF ReactorInv, Reactor!TypeOK
<1>6. {e} \in SUBSET Reactor!InUse /\ \A other \in events' : other.entry \notin {e}
  BY <1>2
<1>7. Reactor!CloseAll({g_events[d].fd : d \in {e}})
  BY <1>1, <1>4
<1>. QED BY <1>1, <1>2, <1>3, <1>5, <1>6, <1>7, ClosingKeepsReactorInv

LEMMA ReceiveDataKeepsReactorInv ==
  ASSUME ReactorInv, NEW ev \in events, Reactor!ReceiveData(ev)
  PROVE  ReactorInv'
<1>. DEFINE e == ev.entry  fd == g_events[ev.entry].fd  k == peer[g_events[ev.entry].fd]
<1>1. /\ Reactor!Dispatch(ev) /\ e # Reactor!Listener
      /\ g_events' = [g_events EXCEPT ![e] = [Reactor!Listening(g_events[e], fd, "senddata", "EPOLLOUT") EXCEPT !.buf = k]]
      /\ epoll' = [epoll EXCEPT ![fd] = Reactor!Registered(e, "EPOLLOUT")]
      /\ sent' = sent \ {k} /\ UNCHANGED <<peer, backlog, misled>>
  BY DEF Reactor!ReceiveData, Reactor!Calls, Reactor!CallsBack
<1>2. /\ e \in Reactor!InUse /\ e \in Reactor!Entries /\ g_events[e] \in EntryRecords
      /\ fd \in Reactor!Fds /\ k \in Clients
      /\ events' \in SUBSET events /\ \A other \in events' : other.entry # e
      /\ at' \in {"sweep", "wait", "events"} /\ (at' = "events" <=> events' # {})
      /\ UNCHANGED <<checkpos, fresh>>
  BY <1>1, CallbackFacts
<1>3. peer' = [peer EXCEPT ![fd] = k]
  BY <1>1, <1>2 DEF ReactorInv, ReactorTyped
<1>4. g_events[e].fd = fd
  OBVIOUS
<1>. HIDE DEF e, fd, k
<1>5. ASSUME NEW x, x = [Reactor!Listening(g_events[e], fd, "senddata", "EPOLLOUT") EXCEPT !.buf = k]
      PROVE  x = [fd |-> fd, call_back |-> IF "EPOLLOUT" = "EPOLLIN" THEN "recvdata" ELSE "senddata",
                  events |-> "EPOLLOUT", status |-> 1, buf |-> k]
  <2>1. x = [[fd |-> fd, call_back |-> "senddata", events |-> "EPOLLOUT", status |-> 1, buf |-> g_events[e].buf] EXCEPT !.buf = k]
    BY <1>2, <1>5, EntryUpdates
  <2>. QED BY <2>1
<1>6. g_events' = [g_events EXCEPT ![e] = [fd |-> fd, call_back |-> IF "EPOLLOUT" = "EPOLLIN" THEN "recvdata" ELSE "senddata",
                                           events |-> "EPOLLOUT", status |-> 1, buf |-> k]]
  BY <1>1, <1>5, Zenon
<1>7. "EPOLLOUT" \in Events /\ k \in Clients \cup {Reactor!None}
  BY <1>2 DEF Events
<1>8. backlog' \in SUBSET Clients /\ sent' \in SUBSET Clients
  BY <1>1 DEF ReactorInv, ReactorTyped
<1>. QED BY <1>1, <1>2, <1>3, <1>4, <1>6, <1>7, <1>8, SettingKeepsReactorInv

\* senddata sends the buffer of the entry, which is the data of that client.
LEMMA SendDataKeepsReactorInv ==
  ASSUME ReactorInv, NEW ev \in events, Reactor!SendData(ev)
  PROVE  ReactorInv'
<1>. DEFINE e == ev.entry  fd == g_events[ev.entry].fd  k == peer[g_events[ev.entry].fd]
<1>1. /\ Reactor!Dispatch(ev) /\ e # Reactor!Listener /\ g_events[e].call_back = "senddata"
      /\ g_events' = [g_events EXCEPT ![e] = Reactor!Listening(g_events[e], fd, "recvdata", "EPOLLIN")]
      /\ epoll' = [epoll EXCEPT ![fd] = Reactor!Registered(e, "EPOLLIN")]
      /\ misled' = IF g_events[e].buf = k THEN misled ELSE misled \cup {k}
      /\ UNCHANGED <<peer, backlog, sent>>
  BY DEF Reactor!SendData, Reactor!Calls, Reactor!CallsBack
<1>2. /\ e \in Reactor!InUse /\ e \in Reactor!Entries /\ g_events[e] \in EntryRecords
      /\ fd \in Reactor!Fds /\ k \in Clients
      /\ events' \in SUBSET events /\ \A other \in events' : other.entry # e
      /\ at' \in {"sweep", "wait", "events"} /\ (at' = "events" <=> events' # {})
      /\ UNCHANGED <<checkpos, fresh>>
  BY <1>1, CallbackFacts
<1>3. peer' = [peer EXCEPT ![fd] = k]
  BY <1>1, <1>2 DEF ReactorInv, ReactorTyped
<1>4. g_events[e].fd = fd /\ g_events[e].buf = k
  BY <1>1, <1>2 DEF ReactorInv, OwnBuffer
<1>. HIDE DEF e, fd, k
<1>5. g_events' = [g_events EXCEPT ![e] = [fd |-> fd, call_back |-> IF "EPOLLIN" = "EPOLLIN" THEN "recvdata" ELSE "senddata",
                                           events |-> "EPOLLIN", status |-> 1, buf |-> k]]
  <2>1. Reactor!Listening(g_events[e], fd, "recvdata", "EPOLLIN") =
          [fd |-> fd, call_back |-> IF "EPOLLIN" = "EPOLLIN" THEN "recvdata" ELSE "senddata",
           events |-> "EPOLLIN", status |-> 1, buf |-> k]
    BY <1>2, <1>4, EntryUpdates
  <2>. QED BY <1>1, <2>1, Zenon
<1>6. "EPOLLIN" \in Events /\ "EPOLLIN" # "EPOLLOUT" /\ k \in Clients \cup {Reactor!None}
      /\ UNCHANGED <<checkpos, fresh, misled>>
  BY <1>1, <1>2, <1>4 DEF Events
<1>7. backlog' \in SUBSET Clients /\ sent' \in SUBSET Clients
  BY <1>1 DEF ReactorInv, ReactorTyped
<1>8. epoll' = [epoll EXCEPT ![fd] = Reactor!Registered(e, "EPOLLIN")]
  BY <1>1
<1>. QED BY <1>2, <1>3, <1>4, <1>5, <1>6, <1>7, <1>8, SettingKeepsReactorInv

\* epoll_wait fails, or a signal ends the process: nothing is left to do, and the
\* table stays as it was.
LEMMA ExitKeepsReactorInv ==
  ASSUME ReactorInv, Reactor!WaitFails \/ \E ev \in events : Reactor!SendKills(ev)
  PROVE  ReactorInv'
<1>1. at' = "exited" /\ events' = {}
      /\ UNCHANGED <<g_events, checkpos, peer, epoll, backlog, sent, fresh, misled>>
  BY DEF Reactor!WaitFails, Reactor!SendKills, Reactor!kernelVars, ReactorInv, Reactor!TypeOK
<1>. QED BY <1>1 DEF ReactorInv, ReactorTyped, Reactor!TypeOK, Reactor!TableMatchesEpoll, OwnBuffer, Reactor!InUse,
                     Reactor!OwnDataOnly

LEMMA NextKeepsReactorInv == ReactorInv /\ Reactor!Next => ReactorInv'
<1> SUFFICES ASSUME ReactorInv, Reactor!Next PROVE ReactorInv'
  OBVIOUS
<1>1. CASE Reactor!main
  BY <1>1, SweepKeepsReactorInv, WaitKeepsReactorInv, acceptconnKeepsReactorInv, EndKeepsReactorInv,
     ReceiveDataKeepsReactorInv, SendDataKeepsReactorInv, ExitKeepsReactorInv
  DEF Reactor!main
<1>2. CASE Reactor!Environment
  <2>1. UNCHANGED <<g_events, checkpos, at, events, peer, epoll, misled>>
    BY <1>2 DEF Reactor!Environment, Reactor!Connect, Reactor!ClientSends, Reactor!TimePasses, Reactor!kernelVars
  <2>2. backlog' \in SUBSET Clients /\ sent' \in SUBSET Clients /\ fresh' \in SUBSET Clients
    BY <1>2 DEF Reactor!Environment, Reactor!Connect, Reactor!ClientSends, Reactor!TimePasses, Reactor!kernelVars,
                ReactorInv, ReactorTyped
  <2>. QED BY <2>1, <2>2 DEF ReactorInv, ReactorTyped, Reactor!TypeOK, Reactor!TableMatchesEpoll, OwnBuffer, Reactor!InUse,
                            Reactor!OwnDataOnly
<1>. QED BY <1>1, <1>2 DEF Reactor!Next

-----------------------------------------------------------------------------
\* 01_simple_reactor: the record g_events holds the state of the server, peer
\* that of the kernel.

Elements == Reactor01!Elements
Fds == Reactor01!Fds
Listener == Reactor01!Listener
None == Reactor01!None

EventRecords ==
  [fd : Fds, events : {None} \cup Events, call_back : {None, "initAccept", "read_data", "send_data"}, buf : Pair \cup {None}]

Registrations == [xev : Elements \cup {-1}, events : {None} \cup Events]

Servers01 ==
  [at : {"wait", "events", "exited"}, overwritten : BOOLEAN, ready : SUBSET [xev : Elements, events : Events],
   myevents : [Elements -> EventRecords], epoll : [Fds -> Registrations]]

Kernels01 ==
  [peer : [Fds -> Pair \cup {"stdin", "listener", None}], fresh : SUBSET Pair, backlog : SUBSET Pair, sent : SUBSET Pair,
   left : SUBSET Pair, reset : SUBSET Pair, misled : {{}}]

\* What the kernel and its epoll set say of each descriptor.
Descriptors01 ==
  /\ peer.peer[0] = "stdin"
  /\ \A f \in Fds \ {0} : peer.peer[f] = "listener" <=> f = Listener
  /\ g_events.epoll[Listener] = [xev |-> EVENT_SIZE, events |-> "EPOLLIN"]
  /\ \A f \in Fds \ {Listener} : f \notin Reactor01!Open => g_events.epoll[f].events = None
  /\ \A f \in Reactor01!Open :
       g_events.epoll[f].xev \in Elements /\ g_events.myevents[g_events.epoll[f].xev].fd = f

\* Element e belongs to an open connection, with the callback for the event it
\* is registered for, and it holds that client's data when it will send.
Serves(e) ==
  LET m == g_events.myevents[e]
  IN  /\ m.fd \in Reactor01!Open
      /\ m.events \in Events
      /\ g_events.epoll[m.fd] = [xev |-> e, events |-> m.events]
      /\ m.call_back = IF m.events = "EPOLLIN" THEN "read_data" ELSE "send_data"
      /\ m.call_back = "send_data" => m.buf = peer.peer[m.fd]

Elements01 ==
  /\ \A e \in Elements :
       \/ g_events.myevents[e] = Reactor01!NoEvent
       \/ /\ e = EVENT_SIZE /\ ~g_events.overwritten
          /\ g_events.myevents[e].fd = Listener /\ g_events.myevents[e].call_back = "initAccept"
       \/ Serves(e)
  /\ ~g_events.overwritten => g_events.myevents[EVENT_SIZE].fd = Listener

Reactor01Inv ==
  /\ g_events \in Servers01 /\ peer \in Kernels01
  /\ Descriptors01
  /\ Elements01

LEMMA InitReactor01Inv == Reactor01!Init => Reactor01Inv
<1> SUFFICES ASSUME Reactor01!Init PROVE Reactor01Inv
  OBVIOUS
<1>. USE SizesAssumption DEF Reactor01!Init, Reactor01!InitNet, Reactor01!Event, Reactor01!NoEvent, Elements, Reactor01!Elements, Fds,
        Reactor01!Fds, Listener, Reactor01!Listener, None, Reactor01!None, Events
<1>1. g_events \in Servers01
  BY DEF Servers01, EventRecords, Registrations
<1>2. peer \in Kernels01
  BY DEF Kernels01
<1>3. Reactor01!Open = {}
  BY DEF Reactor01!Open
<1>4. Descriptors01
  BY <1>3 DEF Descriptors01
<1>5. Elements01
  BY DEF Elements01
<1>. QED BY <1>1, <1>2, <1>4, <1>5 DEF Reactor01Inv

\* The state of the server, field by field.
Server01(at01, overwritten, ready, myevents, epoll01) ==
  [at |-> at01, overwritten |-> overwritten, ready |-> ready, myevents |-> myevents, epoll |-> epoll01]

\* Where the loop stands after an event.
After(at01, ev) == IF at01 = "exited" THEN at01 ELSE IF g_events.ready = {ev} THEN "wait" ELSE "events"

LEMMA DoneIs ==
  ASSUME NEW at01, NEW overwritten, NEW ready, NEW myevents, NEW epoll01, NEW ev
  PROVE  Reactor01!Done(Server01(at01, overwritten, ready, myevents, epoll01), ev) =
           Server01(After(at01, ev), overwritten, ready \ {ev}, myevents, epoll01)
<1>1. ASSUME NEW x, x = Reactor01!Done(Server01(at01, overwritten, ready, myevents, epoll01), ev)
      PROVE  x = Server01(After(at01, ev), overwritten, ready \ {ev}, myevents, epoll01)
  BY <1>1 DEF Reactor01!Done, Server01, After
<1>. QED BY <1>1, Zenon

LEMMA ServerIs ==
  ASSUME g_events \in Servers01
  PROVE  g_events = Server01(g_events.at, g_events.overwritten, g_events.ready, g_events.myevents, g_events.epoll)
BY DEF Servers01, Server01

LEMMA event_setIs ==
  ASSUME g_events \in Servers01, NEW fd, NEW ev, NEW call_back, NEW e, NEW buf
  PROVE  Reactor01!event_set(fd, ev, call_back, e, buf) =
           Server01(g_events.at, g_events.overwritten, g_events.ready,
                    [g_events.myevents EXCEPT ![e] = Reactor01!Event(fd, ev, call_back, buf)],
                    [g_events.epoll EXCEPT ![fd] = [xev |-> e, events |-> ev]])
<1>1. ASSUME NEW x, x = Reactor01!event_set(fd, ev, call_back, e, buf)
      PROVE  x = Server01(g_events.at, g_events.overwritten, g_events.ready,
                          [g_events.myevents EXCEPT ![e] = Reactor01!Event(fd, ev, call_back, buf)],
                          [g_events.epoll EXCEPT ![fd] = [xev |-> e, events |-> ev]])
  BY <1>1 DEF Reactor01!event_set, Server01, Servers01
<1>. QED BY <1>1, Zenon

LEMMA event_delIs ==
  ASSUME g_events \in Servers01, NEW fd, NEW e
  PROVE  Reactor01!event_del(fd, e) =
           Server01(g_events.at, g_events.overwritten, g_events.ready,
                    [g_events.myevents EXCEPT ![e] = Reactor01!NoEvent],
                    [g_events.epoll EXCEPT ![fd] = [xev |-> -1, events |-> None]])
<1>1. ASSUME NEW x, x = Reactor01!event_del(fd, e)
      PROVE  x = Server01(g_events.at, g_events.overwritten, g_events.ready,
                          [g_events.myevents EXCEPT ![e] = Reactor01!NoEvent],
                          [g_events.epoll EXCEPT ![fd] = [xev |-> -1, events |-> None]])
  BY <1>1 DEF Reactor01!event_del, Server01, Servers01, None
<1>. QED BY <1>1, Zenon

\* Facts about elements that every handler needs: a connection has one element,
\* and neither standard input nor the listener is a connection.
LEMMA Elements01Facts ==
  ASSUME Reactor01Inv
  PROVE  /\ 0 \in Fds /\ Listener \in Fds /\ Listener # 0 /\ EVENT_SIZE \in Elements
         /\ Reactor01!Open = {f \in Fds : peer.peer[f] \in Pair}
         /\ 0 \notin Reactor01!Open /\ Listener \notin Reactor01!Open
         /\ \A d, e \in Elements : Serves(d) /\ Serves(e) /\ g_events.myevents[d].fd = g_events.myevents[e].fd => d = e
         /\ \A e \in Elements : Serves(e) => g_events.myevents[e].fd \in Fds \ {0, Listener}
         /\ \A f \in Reactor01!Open : f \in Fds \ {0, Listener} /\ Serves(g_events.epoll[f].xev)
<1>1. 0 \in Fds /\ Listener \in Fds /\ Listener # 0 /\ EVENT_SIZE \in Elements
  BY SizesAssumption DEF Fds, Reactor01!Fds, Listener, Reactor01!Listener, Elements, Reactor01!Elements
<1>2. Reactor01!Open = {f \in Fds : peer.peer[f] \in Pair}
  BY DEF Reactor01!Open, Fds
<1>3. 0 \notin Reactor01!Open /\ Listener \notin Reactor01!Open
  BY <1>1, <1>2, SizesAssumption DEF Reactor01Inv, Descriptors01
<1>4. ASSUME NEW d \in Elements, NEW e \in Elements, Serves(d), Serves(e), g_events.myevents[d].fd = g_events.myevents[e].fd
      PROVE  d = e
  <2>1. [xev |-> d, events |-> g_events.myevents[d].events] = [xev |-> e, events |-> g_events.myevents[e].events]
    BY <1>4 DEF Serves
  <2>. QED BY ONLY <2>1
<1>5. \A e \in Elements : Serves(e) => g_events.myevents[e].fd \in Fds \ {0, Listener}
  BY <1>2, <1>3 DEF Serves
<1>6. ASSUME NEW f \in Reactor01!Open
      PROVE  f \in Fds \ {0, Listener} /\ Serves(g_events.epoll[f].xev)
  <2>1. g_events.epoll[f].xev \in Elements /\ g_events.myevents[g_events.epoll[f].xev].fd = f
    BY DEF Reactor01Inv, Descriptors01
  <2>2. f # 0 /\ f # Listener
    BY <1>3
  <2>3. Reactor01!NoEvent.fd = 0
    BY DEF Reactor01!NoEvent
  <2>. QED BY <1>2, <2>1, <2>2, <2>3 DEF Reactor01Inv, Elements01
<1>. QED BY <1>1, <1>2, <1>3, <1>4, <1>5, <1>6

\* An element e can be set for the event ev of the descriptor f if it serves
\* nobody and f is closed, or if it serves f already.
LEMMA SettingKeepsReactor01Inv ==
  ASSUME Reactor01Inv,
         NEW e \in Elements, NEW f \in Fds \ {0, Listener}, NEW ev \in Events, NEW k \in Pair, NEW buf \in Pair \cup {None},
         \/ ~Serves(e) /\ peer.peer[f] = None
         \/ Serves(e) /\ g_events.myevents[e].fd = f,
         ev = "EPOLLOUT" => buf = k,
         NEW call_back, call_back = IF ev = "EPOLLIN" THEN "read_data" ELSE "send_data",
         NEW over \in BOOLEAN, over <=> g_events.overwritten \/ e = EVENT_SIZE,
         NEW at01 \in {"wait", "events", "exited"}, NEW ready \in SUBSET g_events.ready,
         g_events' = Server01(at01, over, ready, [g_events.myevents EXCEPT ![e] = Reactor01!Event(f, ev, call_back, buf)],
                              [g_events.epoll EXCEPT ![f] = [xev |-> e, events |-> ev]]),
         peer' \in Kernels01, peer'.peer = [peer.peer EXCEPT ![f] = k]
  PROVE  Reactor01Inv'
<1>. DEFINE new == Reactor01!Event(f, ev, call_back, buf)
            reg == [xev |-> e, events |-> ev]
<1>1. /\ g_events'.at = at01 /\ g_events'.overwritten = over /\ g_events'.ready = ready
      /\ g_events'.myevents = [g_events.myevents EXCEPT ![e] = new] /\ g_events'.epoll = [g_events.epoll EXCEPT ![f] = reg]
  BY DEF Server01
<1>2. /\ new.fd = f /\ new.events = ev /\ new.buf = buf
      /\ new.call_back = (IF ev = "EPOLLIN" THEN "read_data" ELSE "send_data") /\ new \in EventRecords
  BY DEF Reactor01!Event, EventRecords, Events
<1>3. reg \in Registrations /\ reg.xev = e /\ reg.events = ev
  BY DEF Registrations
<1>. HIDE DEF new, reg
<1>4. g_events.myevents \in [Elements -> EventRecords] /\ g_events.epoll \in [Fds -> Registrations]
      /\ peer.peer \in [Fds -> Pair \cup {"stdin", "listener", None}] /\ g_events.ready \in SUBSET [xev : Elements, events : Events]
      /\ g_events.overwritten \in BOOLEAN
  BY DEF Reactor01Inv, Servers01, Kernels01
<1>5. /\ \A d \in Elements : g_events'.myevents[d] = IF d = e THEN new ELSE g_events.myevents[d]
      /\ \A h \in Fds : g_events'.epoll[h] = IF h = f THEN reg ELSE g_events.epoll[h]
      /\ \A h \in Fds : peer'.peer[h] = IF h = f THEN k ELSE peer.peer[h]
  BY <1>1, <1>4
<1>6. g_events' \in Servers01
  <2>1. [g_events.myevents EXCEPT ![e] = new] \in [Elements -> EventRecords]
    BY <1>2, <1>4
  <2>2. [g_events.epoll EXCEPT ![f] = reg] \in [Fds -> Registrations]
    BY <1>3, <1>4
  <2>3. ready \in SUBSET [xev : Elements, events : Events]
    BY <1>4
  <2>. QED BY <2>1, <2>2, <2>3 DEF Server01, Servers01, new, reg
<1>7. Reactor01!Open' = Reactor01!Open \cup {f}
  BY <1>5 DEF Reactor01!Open, Fds
<1>8. Descriptors01'
  <2>1. peer'.peer[0] = "stdin"
    BY <1>5, Elements01Facts DEF Reactor01Inv, Descriptors01
  <2>2. \A h \in Fds \ {0} : peer'.peer[h] = "listener" <=> h = Listener
    BY <1>5, SizesAssumption DEF Reactor01Inv, Descriptors01
  <2>3. g_events'.epoll[Listener] = [xev |-> EVENT_SIZE, events |-> "EPOLLIN"]
    BY <1>5, Elements01Facts DEF Reactor01Inv, Descriptors01
  <2>4. \A h \in Fds \ {Listener} : h \notin Reactor01!Open' => g_events'.epoll[h].events = None
    BY <1>5, <1>7 DEF Reactor01Inv, Descriptors01
  <2>5. ASSUME NEW h \in Reactor01!Open'
        PROVE  g_events'.epoll[h].xev \in Elements /\ g_events'.myevents[g_events'.epoll[h].xev].fd = h
    <3>1. CASE h = f
      BY <1>2, <1>3, <1>5, <3>1
    <3>2. CASE h # f
      <4>1. h \in Reactor01!Open /\ h \in Fds
        BY <1>7, <3>2, Elements01Facts
      <4>2. g_events.epoll[h].xev \in Elements /\ g_events.myevents[g_events.epoll[h].xev].fd = h
            /\ Serves(g_events.epoll[h].xev)
        BY <4>1, Elements01Facts DEF Reactor01Inv, Descriptors01
      <4>3. g_events.epoll[h].xev # e
        BY <3>2, <4>2
      <4>. QED BY <1>5, <3>2, <4>1, <4>2, <4>3
    <3>. QED BY <3>1, <3>2
  <2>. QED BY <2>1, <2>2, <2>3, <2>4, <2>5 DEF Descriptors01
<1>9. Elements01'
  <2>1. ASSUME NEW d \in Elements
        PROVE  \/ g_events'.myevents[d] = Reactor01!NoEvent
               \/ /\ d = EVENT_SIZE /\ ~g_events'.overwritten
                  /\ g_events'.myevents[d].fd = Listener /\ g_events'.myevents[d].call_back = "initAccept"
               \/ Serves(d)'
    <3>1. CASE d = e
      <4>1. g_events'.myevents[d] = new /\ f \in Reactor01!Open' /\ peer'.peer[f] = k /\ g_events'.epoll[f] = [xev |-> e, events |-> ev]
        BY <1>5, <1>7, <3>1 DEF reg
      <4>2. Serves(d)'
        BY <1>2, <3>1, <4>1 DEF Serves, Events
      <4>. QED BY <4>2
    <3>2. CASE d # e /\ Serves(d)
      <4>1. g_events.myevents[d].fd # f
        <5>1. None \notin Pair
          BY SizesAssumption DEF None, Reactor01!None
        <5>2. peer.peer[g_events.myevents[d].fd] \in Pair
          BY <3>2, Elements01Facts DEF Serves
        <5>3. Serves(e) => g_events.myevents[d].fd # g_events.myevents[e].fd
          BY <3>2, Elements01Facts
        <5>. QED BY <5>1, <5>2, <5>3
      <4>2. g_events.myevents[d].fd \in Fds
        BY <3>2, Elements01Facts
      <4>3. Serves(d)'
        BY <1>5, <1>7, <3>2, <4>1, <4>2 DEF Serves
      <4>. QED BY <4>3
    <3>3. CASE d # e /\ ~Serves(d)
      BY <1>1, <1>5, <3>3 DEF Reactor01Inv, Elements01
    <3>. QED BY <3>1, <3>2, <3>3
  <2>2. ~g_events'.overwritten => g_events'.myevents[EVENT_SIZE].fd = Listener
    BY <1>1, <1>5, Elements01Facts DEF Reactor01Inv, Elements01
  <2>. QED BY <2>1, <2>2 DEF Elements01
<1>. QED BY <1>6, <1>8, <1>9 DEF Reactor01Inv

\* An element and its connection can be given up.
LEMMA ClosingKeepsReactor01Inv ==
  ASSUME Reactor01Inv,
         NEW e \in Elements, Serves(e), NEW f, f = g_events.myevents[e].fd,
         NEW at01 \in {"wait", "events", "exited"}, NEW ready \in SUBSET g_events.ready,
         g_events' = Server01(at01, g_events.overwritten, ready, [g_events.myevents EXCEPT ![e] = Reactor01!NoEvent],
                              [g_events.epoll EXCEPT ![f] = [xev |-> -1, events |-> None]]),
         peer' \in Kernels01, peer'.peer = [peer.peer EXCEPT ![f] = None]
  PROVE  Reactor01Inv'
<1>. DEFINE reg == [xev |-> -1, events |-> None]
<1>1. /\ g_events'.at = at01 /\ g_events'.overwritten = g_events.overwritten /\ g_events'.ready = ready
      /\ g_events'.myevents = [g_events.myevents EXCEPT ![e] = Reactor01!NoEvent]
      /\ g_events'.epoll = [g_events.epoll EXCEPT ![f] = reg]
  BY DEF Server01
<1>2. reg \in Registrations /\ reg.events = None
  BY DEF Registrations
<1>3. Reactor01!NoEvent \in EventRecords /\ Reactor01!NoEvent.fd = 0
  BY Elements01Facts DEF Reactor01!NoEvent, EventRecords, None
<1>. HIDE DEF reg
<1>4. g_events.myevents \in [Elements -> EventRecords] /\ g_events.epoll \in [Fds -> Registrations]
      /\ peer.peer \in [Fds -> Pair \cup {"stdin", "listener", None}] /\ g_events.ready \in SUBSET [xev : Elements, events : Events]
      /\ g_events.overwritten \in BOOLEAN
  BY DEF Reactor01Inv, Servers01, Kernels01
<1>5. f \in Fds \ {0, Listener} /\ f \in Reactor01!Open
  BY Elements01Facts DEF Serves
<1>6. /\ \A d \in Elements : g_events'.myevents[d] = IF d = e THEN Reactor01!NoEvent ELSE g_events.myevents[d]
      /\ \A h \in Fds : g_events'.epoll[h] = IF h = f THEN reg ELSE g_events.epoll[h]
      /\ \A h \in Fds : peer'.peer[h] = IF h = f THEN None ELSE peer.peer[h]
  BY <1>1, <1>4
<1>7. g_events' \in Servers01
  <2>1. [g_events.myevents EXCEPT ![e] = Reactor01!NoEvent] \in [Elements -> EventRecords]
    BY <1>3, <1>4
  <2>2. [g_events.epoll EXCEPT ![f] = reg] \in [Fds -> Registrations]
    BY <1>2, <1>4
  <2>3. ready \in SUBSET [xev : Elements, events : Events]
    BY <1>4
  <2>. QED BY <1>4, <2>1, <2>2, <2>3 DEF Server01, Servers01, reg
<1>8. None \notin Pair /\ None # "listener" /\ None # "stdin"
  BY SizesAssumption DEF None, Reactor01!None
<1>9. Reactor01!Open' = Reactor01!Open \ {f}
  BY <1>6, <1>8 DEF Reactor01!Open, Fds
<1>10. Descriptors01'
  <2>1. peer'.peer[0] = "stdin" /\ \A h \in Fds \ {0} : peer'.peer[h] = "listener" <=> h = Listener
    BY <1>5, <1>6, <1>8, Elements01Facts DEF Reactor01Inv, Descriptors01
  <2>2. g_events'.epoll[Listener] = [xev |-> EVENT_SIZE, events |-> "EPOLLIN"]
    BY <1>5, <1>6, Elements01Facts DEF Reactor01Inv, Descriptors01
  <2>3. \A h \in Fds \ {Listener} : h \notin Reactor01!Open' => g_events'.epoll[h].events = None
    BY <1>2, <1>6, <1>9 DEF Reactor01Inv, Descriptors01
  <2>4. ASSUME NEW h \in Reactor01!Open'
        PROVE  g_events'.epoll[h].xev \in Elements /\ g_events'.myevents[g_events'.epoll[h].xev].fd = h
    <3>1. h \in Reactor01!Open /\ h \in Fds /\ h # f
      BY <1>9, Elements01Facts
    <3>2. g_events.epoll[h].xev \in Elements /\ g_events.myevents[g_events.epoll[h].xev].fd = h
      BY <3>1 DEF Reactor01Inv, Descriptors01
    <3>3. g_events.epoll[h].xev # e
      BY <3>1, <3>2
    <3>. QED BY <1>6, <3>1, <3>2, <3>3
  <2>. QED BY <2>1, <2>2, <2>3, <2>4 DEF Descriptors01
<1>11. Elements01'
  <2>1. ASSUME NEW d \in Elements
        PROVE  \/ g_events'.myevents[d] = Reactor01!NoEvent
               \/ /\ d = EVENT_SIZE /\ ~g_events'.overwritten
                  /\ g_events'.myevents[d].fd = Listener /\ g_events'.myevents[d].call_back = "initAccept"
               \/ Serves(d)'
    <3>1. CASE d = e
      BY <1>6, <3>1
    <3>2. CASE d # e /\ Serves(d)
      <4>1. g_events.myevents[d].fd # f /\ g_events.myevents[d].fd \in Fds
        BY <3>2, Elements01Facts
      <4>2. g_events'.myevents[d] = g_events.myevents[d]
        BY <1>6, <3>2
      <4>3. g_events'.epoll[g_events.myevents[d].fd] = g_events.epoll[g_events.myevents[d].fd]
        BY <1>6, <4>1
      <4>4. peer'.peer[g_events.myevents[d].fd] = peer.peer[g_events.myevents[d].fd]
        BY <1>6, <4>1
      <4>5. g_events.myevents[d].fd \in Reactor01!Open'
        BY <1>9, <3>2, <4>1 DEF Serves
      <4>6. Serves(d)'
        BY <3>2, <4>2, <4>3, <4>5, <4>4 DEF Serves
      <4>. QED BY <4>6
    <3>3. CASE d # e /\ ~Serves(d)
      BY <1>1, <1>6, <3>3 DEF Reactor01Inv, Elements01
    <3>. QED BY <3>1, <3>2, <3>3
  <2>2. ~g_events'.overwritten => g_events'.myevents[EVENT_SIZE].fd = Listener
    <3>1. ~g_events.overwritten => e # EVENT_SIZE
      BY <1>5 DEF Reactor01Inv, Elements01
    <3>. QED BY <1>1, <1>6, <3>1, Elements01Facts DEF Reactor01Inv, Elements01
  <2>. QED BY <2>1, <2>2 DEF Elements01
<1>. QED BY <1>7, <1>10, <1>11 DEF Reactor01Inv

\* What only takes an event from the array, or changes what clients have done,
\* keeps the invariant.
LEMMA OthersKeepReactor01Inv ==
  ASSUME Reactor01Inv,
         NEW at01 \in {"wait", "events", "exited"}, NEW ready \in SUBSET [xev : Elements, events : Events],
         g_events' = Server01(at01, g_events.overwritten, ready, g_events.myevents, g_events.epoll),
         peer' \in Kernels01, peer'.peer = peer.peer
  PROVE  Reactor01Inv'
<1>1. /\ g_events'.overwritten = g_events.overwritten /\ g_events'.myevents = g_events.myevents
      /\ g_events'.epoll = g_events.epoll
  BY DEF Server01
<1>2. g_events' \in Servers01
  BY DEF Server01, Servers01, Reactor01Inv
<1>3. Reactor01!Open' = Reactor01!Open
  BY DEF Reactor01!Open
<1>4. Descriptors01'
  BY <1>1, <1>3 DEF Reactor01Inv, Descriptors01
<1>5. \A e \in Elements : Serves(e) => Serves(e)'
  BY <1>1, <1>3 DEF Serves
<1>6. Elements01'
  BY <1>1, <1>5 DEF Reactor01Inv, Elements01
<1>. QED BY <1>2, <1>4, <1>6 DEF Reactor01Inv

\* What the calls of the server do to the kernel's record.
LEMMA KernelUpdates ==
  ASSUME peer \in Kernels01, NEW x
  PROVE  /\ \A k \in peer.backlog : x = Reactor01!Accepted(k) /\ Reactor01!NewFd \in Fds =>
              x \in Kernels01 /\ x.peer = [peer.peer EXCEPT ![Reactor01!NewFd] = k]
         /\ \A f \in Fds : x = Reactor01!Close(f) => x \in Kernels01 /\ x.peer = [peer.peer EXCEPT ![f] = None]
         /\ \A f \in Fds : x = Reactor01!ReadFrom(f) => x \in Kernels01 /\ x.peer = peer.peer
<1>1. ASSUME NEW k \in peer.backlog, x = Reactor01!Accepted(k), Reactor01!NewFd \in Fds
      PROVE  x \in Kernels01 /\ x.peer = [peer.peer EXCEPT ![Reactor01!NewFd] = k]
  <2>1. x = [peer |-> [peer.peer EXCEPT ![Reactor01!NewFd] = k], fresh |-> peer.fresh, backlog |-> peer.backlog \ {k},
             sent |-> peer.sent, left |-> peer.left, reset |-> peer.reset, misled |-> peer.misled]
    BY <1>1 DEF Kernels01, Reactor01!Accepted
  <2>. QED BY <1>1, <2>1 DEF Kernels01
<1>2. ASSUME NEW f \in Fds, x = Reactor01!Close(f)
      PROVE  x \in Kernels01 /\ x.peer = [peer.peer EXCEPT ![f] = None]
  <2>1. x = [peer |-> [peer.peer EXCEPT ![f] = None], fresh |-> peer.fresh, backlog |-> peer.backlog,
             sent |-> peer.sent, left |-> peer.left, reset |-> peer.reset, misled |-> peer.misled]
    BY <1>2 DEF Kernels01, Reactor01!Close, None
  <2>. QED BY <1>2, <2>1 DEF Kernels01
<1>3. ASSUME NEW f \in Fds, x = Reactor01!ReadFrom(f)
      PROVE  x \in Kernels01 /\ x.peer = peer.peer
  <2>1. \E sent01 \in SUBSET Pair, reset01 \in SUBSET Pair :
          x = [peer |-> peer.peer, fresh |-> peer.fresh, backlog |-> peer.backlog,
               sent |-> sent01, left |-> peer.left, reset |-> reset01, misled |-> peer.misled]
    <3>1. CASE peer.peer[f] \in peer.sent
      <4>1. x = [peer |-> peer.peer, fresh |-> peer.fresh, backlog |-> peer.backlog, sent |-> peer.sent \ {peer.peer[f]},
                 left |-> peer.left, reset |-> peer.reset, misled |-> peer.misled]
        BY <1>3, <3>1 DEF Kernels01, Reactor01!ReadFrom
      <4>2. peer.sent \ {peer.peer[f]} \in SUBSET Pair /\ peer.reset \in SUBSET Pair
        BY DEF Kernels01
      <4>. QED BY <4>1, <4>2
    <3>2. CASE peer.peer[f] \notin peer.sent
      <4>1. x = [peer |-> peer.peer, fresh |-> peer.fresh, backlog |-> peer.backlog, sent |-> peer.sent,
                 left |-> peer.left, reset |-> peer.reset \ {peer.peer[f]}, misled |-> peer.misled]
        BY <1>3, <3>2 DEF Kernels01, Reactor01!ReadFrom
      <4>2. peer.sent \in SUBSET Pair /\ peer.reset \ {peer.peer[f]} \in SUBSET Pair
        BY DEF Kernels01
      <4>. QED BY <4>1, <4>2
    <3>. QED BY <3>1, <3>2
  <2>. QED BY <2>1 DEF Kernels01
<1>. QED BY <1>1, <1>2, <1>3

LEMMA NetworkKeepsReactor01Inv ==
  ASSUME Reactor01Inv, Reactor01!Network
  PROVE  Reactor01Inv'
<1>. USE DEF Kernels01
<1>1. peer' \in Kernels01 /\ peer'.peer = peer.peer
  <2>0. peer \in Kernels01
    BY DEF Reactor01Inv
  <2>1. PICK k \in Pair : Reactor01!ClientConnects(k) \/ Reactor01!ClientSends(k) \/ Reactor01!ClientLeaves(k)
    BY DEF Reactor01!Network
  <2>2. CASE Reactor01!ClientConnects(k)
    <3>1. peer' = [peer |-> peer.peer, fresh |-> peer.fresh \ {k}, backlog |-> peer.backlog \cup {k}, sent |-> peer.sent,
                   left |-> peer.left, reset |-> peer.reset, misled |-> peer.misled]
      BY <2>0, <2>2 DEF Reactor01!ClientConnects
    <3>. QED BY <2>0, <3>1
  <2>3. CASE Reactor01!ClientSends(k)
    <3>1. peer' = [peer |-> peer.peer, fresh |-> peer.fresh, backlog |-> peer.backlog, sent |-> peer.sent \cup {k},
                   left |-> peer.left, reset |-> peer.reset, misled |-> peer.misled]
      BY <2>0, <2>3 DEF Reactor01!ClientSends
    <3>. QED BY <2>0, <3>1
  <2>4. CASE Reactor01!ClientLeaves(k)
    <3>1. PICK r \in SUBSET {k} :
            peer' = [peer |-> peer.peer, fresh |-> peer.fresh, backlog |-> peer.backlog, sent |-> peer.sent,
                     left |-> peer.left \cup {k}, reset |-> peer.reset \cup r, misled |-> peer.misled]
      BY <2>0, <2>4 DEF Reactor01!ClientLeaves
    <3>. QED BY <2>0, <3>1
  <2>. QED BY <2>1, <2>2, <2>3, <2>4
<1>2. g_events' = Server01(g_events.at, g_events.overwritten, g_events.ready, g_events.myevents, g_events.epoll)
  BY ServerIs DEF Reactor01!Network, Reactor01Inv
<1>3. g_events.at \in {"wait", "events", "exited"} /\ g_events.ready \in SUBSET [xev : Elements, events : Events]
  BY DEF Reactor01Inv, Servers01
<1>. QED BY <1>1, <1>2, <1>3, OthersKeepReactor01Inv

LEMMA WaitKeepsReactor01Inv ==
  ASSUME Reactor01Inv, Reactor01!Wait
  PROVE  Reactor01Inv'
<1>1. PICK ready \in SUBSET Fds :
        /\ \A f \in ready : g_events.epoll[f].events \in Events
        /\ g_events' = [g_events EXCEPT !.ready = {g_events.epoll[f] : f \in ready}, !.at = "events"]
  BY DEF Reactor01!Wait, Reactor01!Waiting, Fds, Events
<1>2. g_events' = Server01("events", g_events.overwritten, {g_events.epoll[f] : f \in ready}, g_events.myevents, g_events.epoll)
  BY <1>1 DEF Server01, Reactor01Inv, Servers01
<1>3. ASSUME NEW f \in ready PROVE g_events.epoll[f] \in [xev : Elements, events : Events]
  <2>1. g_events.epoll[f] \in Registrations
    BY DEF Reactor01Inv, Servers01
  <2>2. g_events.epoll[f].xev \in Elements
    <3>1. CASE f = Listener
      BY <3>1, Elements01Facts DEF Reactor01Inv, Descriptors01
    <3>2. CASE f # Listener
      <4>1. None \notin Events
        BY DEF None, Reactor01!None, Events
      <4>2. f \in Reactor01!Open
        BY <1>1, <3>2, <4>1 DEF Reactor01Inv, Descriptors01
      <4>. QED BY <4>2 DEF Reactor01Inv, Descriptors01
    <3>. QED BY <3>1, <3>2
  <2>. QED BY <1>1, <2>1, <2>2 DEF Registrations
<1>4. {g_events.epoll[f] : f \in ready} \in SUBSET [xev : Elements, events : Events]
  BY <1>3
<1>5. peer' = peer /\ peer' \in Kernels01
  BY DEF Reactor01!Wait, Reactor01Inv
<1>. QED BY <1>2, <1>4, <1>5, OthersKeepReactor01Inv

LEMMA initAcceptKeepsReactor01Inv ==
  ASSUME Reactor01Inv, NEW ev \in g_events.ready, Reactor01!initAccept(ev)
  PROVE  Reactor01Inv'
<1>. DEFINE i == Reactor01!Min(Reactor01!FreeElements \cup {EVENT_SIZE})
            f == Reactor01!NewFd
            free == {h \in Reactor01!Fds : Reactor01!Closed(h)}
            buf == g_events.myevents[i].buf
            over == (i = EVENT_SIZE)
<1>1. PICK k \in peer.backlog : free # {} /\ peer' = Reactor01!Accepted(k)
  BY DEF Reactor01!initAccept, Reactor01!Accepting
<1>2. f \in Fds \ {0, Listener} /\ peer.peer[f] = None
  <2>1. free \in SUBSET Nat
    BY DEF Reactor01!Fds
  <2>2. f \in free
    BY <1>1, <2>1, LeastIsMember, Zenon DEF Reactor01!NewFd
  <2>3. f \in Fds /\ peer.peer[f] = None
    BY <2>2 DEF Fds, Reactor01!Closed, None
  <2>. QED BY <2>3, Elements01Facts DEF Reactor01Inv, Descriptors01, None, Reactor01!None
<1>3. i \in Reactor01!FreeElements \cup {EVENT_SIZE}
  <2>1. Reactor01!FreeElements \cup {EVENT_SIZE} \in SUBSET Nat
    BY SizesAssumption DEF Reactor01!FreeElements
  <2>. QED BY <2>1, LeastIsMember, Zenon
<1>4. i \in Elements
  BY <1>3, SizesAssumption DEF Reactor01!FreeElements, Elements, Reactor01!Elements
<1>5. ~g_events.overwritten
  <2>1. ev.xev \in Elements /\ g_events.myevents[ev.xev].call_back = "initAccept"
    BY DEF Reactor01Inv, Servers01, Reactor01!initAccept, Reactor01!Calls
  <2>2. Reactor01!NoEvent.call_back # "initAccept"
    BY DEF Reactor01!NoEvent, Reactor01!None
  <2>. QED BY <2>1, <2>2 DEF Reactor01Inv, Elements01, Serves
<1>6. ~Serves(i)
  <2>1. g_events.myevents[i].fd = 0 \/ g_events.myevents[i].fd = Listener
    BY <1>3, <1>5 DEF Reactor01!FreeElements, Reactor01Inv, Elements01
  <2>. QED BY <2>1, Elements01Facts DEF Serves
<1>7. buf \in Pair \cup {None}
  BY <1>4 DEF Reactor01Inv, Servers01, EventRecords
<1>8. g_events' = Reactor01!Done([Reactor01!event_set(f, "EPOLLIN", "read_data", i, buf) EXCEPT !.overwritten = over], ev)
  BY DEF Reactor01!initAccept
<1>9. over \in BOOLEAN /\ (over <=> g_events.overwritten \/ i = EVENT_SIZE)
  BY <1>5
<1>. HIDE DEF i, f, buf, free, over
<1>10. g_events \in Servers01 /\ peer \in Kernels01
  BY DEF Reactor01Inv
<1>11. g_events' = Server01(After(g_events.at, ev), over, g_events.ready \ {ev},
                            [g_events.myevents EXCEPT ![i] = Reactor01!Event(f, "EPOLLIN", "read_data", buf)],
                            [g_events.epoll EXCEPT ![f] = [xev |-> i, events |-> "EPOLLIN"]])
  <2>. DEFINE m == [g_events.myevents EXCEPT ![i] = Reactor01!Event(f, "EPOLLIN", "read_data", buf)]
              p == [g_events.epoll EXCEPT ![f] = [xev |-> i, events |-> "EPOLLIN"]]
  <2>1. Reactor01!event_set(f, "EPOLLIN", "read_data", i, buf) = Server01(g_events.at, g_events.overwritten, g_events.ready, m, p)
    BY <1>10, event_setIs
  <2>. HIDE DEF m, p
  <2>2. ASSUME NEW x, x = [Server01(g_events.at, g_events.overwritten, g_events.ready, m, p) EXCEPT !.overwritten = over]
        PROVE  x = Server01(g_events.at, over, g_events.ready, m, p)
    BY <2>2 DEF Server01
  <2>3. g_events' = Reactor01!Done(Server01(g_events.at, over, g_events.ready, m, p), ev)
    BY <1>8, <2>1, <2>2, Zenon
  <2>4. Reactor01!Done(Server01(g_events.at, over, g_events.ready, m, p), ev) =
          Server01(After(g_events.at, ev), over, g_events.ready \ {ev}, m, p)
    BY DoneIs
  <2>. QED BY <2>3, <2>4, Zenon DEF m, p
<1>12. After(g_events.at, ev) \in {"wait", "events", "exited"} /\ g_events.ready \ {ev} \in SUBSET g_events.ready
  BY DEF After
<1>13. peer' \in Kernels01 /\ peer'.peer = [peer.peer EXCEPT ![f] = k]
  BY <1>1, <1>2, <1>10, KernelUpdates DEF f
<1>14. k \in Pair /\ "EPOLLIN" \in Events /\ "EPOLLIN" # "EPOLLOUT"
  BY <1>10 DEF Kernels01, Events
<1>15. "read_data" = (IF "EPOLLIN" = "EPOLLIN" THEN "read_data" ELSE "send_data")
  OBVIOUS
<1>. QED BY <1>2, <1>4, <1>6, <1>7, <1>11, <1>12, <1>13, <1>14, <1>9, <1>15, SettingKeepsReactor01Inv, ZenonT(60)

\* The callback of an element that is not the listener's serves a connection.
LEMMA Callback01Facts ==
  ASSUME Reactor01Inv, NEW ev \in g_events.ready, NEW call_back \in {"read_data", "send_data"}, Reactor01!Calls(ev, call_back)
  PROVE  LET m == g_events.myevents[ev.xev]
         IN  /\ ev.xev \in Elements /\ Serves(ev.xev)
             /\ m.fd \in Fds \ {0, Listener} /\ peer.peer[m.fd] \in Pair
             /\ call_back = "send_data" => m.buf = peer.peer[m.fd]
             /\ ev.xev = EVENT_SIZE => g_events.overwritten
             /\ g_events \in Servers01 /\ peer \in Kernels01
             /\ g_events.ready \ {ev} \in SUBSET g_events.ready
             /\ After(g_events.at, ev) \in {"wait", "events", "exited"}
<1>1. ev.xev \in Elements /\ g_events.myevents[ev.xev].call_back = call_back
  BY DEF Reactor01Inv, Servers01, Reactor01!Calls
<1>2. Serves(ev.xev)
  <2>1. Reactor01!NoEvent.call_back \notin {"read_data", "send_data"}
    BY DEF Reactor01!NoEvent, Reactor01!None
  <2>. QED BY <1>1, <2>1 DEF Reactor01Inv, Elements01
<1>3. g_events.myevents[ev.xev].fd \in Fds \ {0, Listener} /\ peer.peer[g_events.myevents[ev.xev].fd] \in Pair
  BY <1>1, <1>2, Elements01Facts DEF Serves
<1>4. ev.xev = EVENT_SIZE => g_events.overwritten
  BY <1>3 DEF Reactor01Inv, Elements01
<1>5. call_back = "send_data" => g_events.myevents[ev.xev].buf = peer.peer[g_events.myevents[ev.xev].fd]
  BY <1>1, <1>2 DEF Serves
<1>6. After(g_events.at, ev) \in {"wait", "events", "exited"}
  BY DEF After
<1>. QED BY <1>1, <1>2, <1>3, <1>4, <1>5, <1>6 DEF Reactor01Inv

LEMMA read_dataKeepsReactor01Inv ==
  ASSUME Reactor01Inv, NEW ev \in g_events.ready, Reactor01!read_data(ev)
  PROVE  Reactor01Inv'
<1>. DEFINE e == ev.xev  f == g_events.myevents[e].fd  k == peer.peer[f]
<1>1. /\ e \in Elements /\ Serves(e) /\ f \in Fds \ {0, Listener} /\ k \in Pair
      /\ e = EVENT_SIZE => g_events.overwritten
      /\ g_events \in Servers01 /\ peer \in Kernels01
      /\ g_events.ready \ {ev} \in SUBSET g_events.ready
      /\ After(g_events.at, ev) \in {"wait", "events", "exited"}
  BY Callback01Facts DEF Reactor01!read_data
<1>2. \/ peer' = Reactor01!ReadFrom(f)
         /\ g_events' = Reactor01!Done(Reactor01!event_set(f, "EPOLLOUT", "send_data", e, k), ev)
      \/ peer' = Reactor01!Close(f) /\ g_events' = Reactor01!Done(Reactor01!event_del(f, e), ev)
      \/ peer' = Reactor01!ReadFrom(f) /\ g_events' = Reactor01!Done(g_events, ev)
  BY DEF Reactor01!read_data
<1>3. g_events.myevents[e].fd = f
  OBVIOUS
<1>. HIDE DEF e, f, k
<1>4. CASE peer' = Reactor01!ReadFrom(f) /\ g_events' = Reactor01!Done(Reactor01!event_set(f, "EPOLLOUT", "send_data", e, k), ev)
  <2>. DEFINE m == [g_events.myevents EXCEPT ![e] = Reactor01!Event(f, "EPOLLOUT", "send_data", k)]
              p == [g_events.epoll EXCEPT ![f] = [xev |-> e, events |-> "EPOLLOUT"]]
  <2>1. Reactor01!event_set(f, "EPOLLOUT", "send_data", e, k) = Server01(g_events.at, g_events.overwritten, g_events.ready, m, p)
    BY <1>1, event_setIs
  <2>. HIDE DEF m, p
  <2>2. g_events' = Server01(After(g_events.at, ev), g_events.overwritten, g_events.ready \ {ev}, m, p)
    BY <1>4, <2>1, DoneIs
  <2>3. peer' \in Kernels01 /\ peer'.peer = peer.peer
    BY <1>1, <1>4, KernelUpdates
  <2>4. peer'.peer = [peer.peer EXCEPT ![f] = k]
    BY <1>1, <2>3 DEF Kernels01, k
  <2>5. "EPOLLOUT" \in Events /\ "send_data" = (IF "EPOLLOUT" = "EPOLLIN" THEN "read_data" ELSE "send_data")
    BY DEF Events
  <2>6. g_events.overwritten \in BOOLEAN /\ (g_events.overwritten <=> g_events.overwritten \/ e = EVENT_SIZE)
    BY <1>1 DEF Servers01
  <2>7. k \in Pair \cup {None}
    BY <1>1
  <2>. QED BY <1>1, <1>3, <2>2, <2>3, <2>4, <2>5, <2>6, <2>7, SettingKeepsReactor01Inv, ZenonT(60) DEF m, p
<1>5. CASE peer' = Reactor01!Close(f) /\ g_events' = Reactor01!Done(Reactor01!event_del(f, e), ev)
  <2>. DEFINE m == [g_events.myevents EXCEPT ![e] = Reactor01!NoEvent]
              p == [g_events.epoll EXCEPT ![f] = [xev |-> -1, events |-> None]]
  <2>1. Reactor01!event_del(f, e) = Server01(g_events.at, g_events.overwritten, g_events.ready, m, p)
    BY <1>1, event_delIs
  <2>. HIDE DEF m, p
  <2>2. g_events' = Server01(After(g_events.at, ev), g_events.overwritten, g_events.ready \ {ev}, m, p)
    BY <1>5, <2>1, DoneIs
  <2>3. peer' \in Kernels01 /\ peer'.peer = [peer.peer EXCEPT ![f] = None]
    BY <1>1, <1>5, KernelUpdates
  <2>. QED BY <1>1, <1>3, <2>2, <2>3, ClosingKeepsReactor01Inv DEF m, p
<1>6. CASE peer' = Reactor01!ReadFrom(f) /\ g_events' = Reactor01!Done(g_events, ev)
  <2>1. g_events' = Server01(After(g_events.at, ev), g_events.overwritten, g_events.ready \ {ev}, g_events.myevents, g_events.epoll)
    BY <1>1, <1>6, ServerIs, DoneIs
  <2>2. peer' \in Kernels01 /\ peer'.peer = peer.peer
    BY <1>1, <1>6, KernelUpdates
  <2>3. g_events.ready \ {ev} \in SUBSET [xev : Elements, events : Events]
    BY <1>1 DEF Servers01
  <2>. QED BY <1>1, <2>1, <2>2, <2>3, OthersKeepReactor01Inv
<1>. QED BY <1>2, <1>4, <1>5, <1>6

\* send_data writes the buffer of the element, which is the data of that client.
LEMMA send_dataKeepsReactor01Inv ==
  ASSUME Reactor01Inv, NEW ev \in g_events.ready, Reactor01!send_data(ev)
  PROVE  Reactor01Inv'
<1>. DEFINE e == ev.xev  f == g_events.myevents[e].fd  k == peer.peer[f]
<1>1. /\ e \in Elements /\ Serves(e) /\ f \in Fds \ {0, Listener} /\ k \in Pair /\ g_events.myevents[e].buf = k
      /\ e = EVENT_SIZE => g_events.overwritten
      /\ g_events \in Servers01 /\ peer \in Kernels01
      /\ g_events.ready \ {ev} \in SUBSET g_events.ready
  BY Callback01Facts DEF Reactor01!send_data
<1>2. peer' = peer
  BY <1>1 DEF Reactor01!send_data, Reactor01!WriteTo
<1>3. PICK at01 \in {"events", "exited"} :
        g_events' = Reactor01!Done([Reactor01!event_set(f, "EPOLLIN", "read_data", e, g_events.myevents[e].buf) EXCEPT !.at = at01], ev)
  BY DEF Reactor01!send_data, Reactor01!AfterWrite
<1>4. g_events.myevents[e].fd = f
  OBVIOUS
<1>5. peer' \in Kernels01 /\ peer'.peer = [peer.peer EXCEPT ![f] = k]
  BY <1>1, <1>2 DEF Kernels01
<1>. HIDE DEF e, f, k
<1>. DEFINE m == [g_events.myevents EXCEPT ![e] = Reactor01!Event(f, "EPOLLIN", "read_data", k)]
            p == [g_events.epoll EXCEPT ![f] = [xev |-> e, events |-> "EPOLLIN"]]
<1>6. Reactor01!event_set(f, "EPOLLIN", "read_data", e, g_events.myevents[e].buf) =
        Server01(g_events.at, g_events.overwritten, g_events.ready, m, p)
  BY <1>1, event_setIs
<1>. HIDE DEF m, p
<1>7. ASSUME NEW x, x = [Server01(g_events.at, g_events.overwritten, g_events.ready, m, p) EXCEPT !.at = at01]
      PROVE  x = Server01(at01, g_events.overwritten, g_events.ready, m, p)
  BY <1>7 DEF Server01
<1>8. g_events' = Reactor01!Done(Server01(at01, g_events.overwritten, g_events.ready, m, p), ev)
  BY <1>3, <1>6, <1>7, Zenon
<1>9. g_events' = Server01(After(at01, ev), g_events.overwritten, g_events.ready \ {ev}, m, p)
  BY <1>8, DoneIs
<1>10. After(at01, ev) \in {"wait", "events", "exited"}
  BY DEF After
<1>11. "EPOLLIN" \in Events /\ "EPOLLIN" # "EPOLLOUT" /\ "read_data" = (IF "EPOLLIN" = "EPOLLIN" THEN "read_data" ELSE "send_data")
  BY DEF Events
<1>12. g_events.overwritten \in BOOLEAN /\ (g_events.overwritten <=> g_events.overwritten \/ e = EVENT_SIZE)
  BY <1>1 DEF Servers01
<1>13. k \in Pair \cup {None}
  BY <1>1
<1>. QED BY <1>1, <1>4, <1>5, <1>9, <1>10, <1>11, <1>12, <1>13, SettingKeepsReactor01Inv, ZenonT(60) DEF m, p

LEMMA NextKeepsReactor01Inv == Reactor01Inv /\ Reactor01!Next => Reactor01Inv'
<1> SUFFICES ASSUME Reactor01Inv, Reactor01!Next PROVE Reactor01Inv'
  OBVIOUS
<1>1. ASSUME NEW ev \in g_events.ready, Reactor01!NotCalled(ev) PROVE Reactor01Inv'
  <2>1. g_events' = Reactor01!Done(g_events, ev) /\ peer' = peer
    BY <1>1 DEF Reactor01!NotCalled
  <2>2. g_events' = Server01(After(g_events.at, ev), g_events.overwritten, g_events.ready \ {ev}, g_events.myevents, g_events.epoll)
    BY <2>1, ServerIs, DoneIs DEF Reactor01Inv
  <2>3. After(g_events.at, ev) \in {"wait", "events", "exited"} /\ peer' \in Kernels01
        /\ g_events.ready \ {ev} \in SUBSET [xev : Elements, events : Events]
    BY <2>1 DEF After, Reactor01Inv, Servers01
  <2>. QED BY <2>1, <2>2, <2>3, OthersKeepReactor01Inv
<1>. QED BY <1>1, WaitKeepsReactor01Inv, initAcceptKeepsReactor01Inv, read_dataKeepsReactor01Inv, send_dataKeepsReactor01Inv,
           NetworkKeepsReactor01Inv
        DEF Reactor01!Next, Reactor01!main

-----------------------------------------------------------------------------
\* The kernel of the other servers.  Its clients are the set C.

Kernels(C) ==
  [peer : [Fds -> C \cup {"stdin", "listener", None}], fresh : SUBSET C, backlog : SUBSET C, sent : SUBSET C,
   left : SUBSET C, reset : SUBSET C, misled : SUBSET (C \cup {"stdin", "listener", None})]

\* A client has one descriptor at most, and none before it was accepted.
KernelOk(C, p) ==
  /\ p \in Kernels(C)
  /\ p.peer[0] = "stdin" /\ p.peer[Listener] = "listener"
  /\ \A f \in Fds \ {0, Listener} : p.peer[f] \in C \cup {None}
  /\ \A f, g \in Fds : p.peer[f] \in C /\ p.peer[f] = p.peer[g] => f = g
  /\ \A f \in Fds : p.peer[f] \notin p.fresh \cup p.backlog
  /\ p.fresh \cap p.backlog = {}

\* The connections, and those with something to read.
OpenOf(C, p) == {f \in Fds : p.peer[f] \in C}

Speaks(p, f) == p.peer[f] \in p.sent \cup p.left

LEMMA SmallFds == 0 \in Fds /\ Listener = 1 /\ Listener \in Fds /\ Fds \in SUBSET Nat /\ None = "none"
BY SizesAssumption DEF Fds, Reactor01!Fds, Listener, Reactor01!Listener, None, Reactor01!None

LEMMA Strangers ==
  ASSUME NEW C \in {Clients, Pair}
  PROVE  "none" \notin C /\ "stdin" \notin C /\ "listener" \notin C
BY SizesAssumption

LEMMA OpenFacts ==
  ASSUME NEW C \in {Clients, Pair}, KernelOk(C, peer)
  PROVE  /\ OpenOf(C, peer) \subseteq Fds \ {0, Listener}
         /\ \A f \in Fds : peer.peer[f] # None <=> f \in OpenOf(C, peer) \cup {0, Listener}
<1>1. "none" \notin C /\ "stdin" \notin C /\ "listener" \notin C
  BY Strangers
<1>. QED BY <1>1, SmallFds DEF KernelOk, OpenOf

\* The effect of the calls: a descriptor is closed, or read, or a client is
\* accepted; and what clients do.
LEMMA KernelCloses ==
  ASSUME NEW C \in {Clients, Pair}, KernelOk(C, peer), NEW f \in Fds \ {0, Listener}, peer' = [peer EXCEPT !.peer[f] = None]
  PROVE  /\ KernelOk(C, peer') /\ OpenOf(C, peer') = OpenOf(C, peer) \ {f} /\ peer'.backlog = peer.backlog /\ peer'.misled = peer.misled
         /\ \A g \in Fds \ {f} : peer'.peer[g] = peer.peer[g] /\ (Speaks(peer, g) <=> Speaks(peer', g))
<1>0. "none" \notin C /\ "stdin" \notin C /\ "listener" \notin C
  BY Strangers
<1>1. peer' = [peer |-> [peer.peer EXCEPT ![f] = None], fresh |-> peer.fresh, backlog |-> peer.backlog, sent |-> peer.sent,
               left |-> peer.left, reset |-> peer.reset, misled |-> peer.misled]
  BY DEF KernelOk, Kernels
<1>2. peer' \in Kernels(C)
  BY <1>1 DEF KernelOk, Kernels
<1>3. /\ peer'.peer[f] = None /\ \A g \in Fds \ {f} : peer'.peer[g] = peer.peer[g]
      /\ peer'.fresh = peer.fresh /\ peer'.backlog = peer.backlog /\ peer'.sent = peer.sent /\ peer'.left = peer.left
      /\ peer'.misled = peer.misled
  BY <1>1 DEF KernelOk, Kernels
<1>4. peer.fresh \subseteq C /\ peer.backlog \subseteq C
  BY DEF KernelOk, Kernels
<1>5. KernelOk(C, peer')
  BY <1>0, <1>2, <1>3, <1>4, SmallFds DEF KernelOk
<1>6. OpenOf(C, peer') = OpenOf(C, peer) \ {f}
  BY <1>0, <1>3, SmallFds DEF OpenOf
<1>. QED BY <1>3, <1>5, <1>6 DEF Speaks

LEMMA KernelReads ==
  ASSUME NEW C \in {Clients, Pair}, KernelOk(C, peer), NEW f \in Fds,
         peer' = IF peer.peer[f] \in peer.sent THEN [peer EXCEPT !.sent = @ \ {peer.peer[f]}]
                 ELSE [peer EXCEPT !.reset = @ \ {peer.peer[f]}]
  PROVE  /\ KernelOk(C, peer') /\ OpenOf(C, peer') = OpenOf(C, peer) /\ peer'.peer = peer.peer
         /\ peer'.backlog = peer.backlog /\ peer'.misled = peer.misled
         /\ \A g \in Fds \ {f} : Speaks(peer, g) => Speaks(peer', g)
<1>1. PICK se \in SUBSET C, re \in SUBSET C :
        /\ peer' = [peer |-> peer.peer, fresh |-> peer.fresh, backlog |-> peer.backlog, sent |-> se,
                    left |-> peer.left, reset |-> re, misled |-> peer.misled]
        /\ peer.sent \ {peer.peer[f]} \subseteq se
  <2>1. CASE peer.peer[f] \in peer.sent
    <3>1. peer' = [peer |-> peer.peer, fresh |-> peer.fresh, backlog |-> peer.backlog, sent |-> peer.sent \ {peer.peer[f]},
                   left |-> peer.left, reset |-> peer.reset, misled |-> peer.misled]
      BY <2>1 DEF KernelOk, Kernels
    <3>2. peer.sent \ {peer.peer[f]} \in SUBSET C /\ peer.reset \in SUBSET C
      BY DEF KernelOk, Kernels
    <3>. QED BY <3>1, <3>2
  <2>2. CASE peer.peer[f] \notin peer.sent
    <3>1. peer' = [peer |-> peer.peer, fresh |-> peer.fresh, backlog |-> peer.backlog, sent |-> peer.sent,
                   left |-> peer.left, reset |-> peer.reset \ {peer.peer[f]}, misled |-> peer.misled]
      BY <2>2 DEF KernelOk, Kernels
    <3>2. peer.sent \in SUBSET C /\ peer.reset \ {peer.peer[f]} \in SUBSET C
      BY DEF KernelOk, Kernels
    <3>. QED BY <3>1, <3>2
  <2>. QED BY <2>1, <2>2
<1>2. /\ peer'.peer = peer.peer /\ peer'.fresh = peer.fresh /\ peer'.backlog = peer.backlog /\ peer'.sent = se
      /\ peer'.left = peer.left /\ peer'.misled = peer.misled
  BY <1>1
<1>3. peer' \in Kernels(C)
  BY <1>1 DEF KernelOk, Kernels
<1>4. KernelOk(C, peer')
  BY <1>2, <1>3 DEF KernelOk
<1>5. OpenOf(C, peer') = OpenOf(C, peer)
  BY <1>2 DEF OpenOf
<1>6. ASSUME NEW g \in Fds \ {f}, Speaks(peer, g) PROVE Speaks(peer', g)
  <2>1. peer.sent \subseteq C
    BY DEF KernelOk, Kernels
  <2>2. peer.peer[g] \in peer.sent => peer.peer[g] # peer.peer[f]
    BY <2>1 DEF KernelOk
  <2>. QED BY <1>1, <1>2, <1>6, <2>2 DEF Speaks
<1>. QED BY <1>2, <1>4, <1>5, <1>6

LEMMA KernelAccepts ==
  ASSUME NEW C \in {Clients, Pair}, KernelOk(C, peer), NEW k \in peer.backlog, NEW n \in Fds, peer.peer[n] = None,
         peer' = [peer EXCEPT !.backlog = @ \ {k}, !.peer[n] = k]
  PROVE  /\ KernelOk(C, peer') /\ k \in C /\ n \in Fds \ {0, Listener} /\ n \notin OpenOf(C, peer) /\ OpenOf(C, peer') = OpenOf(C, peer) \cup {n}
         /\ peer'.peer[n] = k /\ peer'.misled = peer.misled
         /\ \A g \in Fds \ {n} : peer'.peer[g] = peer.peer[g] /\ (Speaks(peer, g) <=> Speaks(peer', g))
<1>0. "none" \notin C /\ "stdin" \notin C /\ "listener" \notin C
  BY Strangers
<1>1. peer' = [peer |-> [peer.peer EXCEPT ![n] = k], fresh |-> peer.fresh, backlog |-> peer.backlog \ {k}, sent |-> peer.sent,
               left |-> peer.left, reset |-> peer.reset, misled |-> peer.misled]
  BY DEF KernelOk, Kernels
<1>2. peer' \in Kernels(C) /\ k \in C
  BY <1>1 DEF KernelOk, Kernels
<1>3. /\ peer'.peer[n] = k /\ \A g \in Fds \ {n} : peer'.peer[g] = peer.peer[g]
      /\ peer'.fresh = peer.fresh /\ peer'.backlog = peer.backlog \ {k} /\ peer'.sent = peer.sent /\ peer'.left = peer.left
      /\ peer'.misled = peer.misled
  BY <1>1 DEF KernelOk, Kernels
<1>4. peer.fresh \subseteq C /\ peer.backlog \subseteq C /\ n \in Fds \ {0, Listener} /\ n \notin OpenOf(C, peer)
  BY <1>0, SmallFds DEF KernelOk, Kernels, OpenOf
<1>5. KernelOk(C, peer')
  BY <1>0, <1>2, <1>3, <1>4, SmallFds DEF KernelOk
<1>6. OpenOf(C, peer') = OpenOf(C, peer) \cup {n}
  BY <1>2, <1>3 DEF OpenOf
<1>. QED BY <1>2, <1>3, <1>4, <1>5, <1>6 DEF Speaks

Grown(C, fr, bl, se, le, re) ==
  /\ fr \in SUBSET C /\ bl \in SUBSET C /\ se \in SUBSET C /\ le \in SUBSET C /\ re \in SUBSET C
  /\ peer.sent \subseteq se /\ peer.left \subseteq le /\ peer.backlog \subseteq bl
  /\ fr \cup bl = peer.fresh \cup peer.backlog /\ fr \cap bl = {}

LEMMA KernelGrows ==
  ASSUME NEW C \in {Clients, Pair}, KernelOk(C, peer), NEW fr, NEW bl, NEW se, NEW le, NEW re, Grown(C, fr, bl, se, le, re),
         peer' = [peer |-> peer.peer, fresh |-> fr, backlog |-> bl, sent |-> se, left |-> le, reset |-> re, misled |-> peer.misled]
  PROVE  /\ KernelOk(C, peer') /\ OpenOf(C, peer') = OpenOf(C, peer) /\ peer'.peer = peer.peer
         /\ peer.backlog \subseteq peer'.backlog /\ peer'.misled = peer.misled
         /\ \A g \in Fds : Speaks(peer, g) => Speaks(peer', g)
<1>2. /\ peer'.peer = peer.peer /\ peer'.fresh = fr /\ peer'.backlog = bl /\ peer'.sent = se
      /\ peer'.left = le /\ peer'.misled = peer.misled
  OBVIOUS
<1>3. peer' \in Kernels(C)
  BY DEF KernelOk, Kernels, Grown
<1>4. KernelOk(C, peer')
  BY <1>2, <1>3 DEF KernelOk, Grown
<1>5. OpenOf(C, peer') = OpenOf(C, peer)
  BY <1>2 DEF OpenOf
<1>. QED BY <1>2, <1>4, <1>5 DEF Speaks, Grown

LEMMA KernelHears ==
  ASSUME NEW C \in {Clients, Pair}, KernelOk(C, peer), NEW k \in C,
         \/ k \in peer.fresh /\ peer' = [peer EXCEPT !.fresh = @ \ {k}, !.backlog = @ \cup {k}]
         \/ peer' = [peer EXCEPT !.sent = @ \cup {k}]
         \/ \E r \in SUBSET {k} : peer' = [peer EXCEPT !.left = @ \cup {k}, !.reset = @ \cup r]
  PROVE  /\ KernelOk(C, peer') /\ OpenOf(C, peer') = OpenOf(C, peer) /\ peer'.peer = peer.peer
         /\ peer.backlog \subseteq peer'.backlog /\ peer'.misled = peer.misled
         /\ \A g \in Fds : Speaks(peer, g) => Speaks(peer', g)
<1>. DEFINE Goal == /\ KernelOk(C, peer') /\ OpenOf(C, peer') = OpenOf(C, peer) /\ peer'.peer = peer.peer
                   /\ peer.backlog \subseteq peer'.backlog /\ peer'.misled = peer.misled
                   /\ \A g \in Fds : Speaks(peer, g) => Speaks(peer', g)
<1>0. /\ peer.fresh \in SUBSET C /\ peer.backlog \in SUBSET C /\ peer.sent \in SUBSET C /\ peer.left \in SUBSET C
      /\ peer.reset \in SUBSET C /\ peer.fresh \cap peer.backlog = {}
  BY DEF KernelOk, Kernels
<1>1. CASE k \in peer.fresh /\ peer' = [peer EXCEPT !.fresh = @ \ {k}, !.backlog = @ \cup {k}]
  <2>1. peer' = [peer |-> peer.peer, fresh |-> peer.fresh \ {k}, backlog |-> peer.backlog \cup {k}, sent |-> peer.sent,
                 left |-> peer.left, reset |-> peer.reset, misled |-> peer.misled]
    BY <1>1 DEF KernelOk, Kernels
  <2>2. Grown(C, peer.fresh \ {k}, peer.backlog \cup {k}, peer.sent, peer.left, peer.reset)
    BY <1>0, <1>1 DEF Grown
  <2>. QED BY <2>1, <2>2, KernelGrows, Zenon
<1>2. CASE peer' = [peer EXCEPT !.sent = @ \cup {k}]
  <2>1. peer' = [peer |-> peer.peer, fresh |-> peer.fresh, backlog |-> peer.backlog, sent |-> peer.sent \cup {k},
                 left |-> peer.left, reset |-> peer.reset, misled |-> peer.misled]
    BY <1>2 DEF KernelOk, Kernels
  <2>2. Grown(C, peer.fresh, peer.backlog, peer.sent \cup {k}, peer.left, peer.reset)
    BY <1>0 DEF Grown
  <2>. QED BY <2>1, <2>2, KernelGrows, Zenon
<1>3. ASSUME NEW r \in SUBSET {k}, peer' = [peer EXCEPT !.left = @ \cup {k}, !.reset = @ \cup r] PROVE Goal
  <2>1. peer' = [peer |-> peer.peer, fresh |-> peer.fresh, backlog |-> peer.backlog, sent |-> peer.sent,
                 left |-> peer.left \cup {k}, reset |-> peer.reset \cup r, misled |-> peer.misled]
    BY <1>3 DEF KernelOk, Kernels
  <2>2. Grown(C, peer.fresh, peer.backlog, peer.sent, peer.left \cup {k}, peer.reset \cup r)
    BY <1>0 DEF Grown
  <2>. QED BY <2>1, <2>2, KernelGrows, Zenon
<1>. QED BY <1>1, <1>2, <1>3

StartNet(C) ==
  [peer |-> [f \in Fds |-> CASE f = 0 -> "stdin" [] f = Listener -> "listener" [] OTHER -> None],
   fresh |-> C, backlog |-> {}, sent |-> {}, left |-> {}, reset |-> {}, misled |-> {}]

LEMMA KernelStarts ==
  ASSUME NEW C \in {Clients, Pair}, peer = StartNet(C)
  PROVE  KernelOk(C, peer) /\ OpenOf(C, peer) = {} /\ peer.misled = {}
<1>0. "none" \notin C /\ "stdin" \notin C /\ "listener" \notin C
  BY Strangers
<1>1. peer \in Kernels(C)
  BY SmallFds DEF Kernels, StartNet
<1>2. \A f \in Fds : peer.peer[f] = CASE f = 0 -> "stdin" [] f = Listener -> "listener" [] OTHER -> None
  BY DEF StartNet
<1>. QED BY <1>0, <1>1, <1>2, SmallFds DEF KernelOk, OpenOf, StartNet

-----------------------------------------------------------------------------
\* A table c with the elements S holds each descriptor of the set open once, and
\* free elsewhere.

Table(S, c, free, open) ==
  /\ c \in [S -> Fds \cup {free}] /\ open \subseteq Fds /\ free \notin open
  /\ \A f \in open : \E s \in S : c[s] = f
  /\ \A s \in S : c[s] # free => c[s] \in open
  /\ \A s, t \in S : c[s] # free /\ c[s] = c[t] => s = t

LEMMA FreeIsNegative ==
  ASSUME NEW S, NEW c \in [S -> Fds \cup {-1}]
  PROVE  \A s \in S : (c[s] < 0 <=> c[s] = -1) /\ (c[s] >= 0 <=> c[s] # -1)
<1> SUFFICES ASSUME NEW s \in S PROVE (c[s] < 0 <=> c[s] = -1) /\ (c[s] >= 0 <=> c[s] # -1)
  OBVIOUS
<1>1. c[s] \in Nat \/ c[s] = -1
  BY SmallFds
<1>. QED BY ONLY <1>1

Taken(S, c, free) == {s \in S : c[s] # free}

Changed(S, c, i, n, d) ==
  /\ i \in S /\ d = [c EXCEPT ![i] = n] /\ d[i] = n /\ \A s \in S \ {i} : d[s] = c[s]

LEMMA TableChanges ==
  ASSUME NEW S, NEW c, NEW free, NEW open, Table(S, c, free, open), NEW i \in S, NEW n, NEW d, d = [c EXCEPT ![i] = n]
  PROVE  Changed(S, c, i, n, d)
BY DEF Table, Changed

LEMMA TableAdds ==
  ASSUME NEW S, NEW c, NEW free, NEW open, Table(S, c, free, open), NEW i, c[i] = free, NEW n, n \in Fds, n \notin open, n # free,
         NEW d, Changed(S, c, i, n, d)
  PROVE  Table(S, d, free, open \cup {n})
<1>1. d \in [S -> Fds \cup {free}]
  BY DEF Table, Changed
<1>. QED BY <1>1 DEF Table, Changed

LEMMA TableDrops ==
  ASSUME NEW S, NEW c, NEW free, NEW open, Table(S, c, free, open), NEW i, c[i] # free, NEW d, Changed(S, c, i, free, d)
  PROVE  Table(S, d, free, open \ {c[i]})
<1>1. d \in [S -> Fds \cup {free}]
  BY DEF Table, Changed
<1>2. \A s \in S : d[s] # free => d[s] \in open \ {c[i]}
  BY DEF Table, Changed
<1>3. \A f \in open \ {c[i]} : \E s \in S : d[s] = f
  BY DEF Table, Changed
<1>. QED BY <1>1, <1>2, <1>3 DEF Table, Changed

\* What a function with different values gives is as many as it is given for.
LEMMA ImageCounts ==
  ASSUME NEW D, IsFiniteSet(D), NEW c, \A s, t \in D : c[s] = c[t] => s = t
  PROVE  IsFiniteSet({c[s] : s \in D}) /\ Cardinality({c[s] : s \in D}) = Cardinality(D)
<1>. DEFINE T == {c[s] : s \in D}  b == [s \in D |-> c[s]]
<1>1. b \in Bijection(D, T)
  BY DEF Bijection, Injection, Surjection, IsInjective
<1>2. ExistsBijection(D, T)
  BY <1>1 DEF ExistsBijection
<1>. HIDE DEF T
<1>3. IsFiniteSet(T) /\ Cardinality(T) = Cardinality(D)
  BY <1>2, FS_Bijection
<1>. QED BY <1>3 DEF T

LEMMA TableCounts ==
  ASSUME NEW S, IsFiniteSet(S), NEW c, NEW free, NEW open, Table(S, c, free, open)
  PROVE  open = {c[s] : s \in Taken(S, c, free)} /\ Cardinality(open) = Cardinality(Taken(S, c, free))
<1>1. open = {c[s] : s \in Taken(S, c, free)}
  BY DEF Table, Taken
<1>2. IsFiniteSet(Taken(S, c, free))
  BY FS_Subset DEF Taken
<1>3. \A s, t \in Taken(S, c, free) : c[s] = c[t] => s = t
  BY DEF Table, Taken
<1>. QED BY <1>1, <1>2, <1>3, ImageCounts

-----------------------------------------------------------------------------
\* select_concurrent/server.c

SelectServer(w, c, m, mf, a, r, n, i) ==
  [at |-> w, client |-> c, maxi |-> m, maxfd |-> mf, allset |-> a, rset |-> r, nready |-> n, i |-> i]

\* The elements the scan still has to handle.
DueOf(c, free, r, i, m) == {s \in i .. m : c[s] # free /\ c[s] \in r}

SelectSlots == 0 .. FD_SETSIZE - 1

\* In the scan nready counts them, in accept the listening descriptor as well;
\* each of them has something to read.
SelectCounts(p, w, c, m, a, r, n, i) ==
  /\ w = "accept" => i = 0 /\ r \subseteq a /\ n = Cardinality(DueOf(c, -1, r, i, m)) + 1
  /\ w = "scan" => n = Cardinality(DueOf(c, -1, r, i, m))
  /\ w \in {"accept", "scan"} => \A s \in DueOf(c, -1, r, i, m) : Speaks(p, c[s])

SelectOk(p, w, c, m, mf, a, r, n, i) ==
  /\ w \in {"select", "accept", "scan"} /\ n \in Int /\ i \in Nat
  /\ Table(SelectSlots, c, -1, OpenOf(Clients, p))
  /\ a = {Listener} \cup OpenOf(Clients, p)
  /\ mf \in Nat /\ Listener <= mf /\ \A f \in OpenOf(Clients, p) : f <= mf
  /\ OpenOf(Clients, p) \subseteq 2 .. FD_SETSIZE - 1
  /\ m \in -1 .. FD_SETSIZE - 1 /\ \A s \in SelectSlots : c[s] # -1 => s <= m
  /\ SelectCounts(p, w, c, m, a, r, n, i)

SelectInv ==
  /\ KernelOk(Clients, peer)
  /\ \/ g_events.at \in {"exited", "overrun"}
     \/ \E w, c, m, mf, a, r, n, i : g_events = SelectServer(w, c, m, mf, a, r, n, i) /\ SelectOk(peer, w, c, m, mf, a, r, n, i)

\* The names of the module.
LEMMA SelectNames ==
  /\ Select!Fds = Fds /\ Select!Listener = Listener /\ Select!None = None /\ Select!Slots = SelectSlots
  /\ Select!Open = OpenOf(Clients, peer)
  /\ \A S : Select!Cardinality(S) = Cardinality(S)
BY DEF Select!Fds, Fds, Reactor01!Fds, Select!Listener, Listener, Reactor01!Listener, Select!None, None, Reactor01!None,
       Select!Slots, SelectSlots, Select!Open, OpenOf, Select!Cardinality, Cardinality

\* client[] is not full, as two of the descriptors that fit into the set belong to
\* nobody.
LEMMA SelectHasRoom ==
  ASSUME NEW c, NEW open, open \subseteq 2 .. FD_SETSIZE - 1, Table(SelectSlots, c, -1, open)
  PROVE  \E s \in SelectSlots : c[s] = -1
<1> SUFFICES ASSUME \A s \in SelectSlots : c[s] # -1 PROVE FALSE
  OBVIOUS
<1>1. FD_SETSIZE \in Nat /\ FD_SETSIZE >= 2
  BY SizesAssumption
<1>2. IsFiniteSet(SelectSlots) /\ Cardinality(SelectSlots) = FD_SETSIZE
  BY <1>1, FS_Interval DEF SelectSlots
<1>3. IsFiniteSet(2 .. FD_SETSIZE - 1) /\ Cardinality(2 .. FD_SETSIZE - 1) = FD_SETSIZE - 2
  <2>1. 2 \in Int /\ FD_SETSIZE - 1 \in Int /\ ~(2 > FD_SETSIZE) /\ FD_SETSIZE - 1 - 2 + 1 = FD_SETSIZE - 2
        /\ (2 > FD_SETSIZE - 1 => FD_SETSIZE - 2 = 0)
    BY <1>1
  <2>. QED BY ONLY <2>1, FS_Interval
<1>4. Cardinality(open) <= FD_SETSIZE - 2
  <2>1. open \in SUBSET (2 .. FD_SETSIZE - 1)
    OBVIOUS
  <2>. QED BY ONLY <1>3, <2>1, FS_Subset
<1>5. Cardinality(open) = Cardinality(Taken(SelectSlots, c, -1))
  BY <1>2, TableCounts
<1>6. Taken(SelectSlots, c, -1) = SelectSlots
  BY DEF Taken
<1>. QED BY <1>1, <1>2, <1>4, <1>5, <1>6

LEMMA SelectLeast ==
  ASSUME NEW S \in SUBSET Nat, S # {}
  PROVE  Select!Min(S) \in S /\ \A y \in S : Select!Min(S) <= y
BY LeastExists DEF Select!Min

LEMMA SelectLargest ==
  ASSUME NEW a \in Int, NEW b \in Int
  PROVE  Select!Max({a, b}) \in {a, b} /\ Select!Max({a, b}) >= a /\ Select!Max({a, b}) >= b
<1>1. \E x \in {a, b} : \A y \in {a, b} : x >= y
  OBVIOUS
<1>. QED BY <1>1 DEF Select!Max

\* accept takes a descriptor that is closed.
LEMMA SelectAccepts ==
  ASSUME KernelOk(Clients, peer), NEW k \in peer.backlog, Select!Accepting(k)
  PROVE  /\ Select!NewFd \in Fds /\ peer.peer[Select!NewFd] = None
         /\ peer' = [peer EXCEPT !.backlog = @ \ {k}, !.peer[Select!NewFd] = k]
<1>1. PICK S : S = {f \in Fds : peer.peer[f] = None}
  OBVIOUS
<1>2. S \in SUBSET Nat /\ S # {} /\ Select!NewFd = Select!Min(S)
  BY <1>1, SelectNames, SmallFds DEF Select!Accepting, Select!NewFd, Select!Closed
<1>3. Select!NewFd \in S
  BY <1>2, SelectLeast
<1>. QED BY <1>1, <1>3 DEF Select!Accepting, Select!Accepted

LEMMA InitSelectInv == Select!Init => SelectInv
<1> SUFFICES ASSUME Select!Init PROVE SelectInv
  OBVIOUS
<1>1. KernelOk(Clients, peer) /\ OpenOf(Clients, peer) = {}
  <2>1. peer = StartNet(Clients)
    BY SelectNames DEF Select!Init, Select!InitNet, StartNet
  <2>. QED BY <2>1, KernelStarts
<1>2. PICK c : c = [s \in SelectSlots |-> -1]
  OBVIOUS
<1>3. g_events = SelectServer("select", c, -1, Listener, {Listener}, {}, 0, 0)
  BY <1>2, SelectNames DEF Select!Init, SelectServer
<1>4. -1 \in -1 .. FD_SETSIZE - 1
  BY SizesAssumption
<1>5. SelectOk(peer, "select", c, -1, Listener, {Listener}, {}, 0, 0)
  BY <1>1, <1>2, <1>4, SmallFds DEF SelectOk, SelectCounts, Table
<1>. QED BY <1>1, <1>3, <1>5 DEF SelectInv

LEMMA SelectDue ==
  ASSUME NEW p, NEW w, NEW c, NEW m, NEW mf, NEW a, NEW r, NEW n, NEW i, SelectOk(p, w, c, m, mf, a, r, n, i), NEW j \in Nat, NEW q
  PROVE  /\ DueOf(c, -1, q, j, m) \in SUBSET SelectSlots /\ DueOf(c, -1, q, j, m) \in SUBSET Nat
         /\ IsFiniteSet(DueOf(c, -1, q, j, m)) /\ Cardinality(DueOf(c, -1, q, j, m)) \in Nat
         /\ \A s \in DueOf(c, -1, q, j, m) : c[s] \in OpenOf(Clients, p)
<1>1. DueOf(c, -1, q, j, m) \in SUBSET SelectSlots
  BY SizesAssumption DEF SelectOk, DueOf, SelectSlots
<1>2. IsFiniteSet(SelectSlots)
  BY FS_Interval, SizesAssumption DEF SelectSlots
<1>3. IsFiniteSet(DueOf(c, -1, q, j, m))
  BY <1>1, <1>2, FS_Subset
<1>4. Cardinality(DueOf(c, -1, q, j, m)) \in Nat
  BY <1>3, FS_CardinalityType
<1>5. \A s \in DueOf(c, -1, q, j, m) : c[s] \in OpenOf(Clients, p)
  BY <1>1 DEF DueOf, SelectOk, Table
<1>. QED BY <1>1, <1>3, <1>4, <1>5, SizesAssumption DEF SelectSlots

\* select returns as many as are handled in this round.
LEMMA SelectKeepsInv == SelectInv /\ Select!Select => SelectInv'
<1> SUFFICES ASSUME SelectInv, Select!Select PROVE SelectInv'
  OBVIOUS
<1>1. PICK w, c, m, mf, a, r, n, i : g_events = SelectServer(w, c, m, mf, a, r, n, i) /\ SelectOk(peer, w, c, m, mf, a, r, n, i)
  BY DEF SelectInv, Select!Select
<1>2. PICK ready : ready = {f \in a : f <= mf /\ Select!Readable(f)}
  OBVIOUS
<1>3. PICK at1 : at1 = IF Listener \in ready THEN "accept" ELSE "scan"
  OBVIOUS
<1>4. g_events' = SelectServer(at1, c, m, mf, a, ready, Cardinality(ready), 0) /\ peer' = peer
  BY <1>1, <1>2, <1>3, SelectNames DEF Select!Select, SelectServer
<1>5. PICK due, T : due = DueOf(c, -1, ready, 0, m) /\ T = {c[s] : s \in due}
  OBVIOUS
<1>6. due \in SUBSET SelectSlots /\ IsFiniteSet(due) /\ Cardinality(due) \in Nat /\ \A s \in due : c[s] \in OpenOf(Clients, peer)
  BY <1>1, <1>5, SelectDue
<1>7. OpenOf(Clients, peer) \subseteq Fds \ {0, Listener} /\ Fds \in SUBSET Nat /\ KernelOk(Clients, peer)
  BY OpenFacts, SmallFds DEF SelectInv
<1>8. T = ready \ {Listener}
  <2>1. ASSUME NEW f \in ready \ {Listener} PROVE f \in T
    <3>1. f \in OpenOf(Clients, peer)
      BY <1>1, <1>2 DEF SelectOk
    <3>2. PICK s \in SelectSlots : c[s] = f
      BY <1>1, <3>1 DEF SelectOk, Table
    <3>3. s \in 0 .. m /\ c[s] # -1
      BY <1>1, <1>7, <3>1, <3>2, SizesAssumption DEF SelectOk, SelectSlots
    <3>. QED BY <1>5, <3>2, <3>3 DEF DueOf
  <2>2. ASSUME NEW f \in T PROVE f \in ready \ {Listener}
    BY <1>5, <1>6, <1>7 DEF DueOf
  <2>. QED BY <2>1, <2>2
<1>9. IsFiniteSet(T) /\ Cardinality(T) = Cardinality(due)
  <2>1. \A s, t \in due : c[s] = c[t] => s = t
    BY <1>1, <1>5, <1>6 DEF SelectOk, Table, DueOf
  <2>. QED BY <1>5, <1>6, <2>1, ImageCounts
<1>10. Cardinality(ready) = IF Listener \in ready THEN Cardinality(due) + 1 ELSE Cardinality(due)
  <2>1. CASE Listener \in ready
    <3>1. ready = T \cup {Listener} /\ Listener \notin T
      BY <1>8, <2>1
    <3>. QED BY <1>9, <2>1, <3>1, FS_AddElement
  <2>2. CASE Listener \notin ready
    <3>1. ready = T
      BY <1>8, <2>2
    <3>. QED BY <1>9, <2>2, <3>1
  <2>. QED BY <2>1, <2>2
<1>11. \A s \in due : Speaks(peer, c[s])
  BY <1>2, <1>5, <1>6, <1>7, SelectNames DEF DueOf, Select!Readable, Speaks
<1>12. SelectCounts(peer, at1, c, m, a, ready, Cardinality(ready), 0)
  BY <1>2, <1>3, <1>5, <1>10, <1>11 DEF SelectCounts
<1>13. Cardinality(ready) \in Int
  BY <1>6, <1>10
<1>14. SelectOk(peer, at1, c, m, mf, a, ready, Cardinality(ready), 0)
  BY <1>1, <1>3, <1>12, <1>13 DEF SelectOk
<1>. QED BY <1>4, <1>7, <1>14 DEF SelectInv

\* The new descriptor is not among those that are ready.
LEMMA AcceptKeepsSelectInv == SelectInv /\ Select!Accept => SelectInv'
<1> SUFFICES ASSUME SelectInv, Select!Accept PROVE SelectInv'
  OBVIOUS
<1>1. PICK w, c, m, mf, a, r, n, i : g_events = SelectServer(w, c, m, mf, a, r, n, i) /\ SelectOk(peer, w, c, m, mf, a, r, n, i)
  BY DEF SelectInv, Select!Accept
<1>2. KernelOk(Clients, peer) /\ w = "accept" /\ c \in [SelectSlots -> Fds \cup {-1}]
  BY <1>1 DEF SelectInv, Select!Accept, SelectServer, SelectOk, Table
<1>3. PICK k \in peer.backlog : Select!Accepting(k)
  BY DEF Select!Accept
<1>4. PICK f : f = Select!NewFd
  OBVIOUS
<1>5. /\ KernelOk(Clients, peer') /\ f \in Fds \ {0, Listener} /\ f \notin OpenOf(Clients, peer)
      /\ OpenOf(Clients, peer') = OpenOf(Clients, peer) \cup {f}
      /\ \A g \in Fds \ {f} : Speaks(peer, g) <=> Speaks(peer', g)
  BY <1>2, <1>3, <1>4, SelectAccepts, KernelAccepts
<1>6. Select!FreeSlots = {s \in SelectSlots : c[s] = -1}
  <2>1. \A s \in SelectSlots : c[s] < 0 <=> c[s] = -1
    BY <1>2, FreeIsNegative
  <2>2. g_events.client = c
    BY <1>1 DEF SelectServer
  <2>. QED BY <2>1, <2>2, SelectNames DEF Select!FreeSlots
<1>7. Select!FreeSlots # {}
  BY <1>1, <1>6, SelectHasRoom DEF SelectOk
<1>8. CASE f >= FD_SETSIZE
  <2>1. g_events'.at = "overrun"
    BY <1>1, <1>4, <1>7, <1>8 DEF Select!Accept, SelectServer
  <2>. QED BY <1>5, <2>1 DEF SelectInv
<1>9. CASE ~(f >= FD_SETSIZE)
  <2>1. PICK e : e = Select!Min(Select!FreeSlots)
    OBVIOUS
  <2>2. e \in SelectSlots /\ c[e] = -1 /\ e \in Nat
    BY <1>6, <1>7, <2>1, SelectLeast, SizesAssumption DEF SelectSlots
  <2>3. PICK d, m1, mf1 : d = [c EXCEPT ![e] = f] /\ m1 = Select!Max({m, e}) /\ mf1 = Select!Max({mf, f})
    OBVIOUS
  <2>4. g_events' = SelectServer(IF n = 1 THEN "select" ELSE "scan", d, m1, mf1, a \cup {f}, r, n - 1, i)
    BY <1>1, <1>4, <1>7, <1>9, <2>1, <2>3 DEF Select!Accept, SelectServer
  <2>5. Table(SelectSlots, d, -1, OpenOf(Clients, peer')) /\ d[e] = f /\ \A s \in SelectSlots \ {e} : d[s] = c[s]
    <3>1. Table(SelectSlots, c, -1, OpenOf(Clients, peer)) /\ f \in Fds \ OpenOf(Clients, peer) /\ f # -1
      BY <1>1, <1>5, SmallFds DEF SelectOk
    <3>2. Table(SelectSlots, d, -1, OpenOf(Clients, peer) \cup {f}) /\ d[e] = f /\ \A s \in SelectSlots \ {e} : d[s] = c[s]
      <4>1. Changed(SelectSlots, c, e, f, d)
        BY <2>2, <2>3, <3>1, TableChanges
      <4>2. Table(SelectSlots, d, -1, OpenOf(Clients, peer) \cup {f})
        BY <2>2, <3>1, <4>1, TableAdds
      <4>. QED BY <4>1, <4>2 DEF Changed
    <3>. QED BY <1>5, <3>2
  <2>6. m \in -1 .. FD_SETSIZE - 1 /\ mf \in Nat /\ f \in Nat /\ n \in Int /\ i = 0
    BY <1>1, <1>2, <1>5, SmallFds DEF SelectOk, SelectCounts
  <2>7. m1 \in {m, e} /\ m1 >= m /\ m1 >= e /\ m1 \in -1 .. FD_SETSIZE - 1
    <3>1. m \in Int /\ e \in Int
      BY <2>2, <2>6
    <3>2. m1 \in {m, e} /\ m1 >= m /\ m1 >= e
      BY <2>3, <3>1, SelectLargest, Zenon
    <3>. QED BY <2>2, <2>6, <3>2, SizesAssumption DEF SelectSlots
  <2>8. mf1 \in Nat /\ mf1 >= mf /\ mf1 >= f
    <3>1. mf \in Int /\ f \in Int
      BY <2>6
    <3>2. mf1 \in {mf, f} /\ mf1 >= mf /\ mf1 >= f
      BY <2>3, <3>1, SelectLargest, Zenon
    <3>. QED BY <2>6, <3>2
  <2>9. DueOf(d, -1, r, i, m1) = DueOf(c, -1, r, i, m)
    <3>1. f \notin r
      BY <1>1, <1>2, <1>5 DEF SelectOk, SelectCounts
    <3>2. \A s \in 0 .. m1 : s \in SelectSlots
      BY <2>7, SizesAssumption DEF SelectSlots
    <3>3. \A s \in SelectSlots : c[s] # -1 => s <= m
      BY <1>1 DEF SelectOk
    <3>. QED BY <2>2, <2>5, <2>6, <2>7, <3>1, <3>2, <3>3, SizesAssumption DEF DueOf, SelectSlots
  <2>10. \A s \in DueOf(c, -1, r, i, m) : d[s] = c[s] /\ Speaks(peer', c[s])
    <3>1. \A s \in DueOf(c, -1, r, i, m) : s \in SelectSlots /\ c[s] \in OpenOf(Clients, peer) /\ Speaks(peer, c[s]) /\ c[s] # -1
      <4>1. i \in Nat
        BY <2>6
      <4>2. DueOf(c, -1, r, i, m) \in SUBSET SelectSlots /\ \A s \in DueOf(c, -1, r, i, m) : c[s] \in OpenOf(Clients, peer)
        BY <1>1, <4>1, SelectDue
      <4>3. \A s \in DueOf(c, -1, r, i, m) : Speaks(peer, c[s])
        BY <1>1, <1>2 DEF SelectOk, SelectCounts
      <4>4. \A s \in DueOf(c, -1, r, i, m) : c[s] # -1
        BY DEF DueOf
      <4>. QED BY <4>2, <4>3, <4>4
    <3>2. \A s \in DueOf(c, -1, r, i, m) : c[s] \in Fds \ {f} /\ s # e
      BY <1>5, <2>2, <3>1 DEF OpenOf
    <3>. QED BY <1>5, <2>5, <3>1, <3>2
  <2>11. n = Cardinality(DueOf(c, -1, r, i, m)) + 1 /\ Cardinality(DueOf(c, -1, r, i, m)) \in Nat
    BY <1>1, <1>2, <2>6, SelectDue DEF SelectOk, SelectCounts
  <2>12. SelectCounts(peer', IF n = 1 THEN "select" ELSE "scan", d, m1, a \cup {f}, r, n - 1, i)
    BY <2>9, <2>10, <2>11 DEF SelectCounts
  <2>13. \A s \in SelectSlots : d[s] # -1 => s <= m1
    BY <1>1, <2>2, <2>5, <2>6, <2>7, SizesAssumption DEF SelectOk, SelectSlots
  <2>14. \A g \in OpenOf(Clients, peer') : g <= mf1
    BY <1>1, <1>5, <2>6, <2>8, SmallFds DEF SelectOk, OpenOf
  <2>15. a \cup {f} = {Listener} \cup OpenOf(Clients, peer') /\ Listener <= mf1
    BY <1>1, <1>5, <2>6, <2>8, SmallFds DEF SelectOk
  <2>16. OpenOf(Clients, peer') \subseteq 2 .. FD_SETSIZE - 1
    BY <1>1, <1>5, <1>9, <2>6, SmallFds, SizesAssumption DEF SelectOk
  <2>17. SelectOk(peer', IF n = 1 THEN "select" ELSE "scan", d, m1, mf1, a \cup {f}, r, n - 1, i)
    BY <2>5, <2>6, <2>7, <2>8, <2>12, <2>13, <2>14, <2>15, <2>16 DEF SelectOk
  <2>. QED BY <1>5, <2>4, <2>17 DEF SelectInv
<1>. QED BY <1>8, <1>9

\* What read returns for a descriptor that has something to read.
LEMMA SelectReads ==
  ASSUME KernelOk(Clients, peer), NEW f \in OpenOf(Clients, peer), Speaks(peer, f)
  PROVE  Select!ReadResult(f) \in {"data", "error", "end"}
<1>1. peer.peer[f] # "none"
  BY Strangers DEF OpenOf
<1>. QED BY <1>1 DEF Speaks, Select!ReadResult, Select!Closed, Select!None

\* The scan goes on behind element s, which is handled, and maybe free.
LEMMA SelectGoesOn ==
  ASSUME NEW c, NEW m, NEW mf, NEW a, NEW r, NEW n, NEW i, SelectOk(peer, "scan", c, m, mf, a, r, n, i), KernelOk(Clients, peer),
         NEW s \in DueOf(c, -1, r, i, m), \A t \in DueOf(c, -1, r, i, m) : s <= t,
         NEW p, NEW d, NEW b,
         \/ d = c /\ b = a /\ OpenOf(Clients, p) = OpenOf(Clients, peer)
         \/ d = [c EXCEPT ![s] = -1] /\ b = a \ {c[s]} /\ OpenOf(Clients, p) = OpenOf(Clients, peer) \ {c[s]},
         \A g \in Fds \ {c[s]} : Speaks(peer, g) => Speaks(p, g)
  PROVE  SelectOk(p, IF n = 1 THEN "select" ELSE "scan", d, m, mf, b, r, n - 1, s + 1)
<1>1. i \in Nat /\ m \in Int /\ n \in Int /\ n = Cardinality(DueOf(c, -1, r, i, m))
  BY DEF SelectOk, SelectCounts
<1>2. PICK due : due = DueOf(c, -1, r, i, m)
  OBVIOUS
<1>3. due \in SUBSET SelectSlots /\ due \in SUBSET Nat /\ IsFiniteSet(due) /\ \A t \in due : c[t] \in OpenOf(Clients, peer)
  BY <1>1, <1>2, SelectDue
<1>4. s \in SelectSlots /\ s \in Nat /\ c[s] # -1 /\ c[s] \in OpenOf(Clients, peer) /\ c[s] # Listener
  BY <1>2, <1>3, OpenFacts DEF DueOf
<1>5. Table(SelectSlots, c, -1, OpenOf(Clients, peer))
  BY DEF SelectOk
<1>6. Table(SelectSlots, d, -1, OpenOf(Clients, p)) /\ (\A t \in SelectSlots \ {s} : d[t] = c[t]) /\ d[s] \in {c[s], -1}
  <2>1. CASE d = c /\ OpenOf(Clients, p) = OpenOf(Clients, peer)
    BY <1>5, <2>1
  <2>2. CASE d = [c EXCEPT ![s] = -1] /\ OpenOf(Clients, p) = OpenOf(Clients, peer) \ {c[s]}
    <3>1. Table(SelectSlots, d, -1, OpenOf(Clients, peer) \ {c[s]}) /\ d[s] = -1 /\ \A t \in SelectSlots \ {s} : d[t] = c[t]
      <4>1. Changed(SelectSlots, c, s, -1, d)
        BY <1>4, <1>5, <2>2, TableChanges
      <4>2. Table(SelectSlots, d, -1, OpenOf(Clients, peer) \ {c[s]})
        BY <1>4, <1>5, <4>1, TableDrops
      <4>. QED BY <4>1, <4>2 DEF Changed
    <3>. QED BY <2>2, <3>1
  <2>. QED BY <2>1, <2>2
<1>7. b = {Listener} \cup OpenOf(Clients, p) /\ OpenOf(Clients, p) \subseteq OpenOf(Clients, peer)
  BY <1>4 DEF SelectOk
<1>8. DueOf(d, -1, r, s + 1, m) = due \ {s}
  <2>1. s \in i .. m /\ \A t \in s + 1 .. m : t \in i .. m /\ t # s
    BY <1>1, <1>4 DEF DueOf
  <2>2. \A t \in i .. m : t \in SelectSlots
    BY <1>1, SizesAssumption DEF SelectSlots, SelectOk
  <2>3. \A t \in due \ {s} : t \in s + 1 .. m /\ d[t] = c[t]
    <3>1. \A t \in due : t \in i .. m /\ s <= t /\ t \in SelectSlots
      BY <1>2, <1>3 DEF DueOf
    <3>. QED BY <1>1, <1>4, <1>6, <3>1
  <2>4. ASSUME NEW t \in DueOf(d, -1, r, s + 1, m) PROVE t \in due \ {s}
    BY <1>2, <1>6, <2>1, <2>2 DEF DueOf
  <2>5. ASSUME NEW t \in due \ {s} PROVE t \in DueOf(d, -1, r, s + 1, m)
    BY <1>2, <2>3 DEF DueOf
  <2>. QED BY <2>4, <2>5
<1>9. Cardinality(due \ {s}) = n - 1 /\ n - 1 \in Nat
  <2>1. Cardinality(due \ {s}) = Cardinality(due) - 1 /\ IsFiniteSet(due \ {s})
    BY <1>2, <1>3, FS_RemoveElement
  <2>2. Cardinality(due \ {s}) \in Nat
    BY <2>1, FS_CardinalityType
  <2>. QED BY <1>1, <1>2, <2>1, <2>2
<1>10. \A t \in due \ {s} : d[t] = c[t] /\ Speaks(p, c[t])
  <2>1. \A t \in due \ {s} : t \in SelectSlots /\ c[t] # -1 /\ c[t] # c[s] /\ c[t] \in Fds
    BY <1>2, <1>3, <1>4, <1>5 DEF Table, DueOf
  <2>2. \A t \in due : Speaks(peer, c[t])
    BY <1>2 DEF SelectOk, SelectCounts
  <2>. QED BY <1>6, <2>1, <2>2
<1>11. SelectCounts(p, IF n = 1 THEN "select" ELSE "scan", d, m, b, r, n - 1, s + 1)
  BY <1>8, <1>9, <1>10 DEF SelectCounts
<1>12. \A t \in SelectSlots : d[t] # -1 => t <= m
  BY <1>4, <1>6 DEF SelectOk
<1>13. \A g \in OpenOf(Clients, p) : g <= mf
  BY <1>7 DEF SelectOk
<1>14. /\ (IF n = 1 THEN "select" ELSE "scan") \in {"select", "accept", "scan"}
       /\ n - 1 \in Int /\ s + 1 \in Nat
  BY <1>1, <1>4
<1>15. OpenOf(Clients, p) \subseteq 2 .. FD_SETSIZE - 1
  BY <1>7 DEF SelectOk
<1>16. mf \in Nat /\ Listener <= mf /\ m \in -1 .. FD_SETSIZE - 1
  BY DEF SelectOk
<1>. QED BY <1>6, <1>7, <1>11, <1>12, <1>13, <1>14, <1>15, <1>16 DEF SelectOk

LEMMA ReadClientKeepsSelectInv == SelectInv /\ Select!ReadClient => SelectInv'
<1> SUFFICES ASSUME SelectInv, Select!ReadClient PROVE SelectInv'
  OBVIOUS
<1>1. PICK w, c, m, mf, a, r, n, i : g_events = SelectServer(w, c, m, mf, a, r, n, i) /\ SelectOk(peer, w, c, m, mf, a, r, n, i)
  BY DEF SelectInv, Select!ReadClient
<1>2. KernelOk(Clients, peer) /\ w = "scan" /\ c \in [SelectSlots -> Fds \cup {-1}] /\ i \in Nat
  BY <1>1 DEF SelectInv, Select!ReadClient, SelectServer, SelectOk, Table
<1>3. PICK due : due = DueOf(c, -1, r, i, m)
  OBVIOUS
<1>4. due \in SUBSET SelectSlots /\ due \in SUBSET Nat /\ \A t \in due : c[t] \in OpenOf(Clients, peer)
  BY <1>1, <1>2, <1>3, SelectDue
<1>5. Select!Due = due
  <2>1. \A s \in i .. m : s \in SelectSlots /\ (c[s] >= 0 <=> c[s] # -1)
    <3>1. \A s \in i .. m : s \in SelectSlots
      BY <1>1, SizesAssumption DEF SelectSlots, SelectOk
    <3>. QED BY <1>2, <3>1, FreeIsNegative
  <2>2. g_events.client = c /\ g_events.rset = r /\ g_events.i = i /\ g_events.maxi = m
    BY <1>1 DEF SelectServer
  <2>. QED BY <1>3, <2>1, <2>2 DEF Select!Due, DueOf
<1>6. PICK s : s = Select!Min(due)
  OBVIOUS
<1>7. s \in due /\ \A t \in due : s <= t
  BY <1>4, <1>5, <1>6, SelectLeast DEF Select!ReadClient
<1>8. PICK f : f = c[s]
  OBVIOUS
<1>9. f \in OpenOf(Clients, peer) /\ f \in Fds \ {0, Listener} /\ Speaks(peer, f)
  BY <1>1, <1>2, <1>3, <1>4, <1>7, <1>8, OpenFacts DEF SelectOk, SelectCounts
<1>10. PICK w1 : w1 = IF n = 1 THEN "select" ELSE "scan"
  OBVIOUS
<1>11. Select!CountDown(g_events, s) = SelectServer(w1, c, m, mf, a, r, n - 1, s + 1)
  <2>1. ASSUME NEW x, x = Select!CountDown(SelectServer("scan", c, m, mf, a, r, n, i), s)
        PROVE  x = SelectServer(w1, c, m, mf, a, r, n - 1, s + 1)
    BY <1>10, <2>1 DEF Select!CountDown, SelectServer
  <2>. QED BY <1>1, <1>2, <2>1, Zenon
<1>12. Select!ReadResult(f) \in {"data", "error", "end"}
  BY <1>2, <1>9, SelectReads
<1>13. CASE Select!ReadResult(f) = "end"
  <2>1. PICK d, b : d = [c EXCEPT ![s] = -1] /\ b = a \ {f}
    OBVIOUS
  <2>2. peer' = Select!Close(f) /\ g_events' = Select!CountDown([g_events EXCEPT !.allset = @ \ {f}, !.client[s] = -1], s)
    BY <1>1, <1>5, <1>6, <1>8, <1>13 DEF Select!ReadClient, SelectServer
  <2>3. g_events' = SelectServer(w1, d, m, mf, b, r, n - 1, s + 1)
    BY <1>1, <1>2, <1>10, <2>1, <2>2 DEF Select!CountDown, SelectServer
  <2>4. /\ KernelOk(Clients, peer') /\ OpenOf(Clients, peer') = OpenOf(Clients, peer) \ {f}
        /\ \A g \in Fds \ {f} : Speaks(peer, g) => Speaks(peer', g)
    BY <1>2, <1>9, <2>2, KernelCloses, SelectNames DEF Select!Close
  <2>5. SelectOk(peer', w1, d, m, mf, b, r, n - 1, s + 1)
    BY <1>1, <1>2, <1>3, <1>7, <1>8, <1>10, <2>1, <2>4, SelectGoesOn
  <2>. QED BY <2>3, <2>4, <2>5 DEF SelectInv
<1>14. CASE Select!ReadResult(f) \in {"data", "error"}
  <2>1. peer' = Select!ReadFrom(f)
    BY <1>1, <1>5, <1>6, <1>8, <1>14 DEF Select!ReadClient, SelectServer
  <2>2. g_events' = Select!CountDown(g_events, s) \/ g_events' = [Select!CountDown(g_events, s) EXCEPT !.at = Select!CountDown(g_events, s).at]
        \/ g_events' = [Select!CountDown(g_events, s) EXCEPT !.at = "exited"]
    BY <1>1, <1>5, <1>6, <1>8, <1>14 DEF Select!ReadClient, SelectServer, Select!AfterWrite
  <2>3. /\ KernelOk(Clients, peer') /\ OpenOf(Clients, peer') = OpenOf(Clients, peer)
        /\ \A g \in Fds \ {f} : Speaks(peer, g) => Speaks(peer', g)
    BY <1>2, <1>9, <2>1, KernelReads DEF Select!ReadFrom
  <2>4. SelectOk(peer', w1, c, m, mf, a, r, n - 1, s + 1)
    BY <1>1, <1>2, <1>3, <1>7, <1>8, <1>10, <2>3, SelectGoesOn
  <2>5. g_events' = SelectServer(w1, c, m, mf, a, r, n - 1, s + 1) \/ g_events'.at = "exited"
    BY <1>11, <2>2 DEF SelectServer
  <2>. QED BY <2>3, <2>4, <2>5 DEF SelectInv
<1>. QED BY <1>12, <1>13, <1>14

LEMMA NextKeepsSelectInv == SelectInv /\ Select!Next => SelectInv'
<1>1. ASSUME SelectInv, Select!EndOfScan PROVE SelectInv'
  <2>1. PICK w, c, m, mf, a, r, n, i : g_events = SelectServer(w, c, m, mf, a, r, n, i) /\ SelectOk(peer, w, c, m, mf, a, r, n, i)
    BY <1>1 DEF SelectInv, Select!EndOfScan
  <2>2. g_events' = SelectServer("select", c, m, mf, a, r, n, i) /\ peer' = peer
    BY <1>1, <2>1 DEF Select!EndOfScan, SelectServer
  <2>3. SelectOk(peer, "select", c, m, mf, a, r, n, i)
    BY <2>1 DEF SelectOk, SelectCounts
  <2>. QED BY <1>1, <2>2, <2>3 DEF SelectInv
<1>2. ASSUME SelectInv, Select!Network PROVE SelectInv'
  <2>1. PICK k \in Clients : Select!ClientConnects(k) \/ Select!ClientSends(k) \/ Select!ClientLeaves(k)
    BY <1>2 DEF Select!Network
  <2>2. /\ KernelOk(Clients, peer') /\ OpenOf(Clients, peer') = OpenOf(Clients, peer) /\ g_events' = g_events
        /\ \A g \in Fds : Speaks(peer, g) => Speaks(peer', g)
    BY <1>2, <2>1, KernelHears DEF SelectInv, Select!Network, Select!ClientConnects, Select!ClientSends, Select!ClientLeaves
  <2>3. ASSUME NEW w, NEW c, NEW m, NEW mf, NEW a, NEW r, NEW n, NEW i, SelectOk(peer, w, c, m, mf, a, r, n, i)
        PROVE  SelectOk(peer', w, c, m, mf, a, r, n, i)
    <3>1. i \in Nat
      BY <2>3 DEF SelectOk
    <3>2. \A s \in DueOf(c, -1, r, i, m) : c[s] \in Fds
      BY <2>3, <3>1, SelectDue DEF OpenOf
    <3>3. SelectCounts(peer', w, c, m, a, r, n, i)
      BY <2>2, <2>3, <3>2 DEF SelectOk, SelectCounts
    <3>. QED BY <2>2, <2>3, <3>3 DEF SelectOk
  <2>. QED BY <1>2, <2>2, <2>3 DEF SelectInv
<1>. QED BY <1>1, <1>2, SelectKeepsInv, AcceptKeepsSelectInv, ReadClientKeepsSelectInv DEF Select!Next, Select!main

LEMMA SelectInvGives == SelectInv => Select!Bookkeeping
<1> SUFFICES ASSUME SelectInv, g_events.at \notin {"exited", "overrun"} PROVE Select!Bookkeeping
  BY DEF Select!Bookkeeping, Select!Running
<1>1. PICK w, c, m, mf, a, r, n, i : g_events = SelectServer(w, c, m, mf, a, r, n, i) /\ SelectOk(peer, w, c, m, mf, a, r, n, i)
  BY DEF SelectInv
<1>2. /\ g_events.at = w /\ g_events.client = c /\ g_events.maxi = m /\ g_events.maxfd = mf /\ g_events.allset = a
      /\ g_events.rset = r /\ g_events.nready = n /\ g_events.i = i
  BY <1>1 DEF SelectServer
<1>0. w # "full"
  BY <1>1 DEF SelectOk
<1>3. \A s \in SelectSlots : (c[s] < 0 <=> c[s] = -1) /\ (c[s] >= 0 <=> c[s] # -1)
  BY <1>1, FreeIsNegative DEF SelectOk, Table
<1>4. Select!Slots \ Select!FreeSlots = Taken(SelectSlots, c, -1)
  BY <1>2, <1>3, SelectNames DEF Select!FreeSlots, Taken
<1>5. Select!Due = DueOf(c, -1, r, i, m)
  <2>1. \A s \in i .. m : s \in SelectSlots
    BY <1>1, SizesAssumption DEF SelectSlots, SelectOk
  <2>. QED BY <1>2, <1>3, <2>1 DEF Select!Due, DueOf
<1>6. IsFiniteSet(SelectSlots)
  BY FS_Interval, SizesAssumption DEF SelectSlots
<1>7. /\ OpenOf(Clients, peer) = {c[s] : s \in Taken(SelectSlots, c, -1)}
      /\ Cardinality(OpenOf(Clients, peer)) = Cardinality(Taken(SelectSlots, c, -1))
  BY <1>1, <1>6, TableCounts DEF SelectOk
<1>8. /\ a = {Listener} \cup OpenOf(Clients, peer) /\ (\A f \in OpenOf(Clients, peer) : f <= mf)
      /\ (\A s \in Taken(SelectSlots, c, -1) : s <= m) /\ (w = "scan" => n = Cardinality(DueOf(c, -1, r, i, m)))
  BY <1>1 DEF SelectOk, SelectCounts, Taken
<1>. QED BY <1>0, <1>2, <1>4, <1>5, <1>7, <1>8, SelectNames DEF Select!Bookkeeping

-----------------------------------------------------------------------------
\* Linux_Net/02.../server.cpp

Select02Server(w, c, ca, ms, fs, i, sk, lk) ==
  [at |-> w, client_sockfd |-> c, conn_amount |-> ca, maxsock |-> ms, client_fdset |-> fs, i |-> i, sock_client |-> sk,
   leaked |-> lk]

Slots02 == 0 .. MaxConn - 1

\* Every element behind conn_amount is free; until the first recv for a new
\* client has returned, maxsock is right for the others only.
Select02Ok(p, w, c, ca, ms, fs, i, sk, lk) ==
  /\ w \in {"select", "poll", "accept", "recv", "exited"} /\ ca \in 0 .. MaxConn /\ ms \in Nat /\ i \in Nat
  /\ lk \subseteq OpenOf(Clients, p) /\ 0 \notin fs
  /\ Table(Slots02, c, 0, OpenOf(Clients, p) \ lk)
  /\ \A s \in Slots02 : s >= ca => c[s] = 0
  /\ w \notin {"recv", "exited"} => \A f \in OpenOf(Clients, p) \ lk : f <= ms
  /\ w = "recv" => sk \in OpenOf(Clients, p) \ lk /\ \A f \in (OpenOf(Clients, p) \ lk) \ {sk} : f <= ms
  /\ lk # {} => ca = MaxConn

Select02Inv ==
  /\ KernelOk(Clients, peer)
  /\ \E w, c, ca, ms, fs, i, sk, lk : /\ g_events = Select02Server(w, c, ca, ms, fs, i, sk, lk)
                                      /\ Select02Ok(peer, w, c, ca, ms, fs, i, sk, lk)

LEMMA InitSelect02Inv == Select!Init02 => Select02Inv
<1> SUFFICES ASSUME Select!Init02 PROVE Select02Inv
  OBVIOUS
<1>1. KernelOk(Clients, peer) /\ OpenOf(Clients, peer) = {}
  <2>1. peer = StartNet(Clients)
    BY SelectNames DEF Select!Init02, Select!InitNet, StartNet
  <2>. QED BY <2>1, KernelStarts
<1>2. PICK c : c = [s \in Slots02 |-> 0]
  OBVIOUS
<1>3. g_events = Select02Server("select", c, 0, Listener, {}, 0, 0, {})
  BY <1>2, SelectNames DEF Select!Init02, Select02Server, Slots02, Select!Slots02
<1>4. Select02Ok(peer, "select", c, 0, Listener, {}, 0, 0, {})
  BY <1>1, <1>2, SmallFds, SizesAssumption DEF Select02Ok, Table
<1>. QED BY <1>1, <1>3, <1>4 DEF Select02Inv

LEMMA Select02Stored ==
  ASSUME KernelOk(Clients, peer), NEW w, NEW c, NEW ca, NEW ms, NEW fs, NEW i, NEW sk, NEW lk,
         g_events = Select02Server(w, c, ca, ms, fs, i, sk, lk), Select02Ok(peer, w, c, ca, ms, fs, i, sk, lk)
  PROVE  Select!Stored = OpenOf(Clients, peer) \ lk /\ OpenOf(Clients, peer) \subseteq Fds \ {0, Listener}
<1>1. g_events.client_sockfd = c /\ Select!Slots02 = Slots02
  BY DEF Select02Server, Slots02, Select!Slots02
<1>2. OpenOf(Clients, peer) \subseteq Fds \ {0, Listener}
  BY OpenFacts
<1>. QED BY <1>1, <1>2 DEF Select!Stored, Select02Ok, Table

LEMMA RecvKeepsSelect02Inv == Select02Inv /\ Select!Recv => Select02Inv'
<1> SUFFICES ASSUME Select02Inv, Select!Recv PROVE Select02Inv'
  OBVIOUS
<1>1. PICK w, c, ca, ms, fs, i, sk, lk : /\ g_events = Select02Server(w, c, ca, ms, fs, i, sk, lk)
                                         /\ Select02Ok(peer, w, c, ca, ms, fs, i, sk, lk)
  BY DEF Select02Inv
<1>2. /\ g_events.at = w /\ g_events.client_sockfd = c /\ g_events.conn_amount = ca /\ g_events.maxsock = ms
      /\ g_events.client_fdset = fs /\ g_events.i = i /\ g_events.leaked = lk
  BY <1>1 DEF Select02Server
<1>3. KernelOk(Clients, peer) /\ w = "poll" /\ ca \in 0 .. MaxConn /\ i \in Nat
  BY <1>1, <1>2 DEF Select02Inv, Select!Recv, Select02Ok
<1>4. PICK due : due = Select!Due02
  OBVIOUS
<1>5. due \in SUBSET Nat /\ due # {} /\ \A s \in due : s \in Slots02 /\ c[s] \in fs
  BY <1>2, <1>3, <1>4, SizesAssumption DEF Select!Due02, Select!Recv, Slots02
<1>6. PICK s : s = Select!Min(due)
  OBVIOUS
<1>7. s \in Slots02 /\ s \in Nat /\ c[s] \in fs /\ c[s] # 0
  <2>1. s \in due
    BY <1>5, <1>6, SelectLeast
  <2>2. 0 \notin fs
    BY <1>1 DEF Select02Ok
  <2>. QED BY <1>5, <2>1, <2>2
<1>8. PICK f : f = c[s]
  OBVIOUS
<1>9. Table(Slots02, c, 0, OpenOf(Clients, peer) \ lk) /\ f \in OpenOf(Clients, peer) \ lk /\ f \in Fds \ {0, Listener}
  <2>1. Table(Slots02, c, 0, OpenOf(Clients, peer) \ lk)
    BY <1>1 DEF Select02Ok
  <2>2. f \in OpenOf(Clients, peer) \ lk
    BY <1>7, <1>8, <2>1 DEF Table
  <2>. QED BY <1>3, <2>1, <2>2, OpenFacts
<1>10. CASE Select!ReadResult(f) = "data"
  <2>1. peer' = Select!ReadFrom(f) /\ g_events' = [g_events EXCEPT !.i = s + 1]
    BY <1>2, <1>4, <1>6, <1>8, <1>10 DEF Select!Recv
  <2>2. g_events' = Select02Server(w, c, ca, ms, fs, s + 1, sk, lk)
    BY <1>1, <2>1 DEF Select02Server
  <2>3. KernelOk(Clients, peer') /\ OpenOf(Clients, peer') = OpenOf(Clients, peer)
    BY <1>3, <1>9, <2>1, KernelReads DEF Select!ReadFrom
  <2>4. Select02Ok(peer', w, c, ca, ms, fs, s + 1, sk, lk)
    BY <1>1, <1>7, <2>3 DEF Select02Ok
  <2>. QED BY <2>2, <2>3, <2>4 DEF Select02Inv
<1>11. CASE Select!ReadResult(f) # "data"
  <2>1. peer' = Select!Close(f) /\ g_events' = [g_events EXCEPT !.i = s + 1, !.client_fdset = @ \ {f}, !.client_sockfd[s] = 0]
    BY <1>2, <1>4, <1>6, <1>8, <1>11 DEF Select!Recv
  <2>2. PICK d : d = [c EXCEPT ![s] = 0]
    OBVIOUS
  <2>3. g_events' = Select02Server(w, d, ca, ms, fs \ {f}, s + 1, sk, lk)
    BY <1>1, <2>1, <2>2 DEF Select02Server
  <2>4. KernelOk(Clients, peer') /\ OpenOf(Clients, peer') = OpenOf(Clients, peer) \ {f}
    BY <1>3, <1>9, <2>1, KernelCloses, SelectNames DEF Select!Close
  <2>5. Changed(Slots02, c, s, 0, d)
    BY <1>7, <1>9, <2>2, TableChanges
  <2>6. Table(Slots02, d, 0, (OpenOf(Clients, peer) \ lk) \ {c[s]})
    BY <1>7, <1>9, <2>5, TableDrops
  <2>7. (OpenOf(Clients, peer) \ lk) \ {c[s]} = OpenOf(Clients, peer') \ lk /\ lk \subseteq OpenOf(Clients, peer')
    BY <1>1, <1>8, <1>9, <2>4 DEF Select02Ok
  <2>8. \A t \in Slots02 : t >= ca => d[t] = 0
    BY <1>1, <2>5 DEF Select02Ok, Changed
  <2>9. Select02Ok(peer', w, d, ca, ms, fs \ {f}, s + 1, sk, lk)
    BY <1>1, <1>3, <1>7, <2>4, <2>6, <2>7, <2>8 DEF Select02Ok
  <2>. QED BY <2>3, <2>4, <2>9 DEF Select02Inv
<1>. QED BY <1>10, <1>11

LEMMA AcceptKeepsSelect02Inv == Select02Inv /\ Select!Accept02 => Select02Inv'
<1> SUFFICES ASSUME Select02Inv, Select!Accept02 PROVE Select02Inv'
  OBVIOUS
<1>1. PICK w, c, ca, ms, fs, i, sk, lk : /\ g_events = Select02Server(w, c, ca, ms, fs, i, sk, lk)
                                         /\ Select02Ok(peer, w, c, ca, ms, fs, i, sk, lk)
  BY DEF Select02Inv
<1>2. KernelOk(Clients, peer) /\ w = "accept" /\ ca \in 0 .. MaxConn /\ i \in Nat
  <2>1. g_events.at = "accept" /\ g_events.at = w
    BY <1>1 DEF Select!Accept02, Select02Server
  <2>2. ca \in 0 .. MaxConn /\ i \in Nat
    BY <1>1 DEF Select02Ok
  <2>. QED BY <2>1, <2>2 DEF Select02Inv
<1>3. PICK f : f = Select!NewFd
  OBVIOUS
<1>4. PICK k \in peer.backlog :
        /\ Select!Accepting(k)
        /\ IF ca < MaxConn
           THEN \E at1 \in {"recv", "exited"} :
                  g_events' = Select02Server(at1, [c EXCEPT ![ca] = f], ca + 1, ms, fs, i, f, lk)
           ELSE g_events' = Select02Server("select", c, ca, ms, fs, i, sk, lk \cup {f})
  BY <1>1, <1>3 DEF Select!Accept02, Select02Server
<1>5. /\ KernelOk(Clients, peer') /\ f \in Fds \ {0, Listener} /\ f \notin OpenOf(Clients, peer)
      /\ OpenOf(Clients, peer') = OpenOf(Clients, peer) \cup {f}
  BY <1>2, <1>3, <1>4, SelectAccepts, KernelAccepts
<1>6. CASE ca < MaxConn
  <2>1. PICK d, at1 : d = [c EXCEPT ![ca] = f] /\ at1 \in {"recv", "exited"} /\ g_events' = Select02Server(at1, d, ca + 1, ms, fs, i, f, lk)
    BY <1>4, <1>6
  <2>2. ca \in Slots02 /\ c[ca] = 0 /\ lk = {} /\ Table(Slots02, c, 0, OpenOf(Clients, peer) \ lk)
    BY <1>1, <1>2, <1>6, SizesAssumption DEF Select02Ok, Slots02
  <2>3. Changed(Slots02, c, ca, f, d)
    BY <2>1, <2>2, TableChanges
  <2>4. Table(Slots02, d, 0, (OpenOf(Clients, peer) \ lk) \cup {f})
    <3>1. f \in Fds /\ f \notin OpenOf(Clients, peer) \ lk /\ f # 0
      BY <1>5
    <3>. QED BY <2>2, <2>3, <3>1, TableAdds
  <2>5. (OpenOf(Clients, peer) \ lk) \cup {f} = OpenOf(Clients, peer') \ lk
    BY <1>5, <2>2
  <2>6. \A t \in Slots02 : t >= ca + 1 => d[t] = 0
    BY <1>1, <1>2, <2>3 DEF Select02Ok, Changed, Slots02
  <2>7. Select02Ok(peer', at1, d, ca + 1, ms, fs, i, f, lk)
    BY <1>1, <1>2, <1>5, <1>6, <2>1, <2>2, <2>4, <2>5, <2>6, SizesAssumption DEF Select02Ok
  <2>. QED BY <1>5, <2>1, <2>7 DEF Select02Inv
<1>7. CASE ~(ca < MaxConn)
  <2>1. OpenOf(Clients, peer') \ (lk \cup {f}) = OpenOf(Clients, peer) \ lk
    BY <1>5
  <2>2. Select02Ok(peer', "select", c, ca, ms, fs, i, sk, lk \cup {f})
    BY <1>1, <1>2, <1>5, <1>7, <2>1, SizesAssumption DEF Select02Ok
  <2>. QED BY <1>4, <1>5, <1>7, <2>2 DEF Select02Inv
<1>. QED BY <1>6, <1>7

LEMMA RecvFirstKeepsSelect02Inv == Select02Inv /\ Select!RecvFirst => Select02Inv'
<1> SUFFICES ASSUME Select02Inv, Select!RecvFirst PROVE Select02Inv'
  OBVIOUS
<1>1. PICK w, c, ca, ms, fs, i, sk, lk : /\ g_events = Select02Server(w, c, ca, ms, fs, i, sk, lk)
                                         /\ Select02Ok(peer, w, c, ca, ms, fs, i, sk, lk)
  BY DEF Select02Inv
<1>2. KernelOk(Clients, peer) /\ w = "recv" /\ g_events.sock_client = sk /\ g_events.maxsock = ms
  BY <1>1 DEF Select02Inv, Select!RecvFirst, Select02Server
<1>3. sk \in OpenOf(Clients, peer) \ lk /\ sk \in Fds /\ sk \in Nat /\ ms \in Nat
  BY <1>1, <1>2, SmallFds DEF Select02Ok, OpenOf
<1>4. PICK ms1 : ms1 = Select!Max({ms, sk})
  OBVIOUS
<1>5. ms1 \in Nat /\ ms1 >= ms /\ ms1 >= sk
  <2>1. ms \in Int /\ sk \in Int
    BY <1>3
  <2>2. ms1 \in {ms, sk} /\ ms1 >= ms /\ ms1 >= sk
    BY <1>4, <2>1, SelectLargest, Zenon
  <2>. QED BY <1>3, <2>2
<1>6. peer' = Select!ReadFrom(sk)
      /\ \/ g_events' = Select02Server("exited", c, ca, ms, fs, i, sk, lk)
         \/ g_events' = Select02Server("select", c, ca, ms1, fs, i, sk, lk)
  BY <1>1, <1>2, <1>4 DEF Select!RecvFirst, Select02Server
<1>7. KernelOk(Clients, peer') /\ OpenOf(Clients, peer') = OpenOf(Clients, peer)
  BY <1>2, <1>3, <1>6, KernelReads DEF Select!ReadFrom
<1>8. Select02Ok(peer', "exited", c, ca, ms, fs, i, sk, lk)
  BY <1>1, <1>7 DEF Select02Ok
<1>9. \A f \in OpenOf(Clients, peer) \ lk : f <= ms1
  BY <1>1, <1>2, <1>3, <1>5, SmallFds DEF Select02Ok, OpenOf
<1>10. Select02Ok(peer', "select", c, ca, ms1, fs, i, sk, lk)
  BY <1>1, <1>5, <1>7, <1>9 DEF Select02Ok
<1>. QED BY <1>6, <1>7, <1>8, <1>10 DEF Select02Inv

LEMMA NextKeepsSelect02Inv == Select02Inv /\ Select!Next02 => Select02Inv'
<1> SUFFICES ASSUME Select02Inv, Select!Next02 PROVE Select02Inv'
  OBVIOUS
<1>1. PICK w, c, ca, ms, fs, i, sk, lk : /\ g_events = Select02Server(w, c, ca, ms, fs, i, sk, lk)
                                         /\ Select02Ok(peer, w, c, ca, ms, fs, i, sk, lk)
  BY DEF Select02Inv
<1>2. KernelOk(Clients, peer) /\ g_events.at = w /\ OpenOf(Clients, peer) \subseteq Fds \ {0, Listener}
  BY <1>1, OpenFacts DEF Select02Inv, Select02Server
<1>3. CASE Select!Select02
  <2>1. PICK ready : ready = {f \in {Listener} \cup Select!Stored : f <= g_events.maxsock /\ Select!Readable(f)}
    OBVIOUS
  <2>2. 0 \notin ready
    BY <1>1, <1>2, <2>1, Select02Stored, SmallFds
  <2>3. g_events' = Select02Server("poll", c, ca, ms, ready, 0, sk, lk) /\ peer' = peer
    BY <1>1, <1>3, <2>1, SelectNames DEF Select!Select02, Select02Server
  <2>4. Select02Ok(peer, "poll", c, ca, ms, ready, 0, sk, lk)
    BY <1>1, <1>2, <1>3, <2>2 DEF Select02Ok, Select!Select02
  <2>. QED BY <1>2, <2>3, <2>4 DEF Select02Inv
<1>4. CASE Select!Polled \/ Select!AcceptFails
  <2>1. w \in {"poll", "accept"}
    BY <1>2, <1>4 DEF Select!Polled, Select!AcceptFails
  <2>2. PICK at1 \in {"accept", "select"} : g_events' = Select02Server(at1, c, ca, ms, fs, i, sk, lk) /\ peer' = peer
    BY <1>1, <1>4 DEF Select!Polled, Select!AcceptFails, Select02Server
  <2>3. Select02Ok(peer, at1, c, ca, ms, fs, i, sk, lk)
    BY <1>1, <2>1 DEF Select02Ok
  <2>. QED BY <1>2, <2>2, <2>3 DEF Select02Inv
<1>5. CASE Select!Network
  <2>1. PICK k \in Clients : Select!ClientConnects(k) \/ Select!ClientSends(k) \/ Select!ClientLeaves(k)
    BY <1>5 DEF Select!Network
  <2>2. KernelOk(Clients, peer') /\ OpenOf(Clients, peer') = OpenOf(Clients, peer) /\ g_events' = g_events
    BY <1>2, <1>5, <2>1, KernelHears DEF Select!Network, Select!ClientConnects, Select!ClientSends, Select!ClientLeaves
  <2>3. Select02Ok(peer', w, c, ca, ms, fs, i, sk, lk)
    BY <1>1, <2>2 DEF Select02Ok
  <2>. QED BY <1>1, <2>2, <2>3 DEF Select02Inv
<1>. QED BY <1>3, <1>4, <1>5, RecvKeepsSelect02Inv, AcceptKeepsSelect02Inv, RecvFirstKeepsSelect02Inv DEF Select!Next02, Select!main02

LEMMA Select02InvGives == Select02Inv => Select!Bookkeeping02
<1> SUFFICES ASSUME Select02Inv PROVE Select!Bookkeeping02
  OBVIOUS
<1>1. PICK w, c, ca, ms, fs, i, sk, lk : /\ g_events = Select02Server(w, c, ca, ms, fs, i, sk, lk)
                                         /\ Select02Ok(peer, w, c, ca, ms, fs, i, sk, lk)
  BY DEF Select02Inv
<1>2. /\ g_events.at = w /\ g_events.client_sockfd = c /\ g_events.conn_amount = ca /\ g_events.maxsock = ms
      /\ g_events.leaked = lk /\ Select!Slots02 = Slots02 /\ KernelOk(Clients, peer)
  BY <1>1 DEF Select02Server, Select02Inv, Select!Slots02, Slots02
<1>3. Select!Stored = OpenOf(Clients, peer) \ lk /\ lk \subseteq OpenOf(Clients, peer)
  <2>1. lk \subseteq OpenOf(Clients, peer)
    BY <1>1 DEF Select02Ok
  <2>. QED BY <1>1, <1>2, <2>1, Select02Stored
<1>4. IsFiniteSet(Slots02)
  BY FS_Interval, SizesAssumption DEF Slots02
<1>5. Cardinality(Select!Stored) = Cardinality({s \in Slots02 : c[s] # 0})
  BY <1>1, <1>3, <1>4, TableCounts DEF Select02Ok, Taken
<1>6. Select!Open = Select!Stored \cup lk /\ Select!Stored \cap lk = {}
  BY <1>3, SelectNames
<1>7. /\ w \notin {"recv", "exited"} => \A f \in Select!Stored : f <= ms
      /\ lk # {} => ca = MaxConn
  BY <1>1, <1>3 DEF Select02Ok
<1>. QED BY <1>2, <1>5, <1>6, <1>7, SelectNames DEF Select!Bookkeeping02

-----------------------------------------------------------------------------
\* poll_conncurrent/server.c

PollServer(w, c, rv, m, n, i) == [at |-> w, fd |-> c, revents |-> rv, maxi |-> m, nready |-> n, i |-> i]

PollSlots == 1 .. OPEN_MAX - 1

\* Before the accept poll has written the revents of every element up to maxi;
\* after it, of every element before maxi.
PollOk(p, w, c, rv, m, n, i) ==
  /\ w \in {"poll", "accept", "scan"} /\ n \in Int /\ i \in Nat \ {0} /\ m \in Nat /\ (m = 0 \/ m \in PollSlots)
  /\ Table(PollSlots, c, -1, OpenOf(Clients, p))
  /\ \A s \in PollSlots : c[s] # -1 => s <= m
  /\ w = "accept" => \A s \in rv : s <= m => s \in PollSlots /\ c[s] # -1 /\ Speaks(p, c[s])
  /\ w = "scan" => \A s \in rv : s \in PollSlots /\ i <= s /\ s < m /\ c[s] # -1 => Speaks(p, c[s])
  /\ rv \in SUBSET PollSlots

PollInv ==
  /\ KernelOk(Clients, peer)
  /\ \/ g_events.at = "exited"
     \/ \E w, c, rv, m, n, i : g_events = PollServer(w, c, rv, m, n, i) /\ PollOk(peer, w, c, rv, m, n, i)

LEMMA PollNames ==
  /\ Poll!Fds = Fds /\ Poll!Listener = Listener /\ Poll!None = None /\ Poll!Slots = PollSlots
  /\ Poll!Open = OpenOf(Clients, peer)
  /\ \A S : Poll!Cardinality(S) = Cardinality(S)
BY DEF Poll!Fds, Fds, Reactor01!Fds, Poll!Listener, Listener, Reactor01!Listener, Poll!None, None, Reactor01!None,
       Poll!Slots, PollSlots, Poll!Open, OpenOf, Poll!Cardinality, Cardinality

LEMMA PollLeast ==
  ASSUME NEW S \in SUBSET Nat, S # {}
  PROVE  Poll!Min(S) \in S /\ \A y \in S : Poll!Min(S) <= y
BY LeastExists DEF Poll!Min

LEMMA PollLargest ==
  ASSUME NEW a \in Int, NEW b \in Int
  PROVE  Poll!Max({a, b}) \in {a, b} /\ Poll!Max({a, b}) >= a /\ Poll!Max({a, b}) >= b
<1>1. \E x \in {a, b} : \A y \in {a, b} : x >= y
  OBVIOUS
<1>. QED BY <1>1 DEF Poll!Max

LEMMA PollAccepts ==
  ASSUME KernelOk(Clients, peer), NEW k \in peer.backlog, Poll!Accepting(k)
  PROVE  /\ Poll!NewFd \in Fds /\ peer.peer[Poll!NewFd] = None
         /\ peer' = [peer EXCEPT !.backlog = @ \ {k}, !.peer[Poll!NewFd] = k]
<1>1. PICK S : S = {f \in Fds : peer.peer[f] = None}
  OBVIOUS
<1>2. S \in SUBSET Nat /\ S # {} /\ Poll!NewFd = Poll!Min(S)
  BY <1>1, PollNames, SmallFds DEF Poll!Accepting, Poll!NewFd, Poll!Closed
<1>3. Poll!NewFd \in S
  BY <1>2, PollLeast
<1>. QED BY <1>1, <1>3 DEF Poll!Accepting, Poll!Accepted

LEMMA PollReads ==
  ASSUME KernelOk(Clients, peer), NEW f \in OpenOf(Clients, peer), Speaks(peer, f)
  PROVE  Poll!ReadResult(f) \in {"data", "error", "end"}
<1>1. peer.peer[f] # "none"
  BY Strangers DEF OpenOf
<1>. QED BY <1>1 DEF Speaks, Poll!ReadResult, Poll!Closed, Poll!None

LEMMA InitPollInv == Poll!Init => PollInv
<1> SUFFICES ASSUME Poll!Init PROVE PollInv
  OBVIOUS
<1>1. KernelOk(Clients, peer) /\ OpenOf(Clients, peer) = {}
  <2>1. peer = StartNet(Clients)
    BY PollNames DEF Poll!Init, Poll!InitNet, StartNet
  <2>. QED BY <2>1, KernelStarts
<1>2. PICK c : c = [s \in PollSlots |-> -1]
  OBVIOUS
<1>3. PICK stack \in SUBSET PollSlots : g_events = PollServer("poll", c, stack, 0, 0, 1)
  BY <1>2, PollNames DEF Poll!Init, PollServer
<1>4. PollOk(peer, "poll", c, stack, 0, 0, 1)
  BY <1>1, <1>2, <1>3, SmallFds DEF PollOk, Table
<1>. QED BY <1>1, <1>3, <1>4 DEF PollInv

LEMMA PollKeepsInv == PollInv /\ Poll!Poll => PollInv'
<1> SUFFICES ASSUME PollInv, Poll!Poll PROVE PollInv'
  OBVIOUS
<1>1. PICK w, c, rv, m, n, i : g_events = PollServer(w, c, rv, m, n, i) /\ PollOk(peer, w, c, rv, m, n, i)
  BY DEF PollInv, Poll!Poll
<1>2. KernelOk(Clients, peer) /\ OpenOf(Clients, peer) \subseteq Fds \ {0, Listener}
  BY OpenFacts DEF PollInv
<1>3. PICK ready : ready = {s \in 1 .. m : c[s] >= 0 /\ Poll!Readable(c[s])}
  OBVIOUS
<1>4. PICK rv1 : rv1 = ready \cup {s \in rv : s > m}
  OBVIOUS
<1>5. PICK n1, at1 : g_events' = PollServer(at1, c, rv1, m, n1, 1) /\ at1 \in {"accept", "scan"} /\ n1 = Cardinality(ready) + (IF Poll!Readable(Listener) THEN 1 ELSE 0)
                     /\ peer' = peer
  BY <1>1, <1>3, <1>4, PollNames DEF Poll!Poll, PollServer
<1>6. m \in Nat /\ (m = 0 \/ m \in PollSlots) /\ c \in [PollSlots -> Fds \cup {-1}] /\ rv \in SUBSET PollSlots
      /\ Table(PollSlots, c, -1, OpenOf(Clients, peer))
  BY <1>1 DEF PollOk, Table
<1>7. n1 \in Int
  <2>1. ready \in SUBSET (1 .. m) /\ IsFiniteSet(1 .. m)
    BY <1>3, <1>6, FS_Interval
  <2>2. Cardinality(ready) \in Nat
    BY <2>1, FS_Subset, FS_CardinalityType
  <2>. QED BY <1>5, <2>2
<1>8. \A s \in 1 .. m : s \in PollSlots
  BY <1>6, SizesAssumption DEF PollSlots
<1>9. \A s \in ready : s \in PollSlots /\ s <= m /\ c[s] # -1 /\ Speaks(peer, c[s])
  <2>1. \A s \in ready : s \in PollSlots /\ s <= m /\ c[s] # -1 /\ Poll!Readable(c[s])
    BY <1>3, <1>6, <1>8, FreeIsNegative
  <2>2. \A s \in ready : c[s] \in OpenOf(Clients, peer)
    BY <1>6, <2>1 DEF Table
  <2>. QED BY <1>2, <2>1, <2>2, PollNames DEF Poll!Readable, Speaks
<1>10. rv1 \in SUBSET PollSlots /\ \A s \in rv1 : s <= m => s \in ready
  <2>1. rv1 \in SUBSET PollSlots
    BY <1>4, <1>6, <1>9
  <2>2. ASSUME NEW s \in rv1, s <= m, s \notin ready PROVE FALSE
    <3>1. s > m /\ s \in Nat
      BY <1>4, <2>1, <2>2, SizesAssumption DEF PollSlots
    <3>. QED BY ONLY <1>6, <2>2, <3>1
  <2>. QED BY <2>1, <2>2
<1>11. PollOk(peer, at1, c, rv1, m, n1, 1)
  BY <1>1, <1>5, <1>6, <1>7, <1>9, <1>10, SizesAssumption DEF PollOk, PollSlots
<1>. QED BY <1>2, <1>5, <1>11 DEF PollInv

LEMMA AcceptKeepsPollInv == PollInv /\ Poll!Accept => PollInv'
<1> SUFFICES ASSUME PollInv, Poll!Accept PROVE PollInv'
  OBVIOUS
<1>1. PICK w, c, rv, m, n, i : g_events = PollServer(w, c, rv, m, n, i) /\ PollOk(peer, w, c, rv, m, n, i)
  BY DEF PollInv, Poll!Accept
<1>2. KernelOk(Clients, peer) /\ w = "accept" /\ g_events.fd = c
  BY <1>1 DEF PollInv, Poll!Accept, PollServer
<1>3. PICK k \in peer.backlog : Poll!Accepting(k)
  BY DEF Poll!Accept
<1>4. PICK f : f = Poll!NewFd
  OBVIOUS
<1>5. /\ KernelOk(Clients, peer') /\ f \in Fds \ {0, Listener} /\ f \notin OpenOf(Clients, peer)
      /\ OpenOf(Clients, peer') = OpenOf(Clients, peer) \cup {f}
      /\ \A g \in Fds \ {f} : Speaks(peer, g) <=> Speaks(peer', g)
  BY <1>2, <1>3, <1>4, PollAccepts, KernelAccepts
<1>6. m \in Nat /\ (m = 0 \/ m \in PollSlots) /\ c \in [PollSlots -> Fds \cup {-1}] /\ rv \in SUBSET PollSlots
      /\ Table(PollSlots, c, -1, OpenOf(Clients, peer)) /\ n \in Int /\ i \in Nat \ {0}
      /\ (\A s \in rv : s <= m => s \in PollSlots /\ c[s] # -1 /\ Speaks(peer, c[s]))
      /\ (\A s \in PollSlots : c[s] # -1 => s <= m)
  BY <1>1, <1>2 DEF PollOk, Table
<1>7. Poll!Free = {s \in PollSlots : c[s] = -1}
  BY <1>2, <1>6, FreeIsNegative, PollNames DEF Poll!Free
<1>8. CASE Poll!Free = {}
  <2>1. g_events'.at = "exited"
    BY <1>1, <1>8 DEF Poll!Accept, PollServer
  <2>. QED BY <1>5, <2>1 DEF PollInv
<1>9. CASE Poll!Free # {}
  <2>1. PICK e, S : e = Poll!Min(S) /\ S = Poll!Free
    OBVIOUS
  <2>2. e \in PollSlots /\ c[e] = -1 /\ e \in Nat
    <3>1. S \in SUBSET Nat /\ S # {}
      BY <1>7, <1>9, <2>1, SizesAssumption DEF PollSlots
    <3>. QED BY <1>7, <2>1, <3>1, PollLeast
  <2>3. PICK d, m1, w1 : d = [c EXCEPT ![e] = f] /\ m1 = Poll!Max({m, e}) /\ w1 = IF n <= 1 THEN "poll" ELSE "scan"
    OBVIOUS
  <2>4. g_events' = PollServer(w1, d, rv, m1, n - 1, i)
    BY <1>1, <1>4, <1>9, <2>1, <2>3 DEF Poll!Accept, PollServer
  <2>5. Changed(PollSlots, c, e, f, d)
    BY <1>6, <2>2, <2>3, TableChanges
  <2>6. Table(PollSlots, d, -1, OpenOf(Clients, peer'))
    <3>1. f \in Fds /\ f \notin OpenOf(Clients, peer) /\ f # -1
      BY <1>5, SmallFds
    <3>. QED BY <1>5, <1>6, <2>2, <2>5, <3>1, TableAdds
  <2>7. m1 \in Nat /\ m1 \in PollSlots /\ m1 \in {m, e} /\ m1 >= m /\ m1 >= e
    <3>1. m \in Int /\ e \in Int
      BY <1>6, <2>2
    <3>2. m1 \in {m, e} /\ m1 >= m /\ m1 >= e
      BY <2>3, <3>1, PollLargest, Zenon
    <3>. QED BY <1>6, <2>2, <3>2, SizesAssumption DEF PollSlots
  <2>8. \A s \in PollSlots : d[s] # -1 => s <= m1
    BY <1>6, <2>2, <2>5, <2>7, SizesAssumption DEF Changed, PollSlots
  <2>9. ASSUME NEW s \in rv, s \in PollSlots, i <= s, s < m1, d[s] # -1 PROVE Speaks(peer', d[s])
    <3>1. s # e
      <4>1. CASE e <= m
        BY <1>6, <2>2, <4>1
      <4>2. CASE ~(e <= m)
        BY <1>6, <2>2, <2>7, <2>9, <4>2
      <4>. QED BY <4>1, <4>2
    <3>2. d[s] = c[s] /\ s <= m
      BY <1>6, <2>5, <2>9, <3>1 DEF Changed
    <3>3. c[s] \in OpenOf(Clients, peer) /\ Speaks(peer, c[s])
      BY <1>6, <2>9, <3>2 DEF Table
    <3>4. c[s] \in Fds \ {f}
      BY <1>5, <3>3 DEF OpenOf
    <3>. QED BY <1>5, <3>2, <3>3, <3>4
  <2>10. PollOk(peer', w1, d, rv, m1, n - 1, i)
    BY <1>6, <2>3, <2>6, <2>7, <2>8, <2>9 DEF PollOk
  <2>. QED BY <1>5, <2>4, <2>10 DEF PollInv
<1>. QED BY <1>8, <1>9

\* Elements before s are done with, s is handled and maybe free.
LEMMA PollGoesOn ==
  ASSUME NEW c, NEW rv, NEW m, NEW n, NEW i, PollOk(peer, "scan", c, rv, m, n, i), KernelOk(Clients, peer),
         NEW s \in PollSlots, i <= s, c[s] # -1, NEW p, NEW d, NEW w1 \in {"poll", "scan"},
         \/ d = c /\ OpenOf(Clients, p) = OpenOf(Clients, peer)
         \/ d = [c EXCEPT ![s] = -1] /\ OpenOf(Clients, p) = OpenOf(Clients, peer) \ {c[s]},
         \A g \in Fds \ {c[s]} : Speaks(peer, g) => Speaks(p, g)
  PROVE  PollOk(p, w1, d, rv, m, n - 1, s + 1)
<1>1. Table(PollSlots, c, -1, OpenOf(Clients, peer)) /\ s \in Nat \ {0} /\ i \in Nat /\ n \in Int
  BY SizesAssumption DEF PollOk, PollSlots
<1>2. Table(PollSlots, d, -1, OpenOf(Clients, p)) /\ (\A t \in PollSlots \ {s} : d[t] = c[t]) /\ d[s] \in {c[s], -1}
  <2>1. CASE d = c /\ OpenOf(Clients, p) = OpenOf(Clients, peer)
    BY <1>1, <2>1
  <2>2. CASE d = [c EXCEPT ![s] = -1] /\ OpenOf(Clients, p) = OpenOf(Clients, peer) \ {c[s]}
    <3>1. Changed(PollSlots, c, s, -1, d)
      BY <1>1, <2>2, TableChanges
    <3>2. Table(PollSlots, d, -1, OpenOf(Clients, peer) \ {c[s]})
      BY <1>1, <3>1, TableDrops
    <3>. QED BY <2>2, <3>1, <3>2 DEF Changed
  <2>. QED BY <2>1, <2>2
<1>3. ASSUME NEW t \in rv, t \in PollSlots, s + 1 <= t, t < m, d[t] # -1 PROVE Speaks(p, d[t])
  <2>0. t \in Nat
    BY <1>3, SizesAssumption DEF PollSlots
  <2>1. t # s /\ i <= t
    BY <1>1, <1>3, <2>0
  <2>2. d[t] = c[t] /\ c[t] \in Fds \ {c[s]}
    BY <1>1, <1>2, <1>3, <2>1 DEF Table
  <2>3. Speaks(peer, c[t])
    BY <1>3, <2>1, <2>2 DEF PollOk
  <2>. QED BY <2>2, <2>3
<1>4. \A t \in PollSlots : d[t] # -1 => t <= m
  BY <1>2 DEF PollOk
<1>5. rv \in SUBSET PollSlots /\ m \in Nat /\ (m = 0 \/ m \in PollSlots)
  BY DEF PollOk
<1>. QED BY <1>1, <1>2, <1>3, <1>4, <1>5 DEF PollOk

LEMMA ReadClientKeepsPollInv == PollInv /\ Poll!ReadClient => PollInv'
<1> SUFFICES ASSUME PollInv, Poll!ReadClient PROVE PollInv'
  OBVIOUS
<1>1. PICK w, c, rv, m, n, i : g_events = PollServer(w, c, rv, m, n, i) /\ PollOk(peer, w, c, rv, m, n, i)
  BY DEF PollInv, Poll!ReadClient
<1>2. KernelOk(Clients, peer) /\ w = "scan" /\ g_events.fd = c /\ g_events.i = i /\ g_events.maxi = m /\ g_events.revents = rv
  BY <1>1 DEF PollInv, Poll!ReadClient, PollServer
<1>3. Table(PollSlots, c, -1, OpenOf(Clients, peer)) /\ i \in Nat \ {0} /\ m \in Nat /\ rv \in SUBSET PollSlots
      /\ c \in [PollSlots -> Fds \cup {-1}]
  BY <1>1 DEF PollOk, Table
<1>4. PICK S : S = Poll!Due
  OBVIOUS
<1>5. S \in SUBSET Nat /\ S # {} /\ \A s \in S : s \in PollSlots /\ i <= s /\ c[s] # -1
  BY <1>2, <1>3, <1>4, FreeIsNegative DEF Poll!Due, Poll!ReadClient
<1>6. PICK s : s = Poll!Min(S)
  OBVIOUS
<1>7. s \in PollSlots /\ i <= s /\ c[s] # -1
  BY <1>5, <1>6, PollLeast
<1>8. PICK f : f = c[s]
  OBVIOUS
<1>9. f \in OpenOf(Clients, peer) /\ f \in Fds \ {0, Listener}
  BY <1>2, <1>3, <1>7, <1>8, OpenFacts DEF Table
<1>10. PICK w1 : w1 = IF n <= 1 THEN "poll" ELSE "scan"
  OBVIOUS
<1>11. Poll!Handled(s) = PollServer(w1, c, rv, m, n - 1, s + 1)
  <2>1. ASSUME NEW x, x = Poll!Handled(s) PROVE x = PollServer(w1, c, rv, m, n - 1, s + 1)
    BY <1>1, <1>2, <1>10, <2>1 DEF Poll!Handled, PollServer
  <2>. QED BY <2>1, Zenon
<1>12. CASE Poll!ReadResult(f) = "data"
  <2>1. peer' = Poll!ReadFrom(f)
        /\ (g_events' = [Poll!Handled(s) EXCEPT !.at = Poll!Handled(s).at] \/ g_events' = [Poll!Handled(s) EXCEPT !.at = "exited"])
    BY <1>2, <1>4, <1>6, <1>8, <1>12 DEF Poll!ReadClient, Poll!AfterWrite
  <2>2. g_events' = PollServer(w1, c, rv, m, n - 1, s + 1) \/ g_events'.at = "exited"
    BY <1>11, <2>1 DEF PollServer
  <2>3. /\ KernelOk(Clients, peer') /\ OpenOf(Clients, peer') = OpenOf(Clients, peer)
        /\ \A g \in Fds \ {f} : Speaks(peer, g) => Speaks(peer', g)
    BY <1>2, <1>9, <2>1, KernelReads DEF Poll!ReadFrom
  <2>4. PollOk(peer', w1, c, rv, m, n - 1, s + 1)
    BY <1>1, <1>2, <1>7, <1>8, <1>10, <2>3, PollGoesOn
  <2>. QED BY <2>2, <2>3, <2>4 DEF PollInv
<1>13. CASE Poll!ReadResult(f) # "data"
  <2>1. peer' = Poll!Close(f) /\ (g_events' = [Poll!Handled(s) EXCEPT !.fd[s] = -1] \/ g_events' = [g_events EXCEPT !.at = "exited"])
    BY <1>2, <1>4, <1>6, <1>8, <1>13 DEF Poll!ReadClient
  <2>2. PICK d : d = [c EXCEPT ![s] = -1]
    OBVIOUS
  <2>3. g_events' = PollServer(w1, d, rv, m, n - 1, s + 1) \/ g_events'.at = "exited"
    BY <1>1, <1>11, <2>1, <2>2 DEF PollServer
  <2>4. /\ KernelOk(Clients, peer') /\ OpenOf(Clients, peer') = OpenOf(Clients, peer) \ {f}
        /\ \A g \in Fds \ {f} : Speaks(peer, g) => Speaks(peer', g)
    BY <1>2, <1>9, <2>1, KernelCloses, PollNames DEF Poll!Close
  <2>5. PollOk(peer', w1, d, rv, m, n - 1, s + 1)
    BY <1>1, <1>2, <1>7, <1>8, <1>10, <2>2, <2>4, PollGoesOn
  <2>. QED BY <2>3, <2>4, <2>5 DEF PollInv
<1>. QED BY <1>12, <1>13

LEMMA NextKeepsPollInv == PollInv /\ Poll!Next => PollInv'
<1>1. ASSUME PollInv, Poll!EndOfScan PROVE PollInv'
  <2>1. PICK w, c, rv, m, n, i : g_events = PollServer(w, c, rv, m, n, i) /\ PollOk(peer, w, c, rv, m, n, i)
    BY <1>1 DEF PollInv, Poll!EndOfScan
  <2>2. g_events' = PollServer("poll", c, rv, m, n, i) /\ peer' = peer
    BY <1>1, <2>1 DEF Poll!EndOfScan, PollServer
  <2>3. PollOk(peer, "poll", c, rv, m, n, i)
    BY <2>1 DEF PollOk
  <2>. QED BY <1>1, <2>2, <2>3 DEF PollInv
<1>2. ASSUME PollInv, Poll!Network PROVE PollInv'
  <2>1. PICK k \in Clients : Poll!ClientConnects(k) \/ Poll!ClientSends(k) \/ Poll!ClientLeaves(k)
    BY <1>2 DEF Poll!Network
  <2>2. /\ KernelOk(Clients, peer') /\ OpenOf(Clients, peer') = OpenOf(Clients, peer) /\ g_events' = g_events
        /\ \A g \in Fds : Speaks(peer, g) => Speaks(peer', g)
    BY <1>2, <2>1, KernelHears DEF PollInv, Poll!Network, Poll!ClientConnects, Poll!ClientSends, Poll!ClientLeaves
  <2>3. ASSUME NEW w, NEW c, NEW rv, NEW m, NEW n, NEW i, PollOk(peer, w, c, rv, m, n, i)
        PROVE  PollOk(peer', w, c, rv, m, n, i)
    <3>1. \A s \in PollSlots : c[s] # -1 => c[s] \in Fds
      BY <2>3 DEF PollOk, Table
    <3>. QED BY <2>2, <2>3, <3>1 DEF PollOk
  <2>. QED BY <1>2, <2>2, <2>3 DEF PollInv
<1>. QED BY <1>1, <1>2, PollKeepsInv, AcceptKeepsPollInv, ReadClientKeepsPollInv DEF Poll!Next, Poll!main

LEMMA PollInvGives == PollInv => Poll!Bookkeeping
<1> SUFFICES ASSUME PollInv, g_events.at # "exited" PROVE Poll!Bookkeeping
  BY DEF Poll!Bookkeeping
<1>1. PICK w, c, rv, m, n, i : g_events = PollServer(w, c, rv, m, n, i) /\ PollOk(peer, w, c, rv, m, n, i)
  BY DEF PollInv
<1>2. /\ g_events.at = w /\ g_events.fd = c /\ g_events.i = i /\ g_events.maxi = m /\ g_events.revents = rv
      /\ KernelOk(Clients, peer)
  BY <1>1 DEF PollServer, PollInv
<1>3. Table(PollSlots, c, -1, OpenOf(Clients, peer)) /\ i \in Nat \ {0} /\ m \in Nat /\ rv \in SUBSET PollSlots
      /\ c \in [PollSlots -> Fds \cup {-1}]
  BY <1>1 DEF PollOk, Table
<1>4. Poll!Slots \ Poll!Free = Taken(PollSlots, c, -1)
  BY <1>2, <1>3, FreeIsNegative, PollNames DEF Poll!Free, Taken
<1>5. IsFiniteSet(PollSlots)
  BY FS_Interval, SizesAssumption DEF PollSlots
<1>6. /\ OpenOf(Clients, peer) = {c[s] : s \in Taken(PollSlots, c, -1)}
      /\ Cardinality(OpenOf(Clients, peer)) = Cardinality(Taken(PollSlots, c, -1))
  BY <1>3, <1>5, TableCounts
<1>7. \A s \in Taken(PollSlots, c, -1) : s <= m
  BY <1>1 DEF PollOk, Taken
<1>8. Poll!Blocked => Poll!Min(Poll!Due) = m
  <2> SUFFICES ASSUME Poll!Blocked, Poll!Min(Poll!Due) # m PROVE FALSE
    OBVIOUS
  <2>1. PICK S : S = Poll!Due
    OBVIOUS
  <2>2. S \in SUBSET Nat /\ S # {} /\ \A s \in S : s \in PollSlots /\ i <= s /\ s <= m /\ c[s] # -1 /\ s \in rv
    BY <1>2, <1>3, <2>1, FreeIsNegative DEF Poll!Due, Poll!Blocked
  <2>3. PICK s : s = Poll!Min(S)
    OBVIOUS
  <2>4. s \in PollSlots /\ s \in Nat /\ i <= s /\ s < m /\ c[s] # -1 /\ s \in rv
    <3>1. s \in S
      BY <2>2, <2>3, PollLeast
    <3>2. s \in Nat /\ s <= m /\ s # m
      BY <2>1, <2>2, <2>3, <3>1
    <3>3. s < m
      BY ONLY <1>3, <3>2
    <3>. QED BY <2>2, <3>1, <3>2, <3>3
  <2>5. w = "scan" /\ Poll!ReadResult(c[s]) = "blocks"
    BY <1>2, <2>1, <2>3 DEF Poll!Blocked
  <2>6. Speaks(peer, c[s]) /\ c[s] \in OpenOf(Clients, peer)
    BY <1>1, <1>3, <2>4, <2>5 DEF PollOk, Table
  <2>. QED BY <1>2, <2>5, <2>6, PollReads
<1>. QED BY <1>2, <1>4, <1>6, <1>7, <1>8, PollNames DEF Poll!Bookkeeping

-----------------------------------------------------------------------------
\* Linux_Net/03.../server.cpp

Poll03Server(w, c, rv, m, i, ec) == [at |-> w, fd |-> c, revents |-> rv, maxi |-> m, i |-> i, echoed |-> ec]

IsPoll03(s, w, c, rv, m, i, ec) == s = Poll03Server(w, c, rv, m, i, ec)

\* The kernel, where standard input is read and may be closed like a client.
Kernels03 ==
  [peer : [Fds -> Pair \cup {"stdin", "listener", None}], fresh : SUBSET Pair, backlog : SUBSET Pair,
   sent : SUBSET (Pair \cup {"stdin"}), left : SUBSET (Pair \cup {"stdin"}), reset : SUBSET Pair,
   misled : SUBSET (Pair \cup {"stdin", "listener", None})]

Kernel03Ok(p) == p \in Kernels03 /\ ("stdin" \notin p.left => p.peer[0] = "stdin")

\* The array holds the descriptor 0 and nothing else.
Poll03Ok(p, w, c, rv, m, i, ec) ==
  /\ c \in [PollSlots -> {-1, 0}] /\ i \in Nat \ {0} /\ m \in Nat /\ (m = 0 \/ m \in PollSlots)
  /\ ec \cap Pair # {} => "stdin" \in p.left

Poll03Inv ==
  /\ Kernel03Ok(peer)
  /\ \E w, c, rv, m, i, ec : IsPoll03(g_events, w, c, rv, m, i, ec) /\ Poll03Ok(peer, w, c, rv, m, i, ec)

LEMMA Poll03Names ==
  /\ PollPair!Fds = Fds /\ PollPair!Listener = Listener /\ PollPair!None = None /\ PollPair!Slots = PollSlots
  /\ PollPair!connfd = 0
BY DEF PollPair!Fds, Fds, Reactor01!Fds, PollPair!Listener, Listener, Reactor01!Listener, PollPair!None, None, Reactor01!None,
       PollPair!Slots, PollSlots, PollPair!connfd

LEMMA Poll03Least ==
  ASSUME NEW S \in SUBSET Nat, S # {}
  PROVE  PollPair!Min(S) \in S /\ \A y \in S : PollPair!Min(S) <= y
BY LeastExists DEF PollPair!Min

LEMMA Poll03Largest ==
  ASSUME NEW a \in Int, NEW b \in Int
  PROVE  PollPair!Max({a, b}) \in {a, b} /\ PollPair!Max({a, b}) >= a /\ PollPair!Max({a, b}) >= b
<1>1. \E x \in {a, b} : \A y \in {a, b} : x >= y
  OBVIOUS
<1>. QED BY <1>1 DEF PollPair!Max

LEMMA InitPoll03Inv == PollPair!Init03 => Poll03Inv
<1> SUFFICES ASSUME PollPair!Init03 PROVE Poll03Inv
  OBVIOUS
<1>1. peer = StartNet(Pair)
  BY Poll03Names DEF PollPair!Init03, PollPair!InitNet, StartNet
<1>2. Kernel03Ok(peer)
  BY <1>1, SmallFds DEF StartNet, Kernel03Ok, Kernels03
<1>3. PICK c : c = [s \in PollSlots |-> -1]
  OBVIOUS
<1>4. PICK stack : IsPoll03(g_events, "poll", c, stack, 0, 1, {})
  BY <1>3, Poll03Names DEF PollPair!Init03, IsPoll03, Poll03Server
<1>5. Poll03Ok(peer, "poll", c, stack, 0, 1, {})
  BY <1>3 DEF Poll03Ok
<1>. QED BY <1>2, <1>4, <1>5 DEF Poll03Inv

\* Accept takes a descriptor that is closed, which 0 is not while it is standard
\* input.
LEMMA AcceptKeepsKernel03 ==
  ASSUME Kernel03Ok(peer), NEW k \in peer.backlog, PollPair!Accepting(k)
  PROVE  Kernel03Ok(peer') /\ peer'.left = peer.left
<1>1. PICK S : S = {f \in Fds : peer.peer[f] = None}
  OBVIOUS
<1>2. S \in SUBSET Nat /\ S # {} /\ PollPair!NewFd = PollPair!Min(S)
  BY <1>1, Poll03Names, SmallFds DEF PollPair!Accepting, PollPair!NewFd, PollPair!Closed
<1>3. PICK f : f = PollPair!NewFd /\ f \in Fds /\ peer.peer[f] = None
  BY <1>1, <1>2, Poll03Least
<1>4. peer' = [peer |-> [peer.peer EXCEPT ![f] = k], fresh |-> peer.fresh, backlog |-> peer.backlog \ {k}, sent |-> peer.sent,
               left |-> peer.left, reset |-> peer.reset, misled |-> peer.misled]
  BY <1>3 DEF PollPair!Accepting, PollPair!Accepted, Kernel03Ok, Kernels03
<1>5. peer' \in Kernels03
  BY <1>4 DEF Kernel03Ok, Kernels03
<1>6. peer'.left = peer.left /\ \A g \in Fds \ {f} : peer'.peer[g] = peer.peer[g]
  BY <1>4 DEF Kernel03Ok, Kernels03
<1>7. "stdin" \notin peer'.left => peer'.peer[0] = "stdin"
  BY <1>3, <1>6, SmallFds DEF Kernel03Ok
<1>. QED BY <1>5, <1>6, <1>7 DEF Kernel03Ok

LEMMA AcceptKeepsPoll03Inv == Poll03Inv /\ PollPair!Accept03 => Poll03Inv'
<1> SUFFICES ASSUME Poll03Inv, PollPair!Accept03 PROVE Poll03Inv'
  OBVIOUS
<1>1. PICK w, c, rv, m, i, ec : IsPoll03(g_events, w, c, rv, m, i, ec) /\ Poll03Ok(peer, w, c, rv, m, i, ec)
  BY DEF Poll03Inv
<1>2. Kernel03Ok(peer') /\ peer'.left = peer.left
  BY AcceptKeepsKernel03 DEF PollPair!Accept03, Poll03Inv
<1>3. g_events.fd = c /\ g_events.maxi = m
  BY <1>1 DEF IsPoll03, Poll03Server
<1>4. PICK S : S = {s \in PollSlots : c[s] < 0}
  OBVIOUS
<1>5. CASE S = {}
  <2>1. g_events' = [g_events EXCEPT !.at = "exited"]
    BY <1>3, <1>4, <1>5, Poll03Names DEF PollPair!Accept03
  <2>2. IsPoll03(g_events', "exited", c, rv, m, i, ec)
    BY <1>1, <2>1 DEF IsPoll03, Poll03Server
  <2>3. Poll03Ok(peer', "exited", c, rv, m, i, ec)
    BY <1>1, <1>2 DEF Poll03Ok
  <2>. QED BY <1>2, <2>2, <2>3 DEF Poll03Inv
<1>6. CASE S # {}
  <2>1. PICK e, w1 : e = PollPair!Min(S) /\ w1 = IF g_events.at = "accept_more" THEN "scan" ELSE "poll"
    OBVIOUS
  <2>2. PICK d, m1 : d = [c EXCEPT ![e] = 0] /\ m1 = PollPair!Max({m, e})
    OBVIOUS
  <2>3. g_events' = [g_events EXCEPT !.fd[e] = 0, !.maxi = m1, !.at = w1]
    BY <1>3, <1>4, <1>6, <2>1, <2>2, Poll03Names DEF PollPair!Accept03
  <2>4. IsPoll03(g_events', w1, d, rv, m1, i, ec)
    BY <1>1, <2>2, <2>3 DEF IsPoll03, Poll03Server
  <2>5. e \in PollSlots /\ e \in Int
    <3>1. S \in SUBSET Nat
      BY <1>4, SizesAssumption DEF PollSlots
    <3>2. e \in S
      BY <1>6, <2>1, <3>1, Poll03Least
    <3>. QED BY <1>4, <3>1, <3>2
  <2>6. m \in Nat /\ (m = 0 \/ m \in PollSlots) /\ c \in [PollSlots -> {-1, 0}] /\ i \in Nat \ {0}
    BY <1>1 DEF Poll03Ok
  <2>7. m1 \in PollSlots /\ m1 \in Nat
    <3>1. m \in Int /\ e \in Int
      BY <2>5, <2>6
    <3>2. m1 \in {m, e} /\ m1 >= m /\ m1 >= e
      BY <2>2, <3>1, Poll03Largest, Zenon
    <3>. QED BY <2>5, <2>6, <3>2, SizesAssumption DEF PollSlots
  <2>8. d \in [PollSlots -> {-1, 0}]
    BY <2>2, <2>5, <2>6
  <2>9. Poll03Ok(peer', w1, d, rv, m1, i, ec)
    BY <1>1, <1>2, <2>6, <2>7, <2>8 DEF Poll03Ok
  <2>. QED BY <1>2, <2>4, <2>9 DEF Poll03Inv
<1>. QED BY <1>5, <1>6

\* What happens to the descriptor 0.
LEMMA InputCloses ==
  ASSUME Kernel03Ok(peer), PollPair!ReadResult(0) = "end", peer' = PollPair!Close(0)
  PROVE  Kernel03Ok(peer') /\ peer'.left = peer.left
<1>1. "stdin" \in peer.left
  BY SmallFds, Poll03Names DEF PollPair!ReadResult, PollPair!Closed, Kernel03Ok
<1>2. peer' = [peer |-> [peer.peer EXCEPT ![0] = None], fresh |-> peer.fresh, backlog |-> peer.backlog, sent |-> peer.sent,
               left |-> peer.left, reset |-> peer.reset, misled |-> peer.misled]
  BY Poll03Names DEF PollPair!Close, Kernel03Ok, Kernels03
<1>3. peer' \in Kernels03 /\ peer'.left = peer.left
  BY <1>2 DEF Kernel03Ok, Kernels03
<1>. QED BY <1>1, <1>3 DEF Kernel03Ok

LEMMA InputReads ==
  ASSUME Kernel03Ok(peer), peer' = PollPair!ReadFrom(0)
  PROVE  Kernel03Ok(peer') /\ peer'.left = peer.left
<1>1. PICK k : k = peer.peer[0]
  OBVIOUS
<1>2. CASE k \in peer.sent
  <2>1. peer' = [peer |-> peer.peer, fresh |-> peer.fresh, backlog |-> peer.backlog, sent |-> peer.sent \ {k},
                 left |-> peer.left, reset |-> peer.reset, misled |-> peer.misled]
    BY <1>1, <1>2 DEF PollPair!ReadFrom, Kernel03Ok, Kernels03
  <2>2. peer' \in Kernels03 /\ peer'.left = peer.left /\ peer'.peer = peer.peer
    BY <2>1 DEF Kernel03Ok, Kernels03
  <2>. QED BY <2>2 DEF Kernel03Ok
<1>3. CASE k \notin peer.sent
  <2>1. peer' = [peer |-> peer.peer, fresh |-> peer.fresh, backlog |-> peer.backlog, sent |-> peer.sent,
                 left |-> peer.left, reset |-> peer.reset \ {k}, misled |-> peer.misled]
    BY <1>1, <1>3 DEF PollPair!ReadFrom, Kernel03Ok, Kernels03
  <2>2. peer' \in Kernels03 /\ peer'.left = peer.left /\ peer'.peer = peer.peer
    BY <2>1 DEF Kernel03Ok, Kernels03
  <2>. QED BY <2>2 DEF Kernel03Ok
<1>. QED BY <1>2, <1>3

LEMMA EchoKeepsPoll03Inv == Poll03Inv /\ PollPair!Echo => Poll03Inv'
<1> SUFFICES ASSUME Poll03Inv, PollPair!Echo PROVE Poll03Inv'
  OBVIOUS
<1>1. PICK w, c, rv, m, i, ec : IsPoll03(g_events, w, c, rv, m, i, ec) /\ Poll03Ok(peer, w, c, rv, m, i, ec)
  BY DEF Poll03Inv
<1>2. Kernel03Ok(peer) /\ g_events.fd = c /\ g_events.maxi = m /\ g_events.i = i /\ g_events.echoed = ec
  BY <1>1 DEF IsPoll03, Poll03Server, Poll03Inv
<1>3. m \in Nat /\ (m = 0 \/ m \in PollSlots) /\ c \in [PollSlots -> {-1, 0}] /\ i \in Nat \ {0}
      /\ (ec \cap Pair # {} => "stdin" \in peer.left)
  BY <1>1 DEF Poll03Ok
<1>4. PICK S : S = PollPair!Due03
  OBVIOUS
<1>5. S \in SUBSET Nat /\ S # {} /\ \A s \in S : s \in PollSlots /\ c[s] = 0
  <2>1. S = {s \in i .. m : c[s] >= 0 /\ s \in g_events.revents}
    BY <1>2, <1>4 DEF PollPair!Due03
  <2>2. S \in SUBSET Nat /\ S # {}
    <3>1. S # {}
      BY <1>4 DEF PollPair!Echo
    <3>. QED BY <1>3, <2>1, <3>1
  <2>3. ASSUME NEW s \in S PROVE s \in PollSlots /\ c[s] = 0
    <3>1. s \in i .. m /\ c[s] >= 0
      BY <2>1
    <3>2. s \in PollSlots
      BY <1>3, <3>1, SizesAssumption DEF PollSlots
    <3>3. c[s] \in {-1, 0}
      BY <1>3, <3>2
    <3>. QED BY <3>1, <3>2, <3>3
  <2>. QED BY <2>2, <2>3
<1>6. PICK s : s = PollPair!Min(S)
  OBVIOUS
<1>7. s \in PollSlots /\ c[s] = 0 /\ s + 1 \in Nat \ {0}
  <2>1. s \in S
    BY <1>5, <1>6, Poll03Least
  <2>2. s \in Nat
    BY <1>5, <2>1
  <2>. QED BY <1>5, <2>1, <2>2
<1>8. CASE PollPair!ReadResult(0) = "end"
  <2>1. peer' = PollPair!Close(0) /\ g_events' = [g_events EXCEPT !.fd[s] = -1, !.i = s + 1]
    BY <1>2, <1>4, <1>6, <1>7, <1>8 DEF PollPair!Echo
  <2>2. PICK d : d = [c EXCEPT ![s] = -1]
    OBVIOUS
  <2>3. IsPoll03(g_events', w, d, rv, m, s + 1, ec)
    BY <1>1, <2>1, <2>2 DEF IsPoll03, Poll03Server
  <2>4. Kernel03Ok(peer') /\ peer'.left = peer.left
    BY <1>2, <1>8, <2>1, InputCloses
  <2>5. d \in [PollSlots -> {-1, 0}]
    BY <1>3, <1>7, <2>2
  <2>6. Poll03Ok(peer', w, d, rv, m, s + 1, ec)
    BY <1>3, <1>7, <2>4, <2>5 DEF Poll03Ok
  <2>. QED BY <2>3, <2>4, <2>6 DEF Poll03Inv
<1>9. CASE PollPair!ReadResult(0) \in {"data", "error"}
  <2>1. PICK k, ec1 : k = peer.peer[0] /\ ec1 = ec \cup {k}
    OBVIOUS
  <2>2. PICK w1 : peer' = PollPair!ReadFrom(0) /\ g_events' = [g_events EXCEPT !.i = s + 1, !.at = w1, !.echoed = @ \cup {k}]
    BY <1>2, <1>4, <1>6, <1>7, <1>9, <2>1 DEF PollPair!Echo
  <2>3. IsPoll03(g_events', w1, c, rv, m, s + 1, ec1)
    BY <1>1, <2>1, <2>2 DEF IsPoll03, Poll03Server
  <2>4. Kernel03Ok(peer') /\ peer'.left = peer.left
    BY <1>2, <2>2, InputReads
  <2>5. ec1 \cap Pair # {} => "stdin" \in peer.left
    <3>1. k \in Pair => "stdin" \in peer.left
      BY <1>2, <2>1, Strangers DEF Kernel03Ok
    <3>. QED BY <1>3, <2>1, <3>1
  <2>6. Poll03Ok(peer', w1, c, rv, m, s + 1, ec1)
    BY <1>3, <1>7, <2>4, <2>5 DEF Poll03Ok
  <2>. QED BY <2>3, <2>4, <2>6 DEF Poll03Inv
<1>10. CASE PollPair!ReadResult(0) = "bad"
  <2>1. peer' = peer /\ g_events' = [g_events EXCEPT !.i = s + 1]
    BY <1>2, <1>4, <1>6, <1>7, <1>10 DEF PollPair!Echo
  <2>2. IsPoll03(g_events', w, c, rv, m, s + 1, ec)
    BY <1>1, <2>1 DEF IsPoll03, Poll03Server
  <2>3. Poll03Ok(peer', w, c, rv, m, s + 1, ec)
    BY <1>3, <1>7, <2>1 DEF Poll03Ok
  <2>. QED BY <1>2, <2>1, <2>2, <2>3 DEF Poll03Inv
<1>11. PollPair!ReadResult(0) \in {"end", "data", "error", "bad"}
  BY <1>2, <1>4, <1>6, <1>7 DEF PollPair!Echo
<1>. QED BY <1>8, <1>9, <1>10, <1>11

LEMMA NextKeepsPoll03Inv == Poll03Inv /\ PollPair!Next03 => Poll03Inv'
<1> SUFFICES ASSUME Poll03Inv, PollPair!Next03 PROVE Poll03Inv'
  OBVIOUS
<1>1. PICK w, c, rv, m, i, ec : IsPoll03(g_events, w, c, rv, m, i, ec) /\ Poll03Ok(peer, w, c, rv, m, i, ec)
  BY DEF Poll03Inv
<1>2. Kernel03Ok(peer)
  BY DEF Poll03Inv
<1>3. CASE PollPair!do_poll
  <2>1. PICK ready, w1 : g_events' = [g_events EXCEPT !.revents = ready \cup {s \in @ : s > g_events.maxi}, !.i = 1, !.at = w1] /\ peer' = peer
    BY <1>3 DEF PollPair!do_poll
  <2>2. PICK rv1 : IsPoll03(g_events', w1, c, rv1, m, 1, ec)
    BY <1>1, <2>1 DEF IsPoll03, Poll03Server
  <2>3. Poll03Ok(peer', w1, c, rv1, m, 1, ec)
    BY <1>1, <2>1 DEF Poll03Ok
  <2>. QED BY <1>2, <2>1, <2>2, <2>3 DEF Poll03Inv
<1>4. CASE PollPair!AcceptFails03 \/ PollPair!EndOfScan03
  <2>1. PICK w1 : g_events' = [g_events EXCEPT !.at = w1] /\ peer' = peer
    BY <1>4 DEF PollPair!AcceptFails03, PollPair!EndOfScan03
  <2>2. IsPoll03(g_events', w1, c, rv, m, i, ec)
    BY <1>1, <2>1 DEF IsPoll03, Poll03Server
  <2>3. Poll03Ok(peer', w1, c, rv, m, i, ec)
    BY <1>1, <2>1 DEF Poll03Ok
  <2>. QED BY <1>2, <2>1, <2>2, <2>3 DEF Poll03Inv
<1>5. CASE PollPair!Network \/ PollPair!Input
  <2>1. g_events' = g_events
    BY <1>5 DEF PollPair!Network, PollPair!Input
  <2>2. PICK fr \in SUBSET Pair, bl \in SUBSET Pair, se \in SUBSET (Pair \cup {"stdin"}), le \in SUBSET (Pair \cup {"stdin"}), re \in SUBSET Pair :
          /\ peer.left \subseteq le
          /\ peer' = [peer |-> peer.peer, fresh |-> fr, backlog |-> bl, sent |-> se, left |-> le, reset |-> re, misled |-> peer.misled]
    <3>0. /\ peer.fresh \in SUBSET Pair /\ peer.backlog \in SUBSET Pair /\ peer.sent \in SUBSET (Pair \cup {"stdin"})
          /\ peer.left \in SUBSET (Pair \cup {"stdin"}) /\ peer.reset \in SUBSET Pair
      BY <1>2 DEF Kernel03Ok, Kernels03
    <3>1. ASSUME NEW k \in Pair, PollPair!ClientConnects(k)
          PROVE  peer' = [peer |-> peer.peer, fresh |-> peer.fresh \ {k}, backlog |-> peer.backlog \cup {k}, sent |-> peer.sent,
                          left |-> peer.left, reset |-> peer.reset, misled |-> peer.misled]
      BY <1>2, <3>1 DEF PollPair!ClientConnects, Kernel03Ok, Kernels03
    <3>2. ASSUME NEW k \in Pair \cup {"stdin"}, peer' = [peer EXCEPT !.sent = @ \cup {k}]
          PROVE  peer' = [peer |-> peer.peer, fresh |-> peer.fresh, backlog |-> peer.backlog, sent |-> peer.sent \cup {k},
                          left |-> peer.left, reset |-> peer.reset, misled |-> peer.misled]
      BY <1>2, <3>2 DEF Kernel03Ok, Kernels03
    <3>3. ASSUME NEW k \in Pair, NEW r \in SUBSET {k}, peer' = [peer EXCEPT !.left = @ \cup {k}, !.reset = @ \cup r]
          PROVE  peer' = [peer |-> peer.peer, fresh |-> peer.fresh, backlog |-> peer.backlog, sent |-> peer.sent,
                          left |-> peer.left \cup {k}, reset |-> peer.reset \cup r, misled |-> peer.misled]
      BY <1>2, <3>3 DEF Kernel03Ok, Kernels03
    <3>4. ASSUME peer' = [peer EXCEPT !.left = @ \cup {"stdin"}]
          PROVE  peer' = [peer |-> peer.peer, fresh |-> peer.fresh, backlog |-> peer.backlog, sent |-> peer.sent,
                          left |-> peer.left \cup {"stdin"}, reset |-> peer.reset, misled |-> peer.misled]
      BY <1>2, <3>4 DEF Kernel03Ok, Kernels03
    <3>5. ASSUME NEW k \in Pair, PollPair!ClientConnects(k) \/ PollPair!ClientSends(k) \/ PollPair!ClientLeaves(k)
          PROVE  \E fr \in SUBSET Pair, bl \in SUBSET Pair, se \in SUBSET (Pair \cup {"stdin"}), le \in SUBSET (Pair \cup {"stdin"}), re \in SUBSET Pair :
                   /\ peer.left \subseteq le
                   /\ peer' = [peer |-> peer.peer, fresh |-> fr, backlog |-> bl, sent |-> se, left |-> le, reset |-> re, misled |-> peer.misled]
      <4>1. CASE PollPair!ClientConnects(k)
        BY <3>0, <3>1, <4>1
      <4>2. CASE PollPair!ClientSends(k)
        <5>1. peer' = [peer |-> peer.peer, fresh |-> peer.fresh, backlog |-> peer.backlog, sent |-> peer.sent \cup {k},
                       left |-> peer.left, reset |-> peer.reset, misled |-> peer.misled]
          BY <3>2, <4>2 DEF PollPair!ClientSends
        <5>2. peer.sent \cup {k} \in SUBSET (Pair \cup {"stdin"})
          BY <3>0
        <5>. QED BY <3>0, <5>1, <5>2
      <4>3. CASE PollPair!ClientLeaves(k)
        <5>1. PICK r \in SUBSET {k} : peer' = [peer EXCEPT !.left = @ \cup {k}, !.reset = @ \cup r]
          BY <4>3 DEF PollPair!ClientLeaves
        <5>2. peer.left \cup {k} \in SUBSET (Pair \cup {"stdin"}) /\ peer.reset \cup r \in SUBSET Pair
          BY <3>0, <5>1
        <5>3. peer' = [peer |-> peer.peer, fresh |-> peer.fresh, backlog |-> peer.backlog, sent |-> peer.sent,
                       left |-> peer.left \cup {k}, reset |-> peer.reset \cup r, misled |-> peer.misled]
          BY <3>3, <5>1
        <5>. QED BY <3>0, <5>2, <5>3
      <4>. QED BY <3>5, <4>1, <4>2, <4>3
    <3>6. CASE PollPair!Network
      BY <3>5, <3>6 DEF PollPair!Network
    <3>7. CASE PollPair!Input
      BY <3>0, <3>2, <3>4, <3>7 DEF PollPair!Input
    <3>. QED BY <1>5, <3>6, <3>7
  <2>3. Kernel03Ok(peer') /\ peer.left \subseteq peer'.left
    <3>1. peer' \in Kernels03
      BY <1>2, <2>2 DEF Kernel03Ok, Kernels03
    <3>2. peer'.peer = peer.peer /\ peer'.left = le
      BY <2>2
    <3>. QED BY <1>2, <2>2, <3>1, <3>2 DEF Kernel03Ok
  <2>4. Poll03Ok(peer', w, c, rv, m, i, ec)
    BY <1>1, <2>3 DEF Poll03Ok
  <2>5. IsPoll03(g_events', w, c, rv, m, i, ec)
    BY <1>1, <2>1
  <2>. QED BY <2>3, <2>4, <2>5 DEF Poll03Inv
<1>. QED BY <1>3, <1>4, <1>5, AcceptKeepsPoll03Inv, EchoKeepsPoll03Inv DEF PollPair!Next03

LEMMA Poll03InvGives == Poll03Inv => PollPair!EchoesStandardInput
<1> SUFFICES ASSUME Poll03Inv PROVE PollPair!EchoesStandardInput
  OBVIOUS
<1>1. PICK w, c, rv, m, i, ec : IsPoll03(g_events, w, c, rv, m, i, ec) /\ Poll03Ok(peer, w, c, rv, m, i, ec)
  BY DEF Poll03Inv
<1>2. g_events.echoed = ec
  BY <1>1 DEF IsPoll03, Poll03Server
<1>. QED BY <1>1, <1>2 DEF Poll03Inv, Poll03Ok, Kernel03Ok, PollPair!EchoesStandardInput

-----------------------------------------------------------------------------
\* epoll_concurrent/server.c

EpollServer(w, t, ep, i, h) == [at |-> w, tree |-> t, ep |-> ep, i |-> i, handled |-> h]

\* There is something to read, or a client to accept.
Ready(p, f) == IF f = Listener THEN p.backlog # {} ELSE Speaks(p, f)

\* Nothing takes away what an event announced but the call that handles it.
EpollOk(p, w, t, ep, i, h) ==
  /\ w \in {"wait", "events", "exited"} /\ i \in Nat /\ ep \in Seq(Fds)
  /\ t = {Listener} \cup OpenOf(Clients, p)
  /\ w = "events" => i < Len(ep) /\ \A j \in 1 .. Len(ep) : ep[j] \notin h => Ready(p, ep[j])

EpollInv ==
  /\ KernelOk(Clients, peer)
  /\ \E w, t, ep, i, h : g_events = EpollServer(w, t, ep, i, h) /\ EpollOk(peer, w, t, ep, i, h)

LEMMA EpollNames ==
  /\ Epoll!Fds = Fds /\ Epoll!Listener = Listener /\ Epoll!None = None
  /\ Epoll!Open = OpenOf(Clients, peer)
  /\ \A S : Epoll!Cardinality(S) = Cardinality(S)
BY DEF Epoll!Fds, Fds, Reactor01!Fds, Epoll!Listener, Listener, Reactor01!Listener, Epoll!None, None, Reactor01!None,
       Epoll!Open, OpenOf, Epoll!Cardinality, Cardinality

LEMMA EpollReady == \A f : Epoll!Readable(f) <=> Ready(peer, f)
BY EpollNames DEF Epoll!Readable, Ready, Speaks

LEMMA EpollLeast ==
  ASSUME NEW S \in SUBSET Nat, S # {}
  PROVE  Epoll!Min(S) \in S /\ \A y \in S : Epoll!Min(S) <= y
BY LeastExists DEF Epoll!Min

LEMMA EpollAccepts ==
  ASSUME KernelOk(Clients, peer), NEW k \in peer.backlog, Epoll!Accepting(k)
  PROVE  /\ Epoll!NewFd \in Fds /\ peer.peer[Epoll!NewFd] = None
         /\ peer' = [peer EXCEPT !.backlog = @ \ {k}, !.peer[Epoll!NewFd] = k]
<1>1. PICK S : S = {f \in Fds : peer.peer[f] = None}
  OBVIOUS
<1>2. S \in SUBSET Nat /\ S # {} /\ Epoll!NewFd = Epoll!Min(S)
  BY <1>1, EpollNames, SmallFds DEF Epoll!Accepting, Epoll!NewFd, Epoll!Closed
<1>3. Epoll!NewFd \in S
  BY <1>2, EpollLeast
<1>. QED BY <1>1, <1>3 DEF Epoll!Accepting, Epoll!Accepted

LEMMA InitEpollInv == Epoll!Init => EpollInv
<1> SUFFICES ASSUME Epoll!Init PROVE EpollInv
  OBVIOUS
<1>1. KernelOk(Clients, peer) /\ OpenOf(Clients, peer) = {}
  <2>1. peer = StartNet(Clients)
    BY EpollNames DEF Epoll!Init, Epoll!InitNet, StartNet
  <2>. QED BY <2>1, KernelStarts
<1>2. g_events = EpollServer("wait", {Listener}, <<>>, 0, {})
  BY EpollNames DEF Epoll!Init, EpollServer
<1>3. EpollOk(peer, "wait", {Listener}, <<>>, 0, {})
  BY <1>1 DEF EpollOk
<1>. QED BY <1>1, <1>2, <1>3 DEF EpollInv

LEMMA WaitKeepsEpollInv == EpollInv /\ Epoll!Wait => EpollInv'
<1> SUFFICES ASSUME EpollInv, Epoll!Wait PROVE EpollInv'
  OBVIOUS
<1>1. PICK w, t, ep, i, h : g_events = EpollServer(w, t, ep, i, h) /\ EpollOk(peer, w, t, ep, i, h)
  BY DEF EpollInv
<1>2. PICK ready : ready = {f \in t : Ready(peer, f)}
  OBVIOUS
<1>3. g_events.tree = t
  BY <1>1 DEF EpollServer
<1>4. PICK e1 \in Epoll!SetToSeqs(ready) : g_events' = EpollServer("events", t, e1, 0, {}) /\ ready # {} /\ peer' = peer
  <2>1. {f \in g_events.tree : Epoll!Readable(f)} = ready
    BY <1>2, <1>3, EpollReady
  <2>. QED BY <1>1, <2>1 DEF Epoll!Wait, EpollServer
<1>5. ready \subseteq Fds /\ IsFiniteSet(Fds)
  <2>1. t \subseteq Fds
    BY <1>1, SmallFds DEF EpollOk, OpenOf
  <2>2. IsFiniteSet(Fds)
    BY FS_Interval, SizesAssumption DEF Fds, Reactor01!Fds
  <2>. QED BY <1>2, <2>1, <2>2
<1>6. Cardinality(ready) \in Nat \ {0}
  <2>1. IsFiniteSet(ready)
    BY <1>5, FS_Subset
  <2>. QED BY <1>4, <2>1, FS_CardinalityType, FS_EmptySet
<1>7. e1 \in [1 .. Cardinality(ready) -> ready]
  BY <1>4, EpollNames DEF Epoll!SetToSeqs
<1>8. e1 \in Seq(Fds) /\ Len(e1) = Cardinality(ready) /\ \A j \in 1 .. Len(e1) : e1[j] \in ready
  BY <1>5, <1>6, <1>7
<1>9. EpollOk(peer, "events", t, e1, 0, {})
  <2>1. \A j \in 1 .. Len(e1) : Ready(peer, e1[j])
    BY <1>2, <1>8
  <2>2. t = {Listener} \cup OpenOf(Clients, peer)
    BY <1>1 DEF EpollOk
  <2>. QED BY <1>6, <1>8, <2>1, <2>2 DEF EpollOk
<1>. QED BY <1>4, <1>9 DEF EpollInv

IsEpoll(s, w, t, ep, i, h) == s = EpollServer(w, t, ep, i, h)

GoesOnTo(w, ep, i, h, w1, j, h1) ==
  w1 = (IF j < Len(ep) \/ w = "exited" THEN w ELSE "wait") /\ h1 = h \cup {ep[i + 1]}

LEMMA EpollGoesOn ==
  ASSUME NEW w0, NEW t0, NEW ep, NEW i, NEW h, IsEpoll(g_events, w0, t0, ep, i, h),
         NEW w, NEW t, NEW state, IsEpoll(state, w, t, ep, i, h),
         NEW w1, NEW j, NEW h1, GoesOnTo(w, ep, i, h, w1, j, h1)
  PROVE  IsEpoll(Epoll!GoOn(state, j), w1, t, ep, j, h1)
<1>1. g_events.ep = ep /\ g_events.i = i
  BY DEF EpollServer, IsEpoll
<1>2. Epoll!Current = ep[i + 1]
  BY <1>1 DEF Epoll!Current
<1>3. ASSUME NEW x, x = Epoll!GoOn(state, j) PROVE x = EpollServer(w1, t, ep, j, h1)
  BY <1>1, <1>2, <1>3 DEF Epoll!GoOn, EpollServer, IsEpoll, GoesOnTo
<1>. QED BY <1>3, Zenon DEF IsEpoll

LEMMA AcceptKeepsEpollInv == EpollInv /\ Epoll!Accept => EpollInv'
<1> SUFFICES ASSUME EpollInv, Epoll!Accept PROVE EpollInv'
  OBVIOUS
<1>1. PICK w, t, ep, i, h : g_events = EpollServer(w, t, ep, i, h) /\ EpollOk(peer, w, t, ep, i, h)
  BY DEF EpollInv
<1>2. KernelOk(Clients, peer) /\ w = "events" /\ g_events.i = i /\ g_events.ep = ep /\ ep[i + 1] = Listener
  BY <1>1, EpollNames DEF EpollInv, Epoll!Accept, Epoll!Current, EpollServer
<1>3. PICK k \in peer.backlog : Epoll!Accepting(k)
  BY DEF Epoll!Accept
<1>4. PICK f : f = Epoll!NewFd
  OBVIOUS
<1>5. /\ KernelOk(Clients, peer') /\ f \in Fds \ {0, Listener} /\ f \notin OpenOf(Clients, peer)
      /\ OpenOf(Clients, peer') = OpenOf(Clients, peer) \cup {f} /\ peer.peer[f] = None
      /\ \A g \in Fds \ {f} : Speaks(peer, g) <=> Speaks(peer', g)
  <2>1. f \in Fds /\ peer.peer[f] = None /\ peer' = [peer EXCEPT !.backlog = @ \ {k}, !.peer[f] = k]
    BY <1>2, <1>3, <1>4, EpollAccepts
  <2>. QED BY <1>2, <2>1, KernelAccepts
<1>6. PICK t1, w1, h1 : t1 = t \cup {f} /\ w1 = (IF i + 1 < Len(ep) THEN "events" ELSE "wait") /\ h1 = h \cup {ep[i + 1]}
  OBVIOUS
<1>7. g_events' = EpollServer(w1, t1, ep, i + 1, h1)
  <2>1. PICK state : state = [g_events EXCEPT !.tree = @ \cup {f}] /\ g_events' = Epoll!GoOn(state, i + 1)
    BY <1>2, <1>4 DEF Epoll!Accept
  <2>2. state = EpollServer(w, t1, ep, i, h)
    BY <1>1, <1>6, <2>1 DEF EpollServer
  <2>3. IsEpoll(g_events, w, t, ep, i, h) /\ IsEpoll(state, w, t1, ep, i, h)
    BY <1>1, <2>2 DEF IsEpoll
  <2>4. GoesOnTo(w, ep, i, h, w1, i + 1, h1)
    BY <1>2, <1>6 DEF GoesOnTo
  <2>5. IsEpoll(Epoll!GoOn(state, i + 1), w1, t1, ep, i + 1, h1)
    BY <2>3, <2>4, EpollGoesOn
  <2>. QED BY <2>1, <2>5 DEF IsEpoll
<1>8. ep \in Seq(Fds) /\ i \in Nat /\ t = {Listener} \cup OpenOf(Clients, peer) /\ i < Len(ep)
      /\ \A j \in 1 .. Len(ep) : ep[j] \notin h => Ready(peer, ep[j])
  BY <1>1, <1>2 DEF EpollOk
<1>9. ASSUME NEW j \in 1 .. Len(ep), ep[j] \notin h1 PROVE Ready(peer', ep[j])
  <2>1. ep[j] \in Fds /\ ep[j] # Listener /\ ep[j] \notin h
    BY <1>2, <1>6, <1>8, <1>9
  <2>2. Speaks(peer, ep[j])
    BY <1>8, <2>1 DEF Ready
  <2>3. ep[j] # f
    <3>1. peer.peer[ep[j]] \in Clients
      BY <1>2, <2>2 DEF Speaks, KernelOk, Kernels
    <3>. QED BY <1>5, <3>1, Strangers, SmallFds
  <2>. QED BY <1>5, <2>1, <2>2, <2>3 DEF Ready
<1>10. EpollOk(peer', w1, t1, ep, i + 1, h1)
  BY <1>5, <1>6, <1>8, <1>9 DEF EpollOk
<1>. QED BY <1>5, <1>7, <1>10 DEF EpollInv

\* The event of f was handled, others announce what they did.
LEMMA EpollHandles ==
  ASSUME NEW w, NEW t, NEW ep, NEW i, NEW h, EpollOk(peer, w, t, ep, i, h), w = "events",
         NEW f \in Fds, f # Listener, f = ep[i + 1], NEW t1, NEW w0 \in {"events", "exited"}, NEW w1, NEW j \in Nat, NEW p,
         w1 = IF j < Len(ep) \/ w0 = "exited" THEN w0 ELSE "wait",
         t1 = {Listener} \cup OpenOf(Clients, p), p.backlog = peer.backlog,
         \A g \in Fds \ {f} : Speaks(peer, g) => Speaks(p, g)
  PROVE  EpollOk(p, w1, t1, ep, j, h \cup {ep[i + 1]})
<1>1. ep \in Seq(Fds) /\ \A l \in 1 .. Len(ep) : ep[l] \notin h => Ready(peer, ep[l])
  BY DEF EpollOk
<1>2. ASSUME NEW l \in 1 .. Len(ep), ep[l] \notin h \cup {ep[i + 1]} PROVE Ready(p, ep[l])
  BY <1>1, <1>2 DEF Ready
<1>3. w1 \in {"wait", "events", "exited"} /\ (w1 = "events" => j < Len(ep))
  OBVIOUS
<1>. QED BY <1>1, <1>2, <1>3 DEF EpollOk

LEMMA ReadKeepsEpollInv == EpollInv /\ Epoll!Read => EpollInv'
<1> SUFFICES ASSUME EpollInv, Epoll!Read PROVE EpollInv'
  OBVIOUS
<1>1. PICK w, t, ep, i, h : g_events = EpollServer(w, t, ep, i, h) /\ EpollOk(peer, w, t, ep, i, h)
  BY DEF EpollInv
<1>2. PICK f : f = ep[i + 1]
  OBVIOUS
<1>3. KernelOk(Clients, peer) /\ w = "events" /\ g_events.i = i /\ g_events.ep = ep /\ f # Listener /\ Epoll!Current = f
  BY <1>1, <1>2, EpollNames DEF EpollInv, Epoll!Read, Epoll!Current, EpollServer
<1>4. ep \in Seq(Fds) /\ i \in Nat /\ t = {Listener} \cup OpenOf(Clients, peer) /\ f \in Fds
  BY <1>1, <1>2, <1>3 DEF EpollOk
<1>5. /\ peer.sent \subseteq Clients /\ peer.left \subseteq Clients /\ peer.reset \subseteq Clients
      /\ OpenOf(Clients, peer) \subseteq Fds \ {0, Listener}
  BY <1>3, OpenFacts DEF KernelOk, Kernels
<1>6. PICK h1 : h1 = h \cup {ep[i + 1]}
  OBVIOUS
<1>7. CASE Epoll!ReadResult(f) = "data"
  <2>1. PICK n \in 1 .. MaxRead, w0 \in Epoll!AfterWrite(f, "events") :
          /\ peer' = Epoll!ReadFrom(f)
          /\ g_events' = Epoll!GoOn([g_events EXCEPT !.at = w0], Epoll!AfterEcho(n))
    BY <1>3, <1>7 DEF Epoll!Read
  <2>2. PICK j : j = n + 1
    OBVIOUS
  <2>3. j \in Nat /\ w0 \in {"events", "exited"} /\ Epoll!AfterEcho(n) = j
    BY <2>1, <2>2, SizesAssumption DEF Epoll!AfterWrite, Epoll!AfterEcho
  <2>4. PICK w1 : w1 = IF j < Len(ep) \/ w0 = "exited" THEN w0 ELSE "wait"
    OBVIOUS
  <2>5. g_events' = EpollServer(w1, t, ep, j, h1)
    <3>1. PICK state : state = [g_events EXCEPT !.at = w0] /\ g_events' = Epoll!GoOn(state, j)
      BY <2>1, <2>3
    <3>2. state = EpollServer(w0, t, ep, i, h)
      BY <1>1, <3>1 DEF EpollServer
    <3>3. IsEpoll(g_events, w, t, ep, i, h) /\ IsEpoll(state, w0, t, ep, i, h)
      BY <1>1, <3>2 DEF IsEpoll
    <3>4. GoesOnTo(w0, ep, i, h, w1, j, h1)
      BY <1>6, <2>4 DEF GoesOnTo
    <3>5. IsEpoll(Epoll!GoOn(state, j), w1, t, ep, j, h1)
      BY <3>3, <3>4, EpollGoesOn
    <3>. QED BY <3>1, <3>5 DEF IsEpoll
  <2>6. /\ KernelOk(Clients, peer') /\ OpenOf(Clients, peer') = OpenOf(Clients, peer) /\ peer'.backlog = peer.backlog
        /\ \A g \in Fds \ {f} : Speaks(peer, g) => Speaks(peer', g)
    BY <1>3, <1>4, <2>1, KernelReads DEF Epoll!ReadFrom
  <2>7. t = {Listener} \cup OpenOf(Clients, peer')
    BY <1>4, <2>6
  <2>8. EpollOk(peer', w1, t, ep, j, h1)
    BY <1>1, <1>2, <1>3, <1>4, <1>6, <2>3, <2>4, <2>6, <2>7, EpollHandles
  <2>. QED BY <2>5, <2>6, <2>8 DEF EpollInv
<1>8. CASE Epoll!ReadResult(f) \in {"end", "error"}
  <2>1. peer' = Epoll!Close(f) /\ g_events' = Epoll!GoOn([g_events EXCEPT !.tree = @ \ {f}], i + 1)
    BY <1>3, <1>8 DEF Epoll!Read
  <2>2. f \in OpenOf(Clients, peer) /\ f \in Fds \ {0, Listener}
    BY <1>4, <1>5, <1>8 DEF Epoll!ReadResult, Epoll!Closed, OpenOf
  <2>3. /\ KernelOk(Clients, peer') /\ OpenOf(Clients, peer') = OpenOf(Clients, peer) \ {f} /\ peer'.backlog = peer.backlog
        /\ \A g \in Fds \ {f} : Speaks(peer, g) => Speaks(peer', g)
    BY <1>3, <2>1, <2>2, KernelCloses, EpollNames DEF Epoll!Close
  <2>4. PICK t1, w1, j : t1 = t \ {f} /\ w1 = (IF j < Len(ep) \/ w = "exited" THEN w ELSE "wait") /\ j = i + 1
    OBVIOUS
  <2>5. g_events' = EpollServer(w1, t1, ep, j, h1)
    <3>1. PICK state : state = [g_events EXCEPT !.tree = @ \ {f}] /\ g_events' = Epoll!GoOn(state, j)
      BY <2>1, <2>4
    <3>2. state = EpollServer(w, t1, ep, i, h)
      BY <1>1, <2>4, <3>1 DEF EpollServer
    <3>3. IsEpoll(g_events, w, t, ep, i, h) /\ IsEpoll(state, w, t1, ep, i, h)
      BY <1>1, <3>2 DEF IsEpoll
    <3>4. GoesOnTo(w, ep, i, h, w1, j, h1)
      BY <1>6, <2>4 DEF GoesOnTo
    <3>5. IsEpoll(Epoll!GoOn(state, j), w1, t1, ep, j, h1)
      BY <3>3, <3>4, EpollGoesOn
    <3>. QED BY <3>1, <3>5 DEF IsEpoll
  <2>6. t1 = {Listener} \cup OpenOf(Clients, peer') /\ j \in Nat /\ w \in {"events", "exited"}
    BY <1>3, <1>4, <2>2, <2>3, <2>4
  <2>7. EpollOk(peer', w1, t1, ep, j, h1)
    BY <1>1, <1>2, <1>3, <1>4, <1>6, <2>3, <2>4, <2>6, EpollHandles
  <2>. QED BY <2>3, <2>5, <2>7 DEF EpollInv
<1>9. CASE Epoll!ReadResult(f) = "bad"
  <2>1. peer' = peer /\ g_events' = EpollServer("exited", t, ep, i, h)
    BY <1>1, <1>3, <1>9 DEF Epoll!Read, EpollServer
  <2>2. EpollOk(peer, "exited", t, ep, i, h)
    BY <1>1 DEF EpollOk
  <2>. QED BY <1>3, <2>1, <2>2 DEF EpollInv
<1>10. Epoll!ReadResult(f) \in {"data", "end", "error", "bad"}
  BY <1>3 DEF Epoll!Read
<1>. QED BY <1>7, <1>8, <1>9, <1>10

LEMMA NextKeepsEpollInv == EpollInv /\ Epoll!Next => EpollInv'
<1>1. ASSUME EpollInv, Epoll!Network PROVE EpollInv'
  <2>1. PICK k \in Clients : Epoll!ClientConnects(k) \/ Epoll!ClientSends(k) \/ Epoll!ClientLeaves(k)
    BY <1>1 DEF Epoll!Network
  <2>2. /\ KernelOk(Clients, peer') /\ OpenOf(Clients, peer') = OpenOf(Clients, peer) /\ g_events' = g_events
        /\ peer.backlog \subseteq peer'.backlog
        /\ \A g \in Fds : Speaks(peer, g) => Speaks(peer', g)
    BY <1>1, <2>1, KernelHears DEF EpollInv, Epoll!Network, Epoll!ClientConnects, Epoll!ClientSends, Epoll!ClientLeaves
  <2>3. \A f \in Fds : Ready(peer, f) => Ready(peer', f)
    BY <2>2 DEF Ready
  <2>4. ASSUME NEW w, NEW t, NEW ep, NEW i, NEW h, EpollOk(peer, w, t, ep, i, h)
        PROVE  EpollOk(peer', w, t, ep, i, h)
    BY <2>2, <2>3, <2>4 DEF EpollOk
  <2>. QED BY <1>1, <2>2, <2>4 DEF EpollInv
<1>. QED BY <1>1, WaitKeepsEpollInv, AcceptKeepsEpollInv, ReadKeepsEpollInv DEF Epoll!Next, Epoll!main

LEMMA EpollInvGives == EpollInv => Epoll!Bookkeeping
<1> SUFFICES ASSUME EpollInv PROVE Epoll!Bookkeeping
  OBVIOUS
<1>1. PICK w, t, ep, i, h : g_events = EpollServer(w, t, ep, i, h) /\ EpollOk(peer, w, t, ep, i, h)
  BY DEF EpollInv
<1>2. g_events.at = w /\ g_events.tree = t /\ g_events.handled = h /\ Epoll!Current = ep[i + 1]
  BY <1>1 DEF EpollServer, Epoll!Current
<1>3. t = {Listener} \cup OpenOf(Clients, peer)
  BY <1>1 DEF EpollOk
<1>4. w = "events" /\ ep[i + 1] \notin h => Ready(peer, ep[i + 1])
  <2>1. w = "events" => i + 1 \in 1 .. Len(ep)
    BY <1>1 DEF EpollOk
  <2>. QED BY <1>1, <2>1 DEF EpollOk
<1>. QED BY <1>2, <1>3, <1>4, EpollNames, EpollReady DEF Epoll!Bookkeeping

-----------------------------------------------------------------------------
\* Linux_Net/04.../server.cpp

Epoll04Server(w, e, ev, b, cr) == [at |-> w, epoll |-> e, events |-> ev, buf |-> b, crossed |-> cr]

IsEpoll04(s, w, e, ev, b, cr) == s = Epoll04Server(w, e, ev, b, cr)

\* The listening descriptor and the connections are registered.
Registered(e, open) ==
  /\ e \in [Fds -> {"EPOLLIN", "EPOLLOUT", None}] /\ e[Listener] = "EPOLLIN"
  /\ \A f \in Fds : e[f] # None <=> f = Listener \/ f \in open

Wiped == [c \in 1 .. MaxRead |-> None]

\* What is in front of the first NUL.
TextOf(b) == {b[c] : c \in {x \in 1 .. MaxRead : \A a \in 1 .. x : b[a] # None}}

\* The buffer is empty when nobody waits to write; who waits and was not crossed
\* waits alone and finds the data of its client.
OwnData04(p, e, b, cr) ==
  /\ (\A f \in Fds : e[f] # "EPOLLOUT") => b = Wiped
  /\ \A f \in Fds : e[f] = "EPOLLOUT" /\ f \notin cr =>
       TextOf(b) = {p.peer[f]} /\ \A g \in Fds : e[g] = "EPOLLOUT" => g = f

Epoll04Ok(p, w, e, ev, b, cr) ==
  w \in {"wait", "events", "exited"} /\ Registered(e, OpenOf(Pair, p)) /\ OwnData04(p, e, b, cr)

Epoll04Inv ==
  /\ KernelOk(Pair, peer)
  /\ \E w, e, ev, b, cr : IsEpoll04(g_events, w, e, ev, b, cr) /\ Epoll04Ok(peer, w, e, ev, b, cr)

LEMMA Epoll04Names ==
  /\ EpollPair!Fds = Fds /\ EpollPair!Listener = Listener /\ EpollPair!None = None
  /\ EpollPair!Open = OpenOf(Pair, peer) /\ EpollPair!Cleared = Wiped /\ EpollPair!Text = TextOf(g_events.buf)
BY DEF EpollPair!Fds, Fds, Reactor01!Fds, EpollPair!Listener, Listener, Reactor01!Listener, EpollPair!None, None, Reactor01!None,
       EpollPair!Open, OpenOf, EpollPair!Cleared, Wiped, EpollPair!Text, TextOf

LEMMA Epoll04Least ==
  ASSUME NEW S \in SUBSET Nat, S # {}
  PROVE  EpollPair!Min(S) \in S /\ \A y \in S : EpollPair!Min(S) <= y
BY LeastExists DEF EpollPair!Min

LEMMA Epoll04Accepts ==
  ASSUME KernelOk(Pair, peer), NEW k \in peer.backlog, EpollPair!Accepting(k)
  PROVE  /\ EpollPair!NewFd \in Fds /\ peer.peer[EpollPair!NewFd] = None
         /\ peer' = [peer EXCEPT !.backlog = @ \ {k}, !.peer[EpollPair!NewFd] = k]
<1>1. PICK S : S = {f \in Fds : peer.peer[f] = None}
  OBVIOUS
<1>2. S \in SUBSET Nat /\ S # {} /\ EpollPair!NewFd = EpollPair!Min(S)
  BY <1>1, Epoll04Names, SmallFds DEF EpollPair!Accepting, EpollPair!NewFd, EpollPair!Closed
<1>3. EpollPair!NewFd \in S
  BY <1>2, Epoll04Least
<1>. QED BY <1>1, <1>3 DEF EpollPair!Accepting, EpollPair!Accepted

LEMMA KernelMisleads ==
  ASSUME KernelOk(Pair, peer), NEW f \in Fds, peer' = peer \/ peer' = [peer EXCEPT !.misled = @ \cup {peer.peer[f]}]
  PROVE  KernelOk(Pair, peer') /\ OpenOf(Pair, peer') = OpenOf(Pair, peer) /\ peer'.peer = peer.peer
<1>1. CASE peer' = [peer EXCEPT !.misled = @ \cup {peer.peer[f]}]
  <2>1. peer' = [peer |-> peer.peer, fresh |-> peer.fresh, backlog |-> peer.backlog, sent |-> peer.sent,
                 left |-> peer.left, reset |-> peer.reset, misled |-> peer.misled \cup {peer.peer[f]}]
    BY <1>1 DEF KernelOk, Kernels
  <2>2. peer' \in Kernels(Pair)
    BY <2>1 DEF KernelOk, Kernels
  <2>3. peer'.peer = peer.peer /\ peer'.fresh = peer.fresh /\ peer'.backlog = peer.backlog
    BY <2>1
  <2>. QED BY <2>2, <2>3 DEF KernelOk, OpenOf
<1>. QED BY <1>1

\* A read into the empty buffer leaves one reader's data in it.
LEMMA ReadAlone ==
  ASSUME NEW k, k # None, NEW n \in 1 .. MaxRead, NEW b, b = [c \in 1 .. MaxRead |-> IF c <= n THEN k ELSE Wiped[c]]
  PROVE  TextOf(b) = {k}
<1>1. \A c \in 1 .. MaxRead : b[c] = IF c <= n THEN k ELSE None
  BY DEF Wiped
<1>2. MaxRead \in Nat /\ 1 \in 1 .. MaxRead /\ 1 <= n
  BY SizesAssumption
<1>3. k \in TextOf(b)
  <2>1. \A a \in 1 .. 1 : b[a] # None /\ b[a] = k
    BY <1>1, <1>2
  <2>. QED BY <1>2, <2>1 DEF TextOf
<1>4. ASSUME NEW x \in TextOf(b) PROVE x = k
  <2>1. PICK c \in 1 .. MaxRead : x = b[c] /\ \A a \in 1 .. c : b[a] # None
    BY DEF TextOf
  <2>2. c \in 1 .. c
    BY <1>2
  <2>. QED BY <1>1, <2>1, <2>2
<1>. QED BY <1>3, <1>4

LEMMA RegisteredChanges ==
  ASSUME NEW e, NEW open, Registered(e, open), NEW f \in Fds, NEW v, NEW d, d = [e EXCEPT ![f] = v]
  PROVE  Changed(Fds, e, f, v, d)
BY DEF Registered, Changed

LEMMA Registers ==
  ASSUME NEW e, NEW open, Registered(e, open), NEW f, f # Listener, NEW v, v \in {"EPOLLIN", "EPOLLOUT"},
         NEW d, Changed(Fds, e, f, v, d)
  PROVE  Registered(d, open \cup {f})
<1>1. d \in [Fds -> {"EPOLLIN", "EPOLLOUT", None}]
  BY DEF Registered, Changed
<1>. QED BY <1>1, SmallFds DEF Registered, Changed

LEMMA Unregisters ==
  ASSUME NEW e, NEW open, Registered(e, open), NEW f, f # Listener, NEW d, Changed(Fds, e, f, None, d)
  PROVE  Registered(d, open \ {f})
<1>1. d \in [Fds -> {"EPOLLIN", "EPOLLOUT", None}]
  BY DEF Registered, Changed
<1>. QED BY <1>1, SmallFds DEF Registered, Changed

LEMMA InitEpoll04Inv == EpollPair!Init04 => Epoll04Inv
<1> SUFFICES ASSUME EpollPair!Init04 PROVE Epoll04Inv
  OBVIOUS
<1>1. KernelOk(Pair, peer) /\ OpenOf(Pair, peer) = {}
  <2>1. peer = StartNet(Pair)
    BY Epoll04Names DEF EpollPair!Init04, EpollPair!InitNet, StartNet
  <2>. QED BY <2>1, KernelStarts
<1>2. PICK e : e = [f \in Fds |-> IF f = Listener THEN "EPOLLIN" ELSE None]
  OBVIOUS
<1>3. IsEpoll04(g_events, "wait", e, {}, Wiped, {})
  BY <1>2, Epoll04Names DEF EpollPair!Init04, Epoll04Server, IsEpoll04
<1>4. Epoll04Ok(peer, "wait", e, {}, Wiped, {})
  BY <1>1, <1>2, SmallFds DEF Epoll04Ok, Registered, OwnData04
<1>. QED BY <1>1, <1>3, <1>4 DEF Epoll04Inv

\* handle_events takes the event away and goes on.
LEMMA Epoll04Handles ==
  ASSUME NEW f, NEW state, NEW w \in {"events", "exited"}, NEW e, NEW ev, NEW b, NEW cr, IsEpoll04(state, w, e, ev, b, cr)
  PROVE  \E w1 \in {"wait", "events", "exited"} : \E ev1 : IsEpoll04(EpollPair!handle_events(f, state), w1, e, ev1, b, cr)
<1>1. PICK w1, ev1 : ev1 = ev \ {f} /\ w1 = IF w = "exited" THEN w ELSE IF g_events.events = {f} THEN "wait" ELSE "events"
  OBVIOUS
<1>2. ASSUME NEW x, x = EpollPair!handle_events(f, state) PROVE x = Epoll04Server(w1, e, ev1, b, cr)
  BY <1>1, <1>2 DEF EpollPair!handle_events, IsEpoll04, Epoll04Server
<1>3. IsEpoll04(EpollPair!handle_events(f, state), w1, e, ev1, b, cr)
  BY <1>2, Zenon DEF IsEpoll04
<1>. QED BY <1>1, <1>3

\* What every step of an event amounts to.
LEMMA Epoll04Steps ==
  ASSUME NEW f, NEW w \in {"events", "exited"}, NEW e, NEW ev, NEW b, NEW cr, NEW state, IsEpoll04(state, w, e, ev, b, cr),
         g_events' = EpollPair!handle_events(f, state), KernelOk(Pair, peer'),
         Registered(e, OpenOf(Pair, peer')), OwnData04(peer', e, b, cr)
  PROVE  Epoll04Inv'
<1>1. PICK w1 \in {"wait", "events", "exited"} : \E ev1 : IsEpoll04(EpollPair!handle_events(f, state), w1, e, ev1, b, cr)
  BY Epoll04Handles
<1>2. PICK ev1 : IsEpoll04(g_events', w1, e, ev1, b, cr)
  BY <1>1
<1>3. Epoll04Ok(peer', w1, e, ev1, b, cr)
  BY DEF Epoll04Ok
<1>. QED BY <1>2, <1>3 DEF Epoll04Inv

LEMMA AcceptKeepsEpoll04Inv == Epoll04Inv /\ EpollPair!handle_accept => Epoll04Inv'
<1> SUFFICES ASSUME Epoll04Inv, EpollPair!handle_accept PROVE Epoll04Inv'
  OBVIOUS
<1>1. PICK w, e, ev, b, cr : IsEpoll04(g_events, w, e, ev, b, cr) /\ Epoll04Ok(peer, w, e, ev, b, cr)
  BY DEF Epoll04Inv
<1>2. KernelOk(Pair, peer) /\ w = "events" /\ w \in {"events", "exited"}
  BY <1>1 DEF Epoll04Inv, EpollPair!handle_accept, IsEpoll04, Epoll04Server
<1>3. Registered(e, OpenOf(Pair, peer)) /\ OwnData04(peer, e, b, cr)
  BY <1>1 DEF Epoll04Ok
<1>4. CASE peer' = peer /\ g_events' = EpollPair!handle_events(Listener, g_events)
  BY <1>1, <1>2, <1>3, <1>4, Epoll04Steps
<1>5. ASSUME NEW k \in peer.backlog, EpollPair!Accepting(k),
             g_events' = EpollPair!handle_events(Listener, EpollPair!modify_event(g_events, EpollPair!NewFd, "EPOLLIN"))
      PROVE  Epoll04Inv'
  <2>1. PICK f : f = EpollPair!NewFd
    OBVIOUS
  <2>2. f \in Fds /\ peer.peer[f] = None /\ peer' = [peer EXCEPT !.backlog = @ \ {k}, !.peer[f] = k]
    BY <1>2, <1>5, <2>1, Epoll04Accepts
  <2>3. /\ KernelOk(Pair, peer') /\ f \in Fds \ {0, Listener}
        /\ OpenOf(Pair, peer') = OpenOf(Pair, peer) \cup {f}
        /\ \A g \in Fds \ {f} : peer'.peer[g] = peer.peer[g]
    BY <1>2, <2>2, KernelAccepts
  <2>4. PICK d : d = [e EXCEPT ![f] = "EPOLLIN"]
    OBVIOUS
  <2>5. Registered(d, OpenOf(Pair, peer) \cup {f}) /\ d[f] = "EPOLLIN" /\ \A g \in Fds \ {f} : d[g] = e[g]
    <3>1. Changed(Fds, e, f, "EPOLLIN", d)
      BY <1>3, <2>2, <2>3, <2>4, <1>2, RegisteredChanges
    <3>2. f # Listener
      BY <1>3, <2>2, <2>3, <2>4, <1>2
    <3>. QED BY <1>3, <3>1, <3>2, Registers DEF Changed
  <2>6. OwnData04(peer', d, b, cr)
    <3>1. e[f] # "EPOLLOUT"
      <4>1. f \notin OpenOf(Pair, peer) /\ f # Listener
        BY <2>2, <2>3, Strangers, SmallFds DEF OpenOf
      <4>. QED BY <1>3, <2>2, <4>1, SmallFds DEF Registered
    <3>. QED BY <1>3, <2>3, <2>5, <3>1 DEF OwnData04
  <2>7. PICK state : state = EpollPair!modify_event(g_events, f, "EPOLLIN") /\ g_events' = EpollPair!handle_events(Listener, state)
    BY <1>5, <2>1
  <2>8. IsEpoll04(state, w, d, ev, b, cr)
    BY <1>1, <2>4, <2>7 DEF IsEpoll04, Epoll04Server, EpollPair!modify_event
  <2>9. Registered(d, OpenOf(Pair, peer'))
    BY <2>3, <2>5
  <2>. QED BY <1>2, <2>3, <2>6, <2>7, <2>8, <2>9, Epoll04Steps
<1>. QED BY <1>4, <1>5, Epoll04Names DEF EpollPair!handle_accept

LEMMA ReadKeepsEpoll04Inv ==
  ASSUME Epoll04Inv, NEW f \in Fds, EpollPair!do_read(f)
  PROVE  Epoll04Inv'
<1>1. PICK w, e, ev, b, cr : IsEpoll04(g_events, w, e, ev, b, cr) /\ Epoll04Ok(peer, w, e, ev, b, cr)
  BY DEF Epoll04Inv
<1>2. /\ KernelOk(Pair, peer) /\ w = "events" /\ w \in {"events", "exited"} /\ f # Listener
      /\ e[f] = "EPOLLIN" /\ g_events.epoll = e
  BY <1>1, Epoll04Names DEF Epoll04Inv, EpollPair!do_read, IsEpoll04, Epoll04Server
<1>3. Registered(e, OpenOf(Pair, peer)) /\ OwnData04(peer, e, b, cr)
  BY <1>1 DEF Epoll04Ok
<1>4. f \in OpenOf(Pair, peer) /\ f \in Fds \ {0, Listener}
  BY <1>2, <1>3, SmallFds, OpenFacts DEF Registered
<1>5. CASE EpollPair!ReadResult(f) = "data"
  <2>1. PICK n \in 1 .. MaxRead : \E state :
          /\ state = [EpollPair!modify_event(g_events, f, "EPOLLOUT") EXCEPT
                        !.buf = [c \in 1 .. MaxRead |-> IF c <= n THEN peer.peer[f] ELSE @[c]],
                        !.crossed = EpollPair!Crossing(f)]
          /\ g_events' = EpollPair!handle_events(f, state) /\ peer' = EpollPair!ReadFrom(f)
    BY <1>5 DEF EpollPair!do_read
  <2>2. PICK state : /\ state = [EpollPair!modify_event(g_events, f, "EPOLLOUT") EXCEPT
                                   !.buf = [c \in 1 .. MaxRead |-> IF c <= n THEN peer.peer[f] ELSE @[c]],
                                   !.crossed = EpollPair!Crossing(f)]
                     /\ g_events' = EpollPair!handle_events(f, state) /\ peer' = EpollPair!ReadFrom(f)
    BY <2>1
  <2>3. PICK b1, cr1 : b1 = [c \in 1 .. MaxRead |-> IF c <= n THEN peer.peer[f] ELSE b[c]] /\ cr1 = EpollPair!Crossing(f)
    OBVIOUS
  <2>4. PICK d : d = [e EXCEPT ![f] = "EPOLLOUT"]
    OBVIOUS
  <2>5. IsEpoll04(state, w, d, ev, b1, cr1)
    BY <1>1, <2>3, <2>2, <2>4 DEF IsEpoll04, Epoll04Server, EpollPair!modify_event
  <2>6. KernelOk(Pair, peer') /\ OpenOf(Pair, peer') = OpenOf(Pair, peer) /\ peer'.peer = peer.peer
    BY <1>2, <2>2, KernelReads DEF EpollPair!ReadFrom
  <2>7. Registered(d, OpenOf(Pair, peer) \cup {f}) /\ d[f] = "EPOLLOUT" /\ \A g \in Fds \ {f} : d[g] = e[g]
    <3>1. Changed(Fds, e, f, "EPOLLOUT", d)
      BY <1>2, <1>3, <2>4, RegisteredChanges
    <3>2. f # Listener
      BY <1>2, <1>3, <2>4
    <3>. QED BY <1>3, <3>1, <3>2, Registers DEF Changed
  <2>8. Registered(d, OpenOf(Pair, peer'))
    <3>1. OpenOf(Pair, peer) \cup {f} = OpenOf(Pair, peer')
      BY <1>4, <2>6
    <3>. QED BY <2>7, <3>1
  <2>9. OwnData04(peer', d, b1, cr1)
    <3>1. EpollPair!Others(f) = {g \in Fds : e[g] = "EPOLLOUT"}
      BY <1>2, Epoll04Names DEF EpollPair!Others, EpollPair!Waiting
    <3>2. CASE EpollPair!Others(f) = {}
      <4>1. b = Wiped
        BY <1>3, <3>1, <3>2 DEF OwnData04
      <4>2. peer.peer[f] # None
        BY <1>4, Strangers, SmallFds DEF OpenOf
      <4>3. TextOf(b1) = {peer.peer[f]}
        <5>1. PICK k : k = peer.peer[f]
          OBVIOUS
        <5>2. b1 = [c \in 1 .. MaxRead |-> IF c <= n THEN k ELSE Wiped[c]] /\ k # None
          BY <2>3, <4>1, <4>2, <5>1, Zenon
        <5>3. TextOf(b1) = {k}
          BY ONLY <5>2, n \in 1 .. MaxRead, ReadAlone
        <5>. QED BY <5>1, <5>3
      <4>4. \A g \in Fds : d[g] = "EPOLLOUT" => g = f
        BY <2>7, <3>1, <3>2
      <4>. QED BY <2>6, <2>7, <4>3, <4>4 DEF OwnData04
    <3>3. CASE EpollPair!Others(f) # {}
      <4>1. \A g \in Fds : d[g] = "EPOLLOUT" => g \in cr1
        BY <2>7, <2>3, <3>1, <3>3 DEF EpollPair!Crossing
      <4>. QED BY <2>7, <4>1 DEF OwnData04
    <3>. QED BY <3>2, <3>3
  <2>. QED BY <1>2, <2>2, <2>5, <2>6, <2>8, <2>9, Epoll04Steps
<1>6. CASE EpollPair!ReadResult(f) # "data"
  <2>1. PICK state : /\ state = EpollPair!modify_event(g_events, f, None)
                     /\ g_events' = EpollPair!handle_events(f, state) /\ peer' = EpollPair!Close(f)
    BY <1>6, Epoll04Names DEF EpollPair!do_read
  <2>2. PICK d : d = [e EXCEPT ![f] = None]
    OBVIOUS
  <2>3. IsEpoll04(state, w, d, ev, b, cr)
    BY <1>1, <2>1, <2>2 DEF IsEpoll04, Epoll04Server, EpollPair!modify_event
  <2>4. /\ KernelOk(Pair, peer') /\ OpenOf(Pair, peer') = OpenOf(Pair, peer) \ {f}
        /\ \A g \in Fds \ {f} : peer'.peer[g] = peer.peer[g]
    BY <1>2, <1>4, <2>1, KernelCloses, Epoll04Names DEF EpollPair!Close
  <2>5. Registered(d, OpenOf(Pair, peer) \ {f}) /\ d[f] = None /\ \A g \in Fds \ {f} : d[g] = e[g]
    <3>1. Changed(Fds, e, f, None, d)
      BY <1>2, <1>3, <2>2, RegisteredChanges
    <3>2. f # Listener
      BY <1>2, <1>3, <2>2
    <3>. QED BY <1>3, <3>1, <3>2, Unregisters DEF Changed
  <2>6. Registered(d, OpenOf(Pair, peer')) /\ OwnData04(peer', d, b, cr)
    BY <1>2, <1>3, <2>4, <2>5, SmallFds DEF OwnData04
  <2>. QED BY <1>2, <2>1, <2>3, <2>4, <2>6, Epoll04Steps
<1>. QED BY <1>5, <1>6

LEMMA WriteKeepsEpoll04Inv ==
  ASSUME Epoll04Inv, NEW f \in Fds, EpollPair!do_write(f)
  PROVE  Epoll04Inv'
<1>1. PICK w, e, ev, b, cr : IsEpoll04(g_events, w, e, ev, b, cr) /\ Epoll04Ok(peer, w, e, ev, b, cr)
  BY DEF Epoll04Inv
<1>2. /\ KernelOk(Pair, peer) /\ w = "events" /\ w \in {"events", "exited"}
      /\ e[f] = "EPOLLOUT" /\ g_events.epoll = e
  BY <1>1, Epoll04Names DEF Epoll04Inv, EpollPair!do_write, IsEpoll04, Epoll04Server
<1>3. Registered(e, OpenOf(Pair, peer)) /\ f # Listener
  BY <1>1, <1>2 DEF Epoll04Ok, Registered
<1>4. f \in OpenOf(Pair, peer) /\ f \in Fds \ {0, Listener}
  BY <1>2, <1>3, SmallFds, OpenFacts DEF Registered
<1>5. PICK cr1 : cr1 = cr \ {f}
  OBVIOUS
<1>6. \A g \in Fds \ {f} : e[g] = "EPOLLOUT" => g \in cr1
  BY <1>1, <1>2, <1>5 DEF Epoll04Ok, OwnData04
<1>7. ASSUME peer' = peer \/ peer' = [peer EXCEPT !.misled = @ \cup {peer.peer[f]}],
             NEW w0 \in EpollPair!AfterWrite(f, "events"), NEW state,
             state = [EpollPair!modify_event(g_events, f, "EPOLLIN") EXCEPT !.buf = Wiped, !.at = w0, !.crossed = @ \ {f}],
             g_events' = EpollPair!handle_events(f, state)
      PROVE  Epoll04Inv'
  <2>1. w0 \in {"events", "exited"}
    BY DEF EpollPair!AfterWrite
  <2>2. PICK d : d = [e EXCEPT ![f] = "EPOLLIN"]
    OBVIOUS
  <2>3. IsEpoll04(state, w0, d, ev, Wiped, cr1)
    BY <1>1, <1>5, <1>7, <2>2 DEF IsEpoll04, Epoll04Server, EpollPair!modify_event
  <2>4. KernelOk(Pair, peer') /\ OpenOf(Pair, peer') = OpenOf(Pair, peer) /\ peer'.peer = peer.peer
    BY <1>2, <1>7, KernelMisleads
  <2>5. Registered(d, OpenOf(Pair, peer) \cup {f}) /\ d[f] = "EPOLLIN" /\ \A g \in Fds \ {f} : d[g] = e[g]
    <3>1. Changed(Fds, e, f, "EPOLLIN", d)
      BY <1>3, <2>2, <1>2, RegisteredChanges
    <3>2. f # Listener
      BY <1>3, <2>2, <1>2
    <3>. QED BY <1>3, <3>1, <3>2, Registers DEF Changed
  <2>6. Registered(d, OpenOf(Pair, peer'))
    <3>1. OpenOf(Pair, peer) \cup {f} = OpenOf(Pair, peer')
      BY <1>4, <2>4
    <3>. QED BY <2>5, <3>1
  <2>7. OwnData04(peer', d, Wiped, cr1)
    BY <1>6, <2>5 DEF OwnData04
  <2>. QED BY <1>7, <2>1, <2>3, <2>4, <2>6, <2>7, Epoll04Steps
<1>8. ASSUME peer' = EpollPair!Close(f), NEW state,
             state = [EpollPair!modify_event(g_events, f, None) EXCEPT !.buf = Wiped, !.crossed = @ \ {f}],
             g_events' = EpollPair!handle_events(f, state)
      PROVE  Epoll04Inv'
  <2>1. PICK d : d = [e EXCEPT ![f] = None]
    OBVIOUS
  <2>2. IsEpoll04(state, w, d, ev, Wiped, cr1)
    BY <1>1, <1>5, <1>8, <2>1 DEF IsEpoll04, Epoll04Server, EpollPair!modify_event
  <2>3. KernelOk(Pair, peer') /\ OpenOf(Pair, peer') = OpenOf(Pair, peer) \ {f}
    BY <1>2, <1>4, <1>8, KernelCloses, Epoll04Names DEF EpollPair!Close
  <2>4. Registered(d, OpenOf(Pair, peer) \ {f}) /\ d[f] = None /\ \A g \in Fds \ {f} : d[g] = e[g]
    <3>1. Changed(Fds, e, f, None, d)
      BY <1>3, <2>1, <1>2, RegisteredChanges
    <3>2. f # Listener
      BY <1>3, <2>1, <1>2
    <3>. QED BY <1>3, <3>1, <3>2, Unregisters DEF Changed
  <2>5. Registered(d, OpenOf(Pair, peer')) /\ OwnData04(peer', d, Wiped, cr1)
    BY <1>6, <2>3, <2>4, SmallFds DEF OwnData04
  <2>. QED BY <1>2, <1>8, <2>2, <2>3, <2>5, Epoll04Steps
<1>. QED BY <1>7, <1>8, Epoll04Names DEF EpollPair!do_write

LEMMA NextKeepsEpoll04Inv == Epoll04Inv /\ EpollPair!Next04 => Epoll04Inv'
<1>1. ASSUME Epoll04Inv, EpollPair!do_epoll PROVE Epoll04Inv'
  <2>1. PICK w, e, ev, b, cr : IsEpoll04(g_events, w, e, ev, b, cr) /\ Epoll04Ok(peer, w, e, ev, b, cr)
    BY <1>1 DEF Epoll04Inv
  <2>2. PICK ready : g_events' = [g_events EXCEPT !.events = ready, !.at = "events"] /\ peer' = peer
    BY <1>1 DEF EpollPair!do_epoll
  <2>3. IsEpoll04(g_events', "events", e, ready, b, cr)
    BY <2>1, <2>2 DEF IsEpoll04, Epoll04Server
  <2>4. Epoll04Ok(peer', "events", e, ready, b, cr)
    BY <2>1, <2>2 DEF Epoll04Ok
  <2>. QED BY <1>1, <2>2, <2>3, <2>4 DEF Epoll04Inv
<1>2. ASSUME Epoll04Inv, EpollPair!Network PROVE Epoll04Inv'
  <2>1. PICK k \in Pair : EpollPair!ClientConnects(k) \/ EpollPair!ClientSends(k) \/ EpollPair!ClientLeaves(k)
    BY <1>2 DEF EpollPair!Network
  <2>2. KernelOk(Pair, peer') /\ OpenOf(Pair, peer') = OpenOf(Pair, peer) /\ peer'.peer = peer.peer /\ g_events' = g_events
    BY <1>2, <2>1, KernelHears
       DEF Epoll04Inv, EpollPair!Network, EpollPair!ClientConnects, EpollPair!ClientSends, EpollPair!ClientLeaves
  <2>3. ASSUME NEW w, NEW e, NEW ev, NEW b, NEW cr, Epoll04Ok(peer, w, e, ev, b, cr) PROVE Epoll04Ok(peer', w, e, ev, b, cr)
    BY <2>2, <2>3 DEF Epoll04Ok, OwnData04
  <2>. QED BY <1>2, <2>2, <2>3 DEF Epoll04Inv
<1>3. EpollPair!Fds = Fds
  BY Epoll04Names
<1>. QED BY <1>1, <1>2, <1>3, AcceptKeepsEpoll04Inv, ReadKeepsEpoll04Inv, WriteKeepsEpoll04Inv
         DEF EpollPair!Next04, EpollPair!main04

LEMMA Epoll04InvGives == Epoll04Inv => EpollPair!Bookkeeping04
<1> SUFFICES ASSUME Epoll04Inv PROVE EpollPair!Bookkeeping04
  OBVIOUS
<1>1. PICK w, e, ev, b, cr : IsEpoll04(g_events, w, e, ev, b, cr) /\ Epoll04Ok(peer, w, e, ev, b, cr)
  BY DEF Epoll04Inv
<1>2. g_events.epoll = e /\ g_events.buf = b /\ g_events.crossed = cr /\ KernelOk(Pair, peer)
  BY <1>1 DEF IsEpoll04, Epoll04Server, Epoll04Inv
<1>3. Registered(e, OpenOf(Pair, peer)) /\ OwnData04(peer, e, b, cr)
  BY <1>1 DEF Epoll04Ok
<1>4. {f \in Fds : e[f] # None} = {Listener} \cup OpenOf(Pair, peer)
  BY <1>3, SmallFds DEF Registered, OpenOf
<1>5. EpollPair!Waiting("EPOLLOUT") = {f \in Fds : e[f] = "EPOLLOUT"}
  BY <1>2, Epoll04Names DEF EpollPair!Waiting
<1>6. EpollPair!Waiting("EPOLLOUT") = {} => b = Wiped
  BY <1>3, <1>5 DEF OwnData04
<1>7. \A f \in EpollPair!Waiting("EPOLLOUT") \ cr : TextOf(b) = {peer.peer[f]} /\ EpollPair!Waiting("EPOLLOUT") = {f}
  BY <1>3, <1>5 DEF OwnData04
<1>. QED BY <1>2, <1>4, <1>6, <1>7, Epoll04Names DEF EpollPair!Bookkeeping04

-----------------------------------------------------------------------------
\* mult_thread_concurrent/server.c

ThreadsServer(w, i, c, th, wh) == [at |-> w, i |-> i, connfd |-> c, thread |-> th, whose |-> wh]

IsThreads(s, w, i, c, th, wh) == s = ThreadsServer(w, i, c, th, wh)

ThreadSlots == 0 .. MaxThreads - 1

\* An element was filled and its thread has not closed the descriptor.
Live(th, wh, e) == wh[e] # None /\ th[e] # "done"

\* Every connection is the one of a live element, which leads to its client.
Served(p, c, th, wh) ==
  /\ \A e \in ThreadSlots : Live(th, wh, e) => c[e] \in Fds /\ p.peer[c[e]] = wh[e]
  /\ \A d, e \in ThreadSlots : Live(th, wh, d) /\ Live(th, wh, e) /\ c[d] = c[e] => d = e
  /\ \A f \in OpenOf(Clients, p) : \E e \in ThreadSlots : Live(th, wh, e) /\ c[e] = f

\* The elements from i on have no thread, those behind it are not filled.
Unfilled(w, i, th, wh) ==
  /\ \A e \in ThreadSlots : th[e] = "running" => wh[e] # None
  /\ \A e \in ThreadSlots : e >= i => th[e] = None
  /\ \A e \in ThreadSlots : e > i => wh[e] = None
  /\ w = "create" => i \in ThreadSlots /\ wh[i] # None
  /\ w = "accept" => \A e \in ThreadSlots : e = i => wh[e] = None

ThreadsOk(p, w, i, c, th, wh) ==
  /\ w \in {"accept", "create", "exited"} /\ i \in 0 .. MaxThreads /\ p.misled = {}
  /\ c \in [ThreadSlots -> Fds \cup {-1}] /\ th \in [ThreadSlots -> {"running", "never", "done", None}]
  /\ wh \in [ThreadSlots -> Clients \cup {None}]
  /\ Unfilled(w, i, th, wh) /\ Served(p, c, th, wh)

ThreadsInv ==
  /\ KernelOk(Clients, peer)
  /\ \/ g_events.at = "overrun"
     \/ \E w, i, c, th, wh : IsThreads(g_events, w, i, c, th, wh) /\ ThreadsOk(peer, w, i, c, th, wh)

LEMMA ThreadNames == Poll!Elements = ThreadSlots /\ ThreadSlots \subseteq Nat /\ \A e \in ThreadSlots : e + 1 \in 0 .. MaxThreads
BY SizesAssumption DEF Poll!Elements, ThreadSlots

LEMMA InitThreadsInv == Poll!InitThreads => ThreadsInv
<1> SUFFICES ASSUME Poll!InitThreads PROVE ThreadsInv
  OBVIOUS
<1>1. KernelOk(Clients, peer) /\ OpenOf(Clients, peer) = {} /\ peer.misled = {}
  <2>1. peer = StartNet(Clients)
    BY PollNames DEF Poll!InitThreads, Poll!InitNet, StartNet
  <2>. QED BY <2>1, KernelStarts
<1>2. PICK c, th : c = [e \in ThreadSlots |-> -1] /\ th = [e \in ThreadSlots |-> None]
  OBVIOUS
<1>3. IsThreads(g_events, "accept", 0, c, th, th)
  BY <1>2, PollNames, ThreadNames DEF Poll!InitThreads, IsThreads, ThreadsServer
<1>4. ThreadsOk(peer, "accept", 0, c, th, th)
  <2>1. Served(peer, c, th, th)
    BY <1>1, <1>2 DEF Served, Live
  <2>2. Unfilled("accept", 0, th, th)
    BY <1>2, SmallFds DEF Unfilled
  <2>. QED BY <1>1, <1>2, <2>1, <2>2, SizesAssumption DEF ThreadsOk
<1>. QED BY <1>1, <1>3, <1>4 DEF ThreadsInv

LEMMA AcceptKeepsThreadsInv == ThreadsInv /\ Poll!AcceptThreads => ThreadsInv'
<1> SUFFICES ASSUME ThreadsInv, Poll!AcceptThreads PROVE ThreadsInv'
  OBVIOUS
<1>1. PICK w, i, c, th, wh : IsThreads(g_events, w, i, c, th, wh) /\ ThreadsOk(peer, w, i, c, th, wh)
  BY DEF ThreadsInv, Poll!AcceptThreads
<1>2. KernelOk(Clients, peer) /\ w = "accept" /\ g_events.i = i /\ i \in 0 .. MaxThreads
  BY <1>1 DEF ThreadsInv, Poll!AcceptThreads, IsThreads, ThreadsServer, ThreadsOk
<1>0. PICK f : f = Poll!NewFd
  OBVIOUS
<1>3. PICK k \in peer.backlog :
        /\ Poll!Accepting(k)
        /\ IF i = MaxThreads THEN g_events' = [g_events EXCEPT !.at = "overrun"]
           ELSE g_events' = [g_events EXCEPT !.connfd[i] = f, !.whose[i] = k, !.at = "create"]
  BY <1>0, <1>2 DEF Poll!AcceptThreads
<1>4. f \in Fds /\ peer.peer[f] = None /\ peer' = [peer EXCEPT !.backlog = @ \ {k}, !.peer[f] = k]
  BY <1>0, <1>2, <1>3, PollAccepts
<1>5. /\ KernelOk(Clients, peer') /\ k \in Clients /\ f \notin OpenOf(Clients, peer)
      /\ OpenOf(Clients, peer') = OpenOf(Clients, peer) \cup {f} /\ peer'.peer[f] = k /\ peer'.misled = peer.misled
      /\ \A g \in Fds \ {f} : peer'.peer[g] = peer.peer[g]
  BY <1>2, <1>4, KernelAccepts
<1>6. CASE i = MaxThreads
  <2>1. g_events'.at = "overrun"
    BY <1>1, <1>3, <1>6 DEF IsThreads, ThreadsServer
  <2>. QED BY <1>5, <2>1 DEF ThreadsInv
<1>7. CASE i # MaxThreads
  <2>1. i \in ThreadSlots /\ i \in Nat
    BY <1>2, <1>7, SizesAssumption DEF ThreadSlots
  <2>2. PICK c1, wh1 : c1 = [c EXCEPT ![i] = f] /\ wh1 = [wh EXCEPT ![i] = k]
    OBVIOUS
  <2>3. IsThreads(g_events', "create", i, c1, th, wh1)
    BY <1>1, <1>3, <1>7, <2>2 DEF IsThreads, ThreadsServer
  <2>4. /\ c \in [ThreadSlots -> Fds \cup {-1}] /\ th \in [ThreadSlots -> {"running", "never", "done", None}]
        /\ wh \in [ThreadSlots -> Clients \cup {None}] /\ peer.misled = {}
        /\ Unfilled(w, i, th, wh) /\ Served(peer, c, th, wh)
    BY <1>1 DEF ThreadsOk
  <2>5. /\ c1 \in [ThreadSlots -> Fds \cup {-1}] /\ wh1 \in [ThreadSlots -> Clients \cup {None}]
        /\ c1[i] = f /\ wh1[i] = k /\ \A e \in ThreadSlots \ {i} : c1[e] = c[e] /\ wh1[e] = wh[e]
    BY <1>4, <1>5, <2>1, <2>2, <2>4
  <2>6. k # None /\ wh[i] = None /\ th[i] = None
    BY <1>2, <1>5, <2>1, <2>4, Strangers, SmallFds DEF Unfilled
  <2>7. \A e \in ThreadSlots : Live(th, wh1, e) <=> Live(th, wh, e) \/ e = i
    BY <2>1, <2>5, <2>6, SmallFds DEF Live
  <2>8. \A e \in ThreadSlots : Live(th, wh, e) => e # i /\ c[e] \in Fds /\ c[e] # f /\ peer.peer[c[e]] = wh[e]
    <3>1. \A e \in ThreadSlots : Live(th, wh, e) => e # i /\ c[e] \in Fds /\ peer.peer[c[e]] = wh[e] /\ wh[e] \in Clients
      BY <2>4, <2>6 DEF Served, Live
    <3>. QED BY <1>5, <3>1 DEF OpenOf
  <2>9. Served(peer', c1, th, wh1)
    <3>1. \A e \in ThreadSlots : Live(th, wh1, e) => c1[e] \in Fds /\ peer'.peer[c1[e]] = wh1[e]
      BY <1>4, <1>5, <2>5, <2>7, <2>8
    <3>2. \A d, e \in ThreadSlots : Live(th, wh1, d) /\ Live(th, wh1, e) /\ c1[d] = c1[e] => d = e
      BY <2>4, <2>5, <2>7, <2>8 DEF Served
    <3>3. \A g \in OpenOf(Clients, peer') : \E e \in ThreadSlots : Live(th, wh1, e) /\ c1[e] = g
      BY <1>5, <2>1, <2>4, <2>5, <2>7, <2>8 DEF Served
    <3>. QED BY <3>1, <3>2, <3>3 DEF Served
  <2>10. Unfilled("create", i, th, wh1)
    BY <2>1, <2>4, <2>5, <2>6 DEF Unfilled
  <2>11. ThreadsOk(peer', "create", i, c1, th, wh1)
    BY <1>2, <1>5, <2>4, <2>5, <2>9, <2>10 DEF ThreadsOk
  <2>. QED BY <1>5, <2>3, <2>11 DEF ThreadsInv
<1>. QED BY <1>6, <1>7

LEMMA CreateKeepsThreadsInv == ThreadsInv /\ Poll!CreateThread => ThreadsInv'
<1> SUFFICES ASSUME ThreadsInv, Poll!CreateThread PROVE ThreadsInv'
  OBVIOUS
<1>1. PICK w, i, c, th, wh : IsThreads(g_events, w, i, c, th, wh) /\ ThreadsOk(peer, w, i, c, th, wh)
  BY DEF ThreadsInv, Poll!CreateThread
<1>2. KernelOk(Clients, peer) /\ w = "create" /\ g_events.i = i
  BY <1>1 DEF ThreadsInv, Poll!CreateThread, IsThreads, ThreadsServer, ThreadsOk
<1>3. PICK t \in {"running", "never"} :
        peer' = peer /\ g_events' = [g_events EXCEPT !.thread[i] = t, !.i = @ + 1, !.at = "accept"]
  BY <1>2 DEF Poll!CreateThread
<1>4. PICK th1, i1 : th1 = [th EXCEPT ![i] = t] /\ i1 = i + 1
  OBVIOUS
<1>5. IsThreads(g_events', "accept", i1, c, th1, wh)
  BY <1>1, <1>3, <1>4 DEF IsThreads, ThreadsServer
<1>6. /\ c \in [ThreadSlots -> Fds \cup {-1}] /\ th \in [ThreadSlots -> {"running", "never", "done", None}]
      /\ wh \in [ThreadSlots -> Clients \cup {None}] /\ peer.misled = {}
      /\ Unfilled(w, i, th, wh) /\ Served(peer, c, th, wh)
  BY <1>1 DEF ThreadsOk
<1>7. i \in ThreadSlots /\ i \in Nat /\ wh[i] # None /\ th[i] = None /\ i1 \in 0 .. MaxThreads
  <2>1. i \in ThreadSlots /\ wh[i] # None
    BY <1>2, <1>6 DEF Unfilled
  <2>2. i \in Nat /\ i1 \in 0 .. MaxThreads
    BY <1>4, <2>1, ThreadNames
  <2>. QED BY <1>6, <2>1, <2>2 DEF Unfilled
<1>8. th1 \in [ThreadSlots -> {"running", "never", "done", None}] /\ th1[i] = t /\ \A e \in ThreadSlots \ {i} : th1[e] = th[e]
  BY <1>4, <1>6, <1>7
<1>9. \A e \in ThreadSlots : Live(th1, wh, e) <=> Live(th, wh, e)
  BY <1>7, <1>8, SmallFds DEF Live
<1>10. Served(peer, c, th1, wh)
  BY <1>6, <1>9 DEF Served
<1>11. Unfilled("accept", i1, th1, wh)
  <2>1. \A e \in ThreadSlots : e >= i1 => e > i /\ e >= i /\ e # i
    BY <1>4, <1>7, ThreadNames
  <2>2. \A e \in ThreadSlots : e > i1 \/ e = i1 => e > i
    BY <1>4, <1>7, ThreadNames
  <2>3. \A e \in ThreadSlots : th1[e] = "running" => wh[e] # None
    BY <1>6, <1>7, <1>8 DEF Unfilled
  <2>4. \A e \in ThreadSlots : e >= i1 => th1[e] = None
    BY <1>6, <1>8, <2>1 DEF Unfilled
  <2>5. \A e \in ThreadSlots : e > i1 \/ e = i1 => wh[e] = None
    BY <1>6, <2>2 DEF Unfilled
  <2>. QED BY <2>3, <2>4, <2>5 DEF Unfilled
<1>12. ThreadsOk(peer', "accept", i1, c, th1, wh)
  BY <1>3, <1>6, <1>7, <1>8, <1>10, <1>11 DEF ThreadsOk
<1>. QED BY <1>2, <1>3, <1>5, <1>12 DEF ThreadsInv

LEMMA WorkKeepsThreadsInv ==
  ASSUME ThreadsInv, NEW e \in ThreadSlots, Poll!do_work(e)
  PROVE  ThreadsInv'
<1>1. PICK w, i, c, th, wh : IsThreads(g_events, w, i, c, th, wh) /\ ThreadsOk(peer, w, i, c, th, wh)
  BY DEF ThreadsInv, Poll!do_work
<1>2. KernelOk(Clients, peer) /\ g_events.at = w /\ g_events.whose = wh /\ g_events.thread = th /\ g_events.connfd = c
  BY <1>1 DEF ThreadsInv, IsThreads, ThreadsServer
<1>3. /\ c \in [ThreadSlots -> Fds \cup {-1}] /\ th \in [ThreadSlots -> {"running", "never", "done", None}]
      /\ wh \in [ThreadSlots -> Clients \cup {None}] /\ peer.misled = {} /\ w \in {"accept", "create", "exited"}
      /\ i \in 0 .. MaxThreads /\ Unfilled(w, i, th, wh) /\ Served(peer, c, th, wh)
  BY <1>1 DEF ThreadsOk
<1>4. PICK f : f = c[e]
  OBVIOUS
<1>5. Poll!Connection(e) = f /\ th[e] = "running" /\ Live(th, wh, e)
  BY <1>2, <1>3, <1>4 DEF Poll!do_work, Poll!Connection, Unfilled, Live
<1>6. f \in Fds /\ peer.peer[f] = wh[e] /\ wh[e] \in Clients
  BY <1>3, <1>4, <1>5 DEF Served, Live
<1>7. ASSUME peer' = Poll!ReadFrom(f), NEW w1 \in {w, "exited"}, g_events' = [g_events EXCEPT !.at = w1] PROVE ThreadsInv'
  <2>1. /\ KernelOk(Clients, peer') /\ OpenOf(Clients, peer') = OpenOf(Clients, peer) /\ peer'.peer = peer.peer
        /\ peer'.misled = peer.misled
    BY <1>2, <1>6, <1>7, KernelReads DEF Poll!ReadFrom
  <2>2. IsThreads(g_events', w1, i, c, th, wh)
    BY <1>1, <1>7 DEF IsThreads, ThreadsServer
  <2>3. Served(peer', c, th, wh) /\ Unfilled(w1, i, th, wh)
    BY <1>3, <1>7, <2>1 DEF Served, Unfilled
  <2>4. ThreadsOk(peer', w1, i, c, th, wh)
    BY <1>3, <1>7, <2>1, <2>3 DEF ThreadsOk
  <2>. QED BY <2>1, <2>2, <2>4 DEF ThreadsInv
<1>8. CASE Poll!ReadResult(f) = "data"
  <2>1. /\ peer' = [Poll!ReadFrom(f) EXCEPT !.misled = IF peer.peer[f] = wh[e] THEN @ ELSE @ \cup {peer.peer[f]}]
        /\ \E w1 \in Poll!AfterWrite(f, w) : g_events' = [g_events EXCEPT !.at = w1]
    BY <1>2, <1>5, <1>8 DEF Poll!do_work
  <2>2. peer' = Poll!ReadFrom(f)
    <3>1. PICK p : p = Poll!ReadFrom(f)
      OBVIOUS
    <3>2. PICK se, re : p = [peer |-> peer.peer, fresh |-> peer.fresh, backlog |-> peer.backlog, sent |-> se,
                             left |-> peer.left, reset |-> re, misled |-> peer.misled]
      BY <1>2, <3>1 DEF Poll!ReadFrom, KernelOk, Kernels
    <3>3. peer' = [p EXCEPT !.misled = @]
      BY <1>6, <2>1, <3>1
    <3>4. peer' = p
      BY <3>2, <3>3
    <3>. QED BY <3>1, <3>4
  <2>3. Poll!AfterWrite(f, w) \subseteq {w, "exited"}
    BY DEF Poll!AfterWrite
  <2>. QED BY <1>7, <2>1, <2>2, <2>3
<1>9. CASE Poll!ReadResult(f) = "error"
  <2>1. peer' = Poll!ReadFrom(f) /\ g_events' = g_events
    BY <1>5, <1>9 DEF Poll!do_work
  <2>2. g_events' = [g_events EXCEPT !.at = w]
    BY <1>1, <2>1 DEF IsThreads, ThreadsServer
  <2>. QED BY <1>7, <2>1, <2>2
<1>10. CASE Poll!ReadResult(f) = "end"
  <2>1. peer' = Poll!Close(f) /\ g_events' = [g_events EXCEPT !.thread[e] = "done"]
    BY <1>5, <1>10 DEF Poll!do_work
  <2>2. PICK th1 : th1 = [th EXCEPT ![e] = "done"]
    OBVIOUS
  <2>3. IsThreads(g_events', w, i, c, th1, wh)
    BY <1>1, <2>1, <2>2 DEF IsThreads, ThreadsServer
  <2>4. f \in OpenOf(Clients, peer) /\ f \in Fds \ {0, Listener}
    BY <1>2, <1>6, OpenFacts DEF OpenOf
  <2>5. /\ KernelOk(Clients, peer') /\ OpenOf(Clients, peer') = OpenOf(Clients, peer) \ {f} /\ peer'.misled = peer.misled
        /\ \A g \in Fds \ {f} : peer'.peer[g] = peer.peer[g]
    BY <1>2, <2>1, <2>4, KernelCloses, PollNames DEF Poll!Close
  <2>6. th1 \in [ThreadSlots -> {"running", "never", "done", None}] /\ th1[e] = "done" /\ \A d \in ThreadSlots \ {e} : th1[d] = th[d]
    BY <1>3, <2>2
  <2>7. \A d \in ThreadSlots : Live(th1, wh, d) <=> Live(th, wh, d) /\ d # e
    BY <2>6 DEF Live
  <2>8. \A d \in ThreadSlots : Live(th1, wh, d) => c[d] \in Fds \ {f} /\ peer.peer[c[d]] = wh[d]
    BY <1>3, <1>4, <1>5, <2>7 DEF Served
  <2>9. Served(peer', c, th1, wh)
    <3>1. \A d \in ThreadSlots : Live(th1, wh, d) => c[d] \in Fds /\ peer'.peer[c[d]] = wh[d]
      BY <2>5, <2>8
    <3>2. \A g \in OpenOf(Clients, peer') : \E d \in ThreadSlots : Live(th1, wh, d) /\ c[d] = g
      BY <1>3, <1>4, <2>5, <2>7 DEF Served
    <3>. QED BY <1>3, <2>7, <3>1, <3>2 DEF Served
  <2>10. Unfilled(w, i, th1, wh)
    <3>1. ~(e >= i)
      BY <1>3, <1>5, SmallFds DEF Unfilled
    <3>. QED BY <1>3, <2>6, <3>1 DEF Unfilled
  <2>11. ThreadsOk(peer', w, i, c, th1, wh)
    BY <1>3, <2>5, <2>6, <2>9, <2>10 DEF ThreadsOk
  <2>. QED BY <2>3, <2>5, <2>11 DEF ThreadsInv
<1>11. Poll!ReadResult(f) \in {"data", "error", "end"}
  BY <1>5 DEF Poll!do_work
<1>. QED BY <1>8, <1>9, <1>10, <1>11

LEMMA NextKeepsThreadsInv == ThreadsInv /\ Poll!NextThreads => ThreadsInv'
<1>1. ASSUME ThreadsInv, Poll!Network PROVE ThreadsInv'
  <2>1. PICK k \in Clients : Poll!ClientConnects(k) \/ Poll!ClientSends(k) \/ Poll!ClientLeaves(k)
    BY <1>1 DEF Poll!Network
  <2>2. /\ KernelOk(Clients, peer') /\ OpenOf(Clients, peer') = OpenOf(Clients, peer) /\ peer'.peer = peer.peer
        /\ peer'.misled = peer.misled /\ g_events' = g_events
    BY <1>1, <2>1, KernelHears
       DEF ThreadsInv, Poll!Network, Poll!ClientConnects, Poll!ClientSends, Poll!ClientLeaves
  <2>3. ASSUME NEW w, NEW i, NEW c, NEW th, NEW wh, ThreadsOk(peer, w, i, c, th, wh) PROVE ThreadsOk(peer', w, i, c, th, wh)
    BY <2>2, <2>3 DEF ThreadsOk, Served
  <2>. QED BY <1>1, <2>2, <2>3 DEF ThreadsInv
<1>2. Poll!Elements = ThreadSlots
  BY ThreadNames
<1>. QED BY <1>1, <1>2, AcceptKeepsThreadsInv, CreateKeepsThreadsInv, WorkKeepsThreadsInv DEF Poll!NextThreads

LEMMA ThreadsInvGives == ThreadsInv => Poll!BookkeepingThreads
<1> SUFFICES ASSUME ThreadsInv, g_events.at # "overrun" PROVE Poll!BookkeepingThreads
  BY DEF Poll!BookkeepingThreads
<1>1. PICK w, i, c, th, wh : IsThreads(g_events, w, i, c, th, wh) /\ ThreadsOk(peer, w, i, c, th, wh)
  BY DEF ThreadsInv
<1>2. g_events.i = i /\ g_events.whose = wh /\ g_events.thread = th /\ g_events.connfd = c
  BY <1>1 DEF IsThreads, ThreadsServer
<1>3. peer.misled = {} /\ i \in Nat /\ Unfilled(w, i, th, wh) /\ Served(peer, c, th, wh) /\ wh \in [ThreadSlots -> Clients \cup {None}]
  BY <1>1 DEF ThreadsOk
<1>4. \A e \in ThreadSlots : th[e] = "running" => peer.peer[c[e]] = wh[e]
  BY <1>3 DEF Unfilled, Served, Live
<1>5. PICK S : S = {d \in ThreadSlots : d <= i /\ wh[d] # None /\ th[d] # "done"}
  OBVIOUS
<1>6. \A e \in ThreadSlots : Live(th, wh, e) <=> e \in S
  BY <1>3, <1>5, ThreadNames DEF Unfilled, Live
<1>7. OpenOf(Clients, peer) = {c[e] : e \in S}
  <2>1. \A e \in S : e \in ThreadSlots /\ c[e] \in Fds /\ peer.peer[c[e]] \in Clients
    BY <1>3, <1>5, <1>6 DEF Served, Live
  <2>2. \A e \in S : c[e] \in OpenOf(Clients, peer)
    BY <2>1 DEF OpenOf
  <2>3. \A f \in OpenOf(Clients, peer) : \E e \in S : c[e] = f
    BY <1>3, <1>6 DEF Served
  <2>. QED BY <2>2, <2>3
<1>. QED BY <1>2, <1>3, <1>4, <1>5, <1>7, PollNames, ThreadNames DEF Poll!BookkeepingThreads

-----------------------------------------------------------------------------

IInv ==
  /\ program = "select" => SelectInv
  /\ program = "select 02" => Select02Inv
  /\ program = "poll" => PollInv
  /\ program = "poll 03" => Poll03Inv
  /\ program = "epoll" => EpollInv
  /\ program = "epoll 04" => Epoll04Inv
  /\ program = "reactor 01" => Reactor01Inv
  /\ program = "reactor 02" => ReactorInv
  /\ program = "edge" => EdgeInv
  /\ program = "threads" => ThreadsInv

\* Whichever program runs, its invariant is inductive.
LEMMA InvariantHolds == Spec => []IInv
<1>1. Init => IInv
  BY InitSelectInv, InitSelect02Inv, InitPollInv, InitPoll03Inv, InitEpollInv, InitEpoll04Inv, InitReactor01Inv, InitReactorInv,
     InitEdgeInv, InitThreadsInv
     DEF Init, InitSmall, IInv
<1>2. IInv /\ [Next]_vars => IInv'
  <2> SUFFICES ASSUME IInv, [Next]_vars PROVE IInv'
    OBVIOUS
  <2>1. CASE Next
    <3>0. program' = program
      BY <2>1 DEF Next
    <3>1. program = "select" => SelectInv'
      <4>1. program = "select" => Select!Next
        BY <2>1, Zenon DEF Next, NextSmall
      <4>. QED BY <4>1, NextKeepsSelectInv DEF IInv
    <3>2. program = "select 02" => Select02Inv'
      <4>1. program = "select 02" => Select!Next02
        BY <2>1, Zenon DEF Next, NextSmall
      <4>. QED BY <4>1, NextKeepsSelect02Inv DEF IInv
    <3>3. program = "poll" => PollInv'
      <4>1. program = "poll" => Poll!Next
        BY <2>1, Zenon DEF Next, NextSmall
      <4>. QED BY <4>1, NextKeepsPollInv DEF IInv
    <3>4. program = "poll 03" => Poll03Inv'
      <4>1. program = "poll 03" => PollPair!Next03
        BY <2>1, Zenon DEF Next, NextSmall
      <4>. QED BY <4>1, NextKeepsPoll03Inv DEF IInv
    <3>5. program = "epoll" => EpollInv'
      <4>1. program = "epoll" => Epoll!Next
        BY <2>1, Zenon DEF Next, NextSmall
      <4>. QED BY <4>1, NextKeepsEpollInv DEF IInv
    <3>6. program = "epoll 04" => Epoll04Inv'
      <4>1. program = "epoll 04" => EpollPair!Next04
        BY <2>1, Zenon DEF Next, NextSmall
      <4>. QED BY <4>1, NextKeepsEpoll04Inv DEF IInv
    <3>7. program = "reactor 01" => Reactor01Inv'
      <4>1. program = "reactor 01" => Reactor01!Next
        BY <2>1, Zenon DEF Next, NextSmall
      <4>. QED BY <4>1, NextKeepsReactor01Inv DEF IInv
    <3>8. program = "reactor 02" => ReactorInv'
      <4>1. program = "reactor 02" => Reactor!Next
        BY <2>1, Zenon DEF Next, NextSmall
      <4>. QED BY <4>1, NextKeepsReactorInv DEF IInv
    <3>9. program = "edge" => EdgeInv'
      <4>1. program = "edge" => Epoll!NextEdge
        BY <2>1, Zenon DEF Next, NextSmall
      <4>. QED BY <4>1, NextKeepsEdgeInv DEF IInv
    <3>10. program = "threads" => ThreadsInv'
      <4>1. program = "threads" => Poll!NextThreads
        BY <2>1, Zenon DEF Next, NextSmall
      <4>. QED BY <4>1, NextKeepsThreadsInv DEF IInv
    <3>. QED BY <3>0, <3>1, <3>2, <3>3, <3>4, <3>5, <3>6, <3>7, <3>8, <3>9, <3>10 DEF IInv
  <2>2. CASE UNCHANGED vars
    <3>1. UNCHANGED <<program, g_events, peer>> /\ UNCHANGED <<checkpos, at, events, stale, epoll, backlog, sent, fresh, misled>>
      BY <2>2 DEF vars, reactorRest
    <3>2. EdgeInv => EdgeInv'
      BY <3>1 DEF EdgeInv, Epoll!NothingLeftBehind, Epoll!UnreadEdge
    <3>3. ReactorInv => ReactorInv'
      BY <3>1 DEF ReactorInv, ReactorTyped, Reactor!TypeOK, Reactor!TableMatchesEpoll, OwnBuffer, Reactor!OwnDataOnly, Reactor!InUse
    <3>4. Reactor01Inv => Reactor01Inv'
      BY <3>1 DEF Reactor01Inv, Descriptors01, Elements01, Serves, Reactor01!Open
    <3>5. (SelectInv => SelectInv') /\ (Select02Inv => Select02Inv') /\ (PollInv => PollInv')
      BY <3>1 DEF SelectInv, Select02Inv, PollInv
    <3>6. (Poll03Inv => Poll03Inv') /\ (EpollInv => EpollInv')
      BY <3>1 DEF Poll03Inv, EpollInv
    <3>7. (Epoll04Inv => Epoll04Inv') /\ (ThreadsInv => ThreadsInv')
      BY <3>1 DEF Epoll04Inv, ThreadsInv
    <3>. QED BY <3>1, <3>2, <3>3, <3>4, <3>5, <3>6, <3>7 DEF IInv
  <2>. QED BY <2>1, <2>2
<1>. QED BY <1>1, <1>2, PTL DEF Spec

\* For any number of clients, descriptors and elements, whatever clients do and
\* wherever the loop stands.  select_concurrent: one element of client[] for each
\* open connection, client[] is never full, and the scan passes over nobody who is
\* ready.  poll_conncurrent: one element for each, and a read blocks only at the
\* last one.  Linux_Net/02: what is open is stored once, or came after MaxConn
\* others and is forgotten.  Linux_Net/03: no client is echoed before standard input
\* has ended, and descriptor 0 is standard input until then.
\* epoll_concurrent: the tree holds exactly the open connections, and only an event
\* that was handled before in the round can block.  Linux_Net/04: each connection is
\* registered for one event, and one that waits to write and was not crossed waits
\* alone and finds its own data, and no other, in the shared buffer.
\* mult_thread_concurrent: every thread serves the client it was created for.
THEOREM ServersKeepTheirBooks == Spec => []Bookkeeping
<1>1. IInv => Bookkeeping
  BY SelectInvGives, Select02InvGives, PollInvGives, Poll03InvGives, EpollInvGives, Epoll04InvGives, ThreadsInvGives
     DEF IInv, Bookkeeping
<1>. QED BY <1>1, InvariantHolds, PTL

\* For any number of clients, descriptors and table entries: what a reactor's
\* table says of each descriptor is what its epoll set says, and in 02_epoll_loop
\* the events still to be handled belong to entries that wait for them, although
\* callbacks and the sweep close descriptors and accept gives them out again.
THEOREM ReactorTablesMatchEpoll == Spec => []TableMatchesEpoll
<1>1. Reactor01Inv => Reactor01!TableMatchesEpoll
  <2> SUFFICES ASSUME Reactor01Inv PROVE Reactor01!TableMatchesEpoll
    OBVIOUS
  <2>1. None \notin Events
    BY DEF None, Reactor01!None, Events
  <2>2. ASSUME NEW f \in Reactor01!Open
        PROVE  /\ f \in Fds \ {Listener} /\ g_events.epoll[f].events # None
               /\ g_events.myevents[g_events.epoll[f].xev].fd = f
               /\ g_events.myevents[g_events.epoll[f].xev].events = g_events.epoll[f].events
    <3>1. f \in Fds \ {0, Listener} /\ Serves(g_events.epoll[f].xev)
          /\ g_events.myevents[g_events.epoll[f].xev].fd = f
      BY Elements01Facts DEF Reactor01Inv, Descriptors01
    <3>2. g_events.myevents[g_events.epoll[f].xev].events \in Events
          /\ g_events.epoll[f].events = g_events.myevents[g_events.epoll[f].xev].events
      BY <3>1 DEF Serves
    <3>. QED BY <2>1, <3>1, <3>2
  <2>3. Reactor01!Open = {f \in Fds \ {Listener} : g_events.epoll[f].events # None}
    BY <2>2, Elements01Facts DEF Reactor01Inv, Descriptors01
  <2>. QED BY <2>2, <2>3 DEF Reactor01!TableMatchesEpoll, Reactor01Inv, Elements01, Fds, Listener, None
<1>2. IInv => TableMatchesEpoll
  BY <1>1 DEF IInv, ReactorInv, TableMatchesEpoll
<1>. QED BY <1>2, InvariantHolds, PTL

\* No client of the reactors is ever sent the data of another one, although
\* entries, buffers and descriptors are used again without being cleared.
THEOREM ReactorsSendOwnDataOnly == Spec => []OwnDataOnly
<1>1. IInv => OwnDataOnly
  BY DEF IInv, ReactorInv, Reactor01Inv, Kernels01, OwnDataOnly, Reactor01!OwnDataOnly
<1>. QED BY <1>1, InvariantHolds, PTL

\* For any number of writes, the edge-triggered reader that reads until nothing
\* is left leaves nothing, and one that reads once for an event never blocks and
\* has read exactly as often as it was told.
THEOREM EdgeReadersLeaveNothing == Spec => []NothingLeftBehind
<1>1. IInv => NothingLeftBehind
  BY DEF IInv, EdgeInv, NothingLeftBehind
<1>. QED BY <1>1, InvariantHolds, PTL

=============================================================================
