---------------------------- MODULE MutexPrograms ----------------------------
(***************************************************************************)
(* philosopher哲学家就餐/: five philosophers as threads with mutexes       *)
(* (philosopher_thread.c) or as processes with semaphores                  *)
(* (philosopher_process.c).  Each takes the left fork, tries the right one *)
(* and lets go of the left one again if it is not there.                   *)
(* Singleton/Singleton.h: GetInstance tests m_pSington without the mutex,  *)
(* then again under it; DesInstance resets it without the mutex.  The      *)
(* shared_ptr is two words, the pointer and the owner count, written one   *)
(* after the other; a reader without the mutex may come in between.        *)
(* c++11/LRUCache.cpp: a list of (key, value), most recently used first,   *)
(* and a map from keys to iterators into it.  put and get hold mtx from    *)
(* beginning to end, so each is one step whichever thread calls it.        *)
(***************************************************************************)
EXTENDS Naturals, Sequences, FiniteSets, FiniteSetsExt, TLC

CONSTANTS
  Threads,   \* that use the singleton
  MaxCalls,  \* bound: calls of GetInstance and DesInstance
  Keys, Values,   \* of the cache
  cap             \* entries the cache may have

VARIABLES
  by,       \* the philosophers are: "thread" or "process"
  fork,     \* who holds m[k] or s[k]; Nobody
  at,       \* where each philosopher, or each thread of the singleton, is
  single,   \* m_pSington: the instance it points to and the one it owns, 0 for none
  mutex,    \* who holds m_Mutex
  got,      \* what GetInstance returned to each thread
  count,    \* instances made, resets, calls
  cache,    \* the list; a node is what an iterator denotes, also after a splice
  map,      \* unordered_map from keys to nodes
  recent,   \* history: the keys used so far, the last one first
  latest    \* history: the value last put for each of them

vars == <<by, fork, at>>

Philosophers == 0 .. 4
Nobody == 5

\* The threads test i = 4 for l only: the second assignment of r follows the
\* else without braces, so the last thread uses m[5], the memory behind the
\* array, as its right fork.  It is zero, an unlocked mutex.
Left(i) == IF i = 4 THEN 0 ELSE i

Right(i) == IF i = 4 /\ by = "process" THEN 4 ELSE i + 1

Init ==
  /\ by \in {"thread", "process"}
  /\ fork = [k \in 0 .. 5 |-> Nobody]
  /\ at = [i \in Philosophers |-> "lock"]

\* pthread_mutex_lock(&m[l]); sem_wait(&s[l])
TakeLeft(i) ==
  /\ at[i] = "lock" /\ fork[Left(i)] = Nobody
  /\ fork' = [fork EXCEPT ![Left(i)] = i]
  /\ at' = [at EXCEPT ![i] = "try"]
  /\ UNCHANGED by

TryRightIgnored(i) ==  \* mutant: the result of the try is not tested
  /\ at[i] = "try"
  /\ fork' = [fork EXCEPT ![Right(i)] = i] /\ at' = [at EXCEPT ![i] = "eat"]
  /\ UNCHANGED by

\* pthread_mutex_trylock(&m[r]); sem_trywait(&s[r])
TryRight(i) ==
  /\ at[i] = "try"
  /\ IF fork[Right(i)] = Nobody
       THEN fork' = [fork EXCEPT ![Right(i)] = i] /\ at' = [at EXCEPT ![i] = "eat"]
       ELSE at' = [at EXCEPT ![i] = "unlock"] /\ UNCHANGED fork
  /\ UNCHANGED by

\* The right fork is put back.
PutRight(i) ==
  /\ at[i] = "eat"
  /\ fork' = [fork EXCEPT ![Right(i)] = Nobody] /\ at' = [at EXCEPT ![i] = "unlock"]
  /\ UNCHANGED by

\* The left fork is put back, and sleep.
PutLeft(i) ==
  /\ at[i] = "unlock"
  /\ fork' = [fork EXCEPT ![Left(i)] = Nobody] /\ at' = [at EXCEPT ![i] = "lock"]
  /\ UNCHANGED by

Philosopher(i) == TakeLeft(i) \/ TryRight(i) \/ PutRight(i) \/ PutLeft(i)

Next == \E i \in Philosophers : Philosopher(i)

\* Nobody eats beside somebody who eats; of the threads all but the last
\* two, who have no fork in common.
NeighboursTakeTurns ==
  \A i \in Philosophers :
    LET j == (i + 1) % 5
    IN (by = "process" \/ i # 3) => ~(at[i] = "eat" /\ at[j] = "eat")

\* Whoever waits for a fork waits for somebody who does not wait: nobody
\* holds a fork while waiting for another, so there is never a circle.
NoCircle ==
  \A i \in Philosophers :
    at[i] = "lock" /\ fork[Left(i)] # Nobody => at[fork[Left(i)]] # "lock"

-----------------------------------------------------------------------------
\* Singleton.h

varsSingleton == <<single, mutex, at, got, count>>

NoThread == "no thread"

InitSingleton ==
  /\ single = [ptr |-> 0, owner |-> 0] /\ mutex = NoThread
  /\ at = [t \in Threads |-> "idle"]
  /\ got = [t \in Threads |-> <<>>]
  /\ count = [made |-> 0, resets |-> 0, calls |-> 0]

Go(t, place) == at' = [at EXCEPT ![t] = place]

\* if (!m_pSington)
FirstTest(t) ==
  /\ at[t] = "idle" /\ count.calls < MaxCalls
  /\ count' = [count EXCEPT !.calls = @ + 1]
  /\ Go(t, IF single.ptr = 0 THEN "lock" ELSE "return")
  /\ UNCHANGED <<single, mutex, got>>

SecondTestMissing(t) ==  \* mutant: only the first test
  /\ at[t] = "lock" /\ mutex = NoThread
  /\ mutex' = t /\ Go(t, "make")
  /\ UNCHANGED <<single, got, count>>

\* lock_guard and the second test
SecondTest(t) ==
  /\ at[t] = "lock" /\ mutex = NoThread
  /\ IF single.ptr = 0 THEN mutex' = t /\ Go(t, "make") ELSE Go(t, "return") /\ UNCHANGED mutex
  /\ UNCHANGED <<single, got, count>>

\* make_shared and the first word of the assignment
Make(t) ==
  /\ at[t] = "make" /\ Go(t, "owner")
  /\ count' = [count EXCEPT !.made = @ + 1]
  /\ single' = [single EXCEPT !.ptr = count.made + 1]
  /\ UNCHANGED <<mutex, got>>

\* The second word, and the end of the lock_guard
SetOwner(t) ==
  /\ at[t] = "owner" /\ Go(t, "return")
  /\ single' = [single EXCEPT !.owner = count.made]
  /\ mutex' = NoThread
  /\ UNCHANGED <<got, count>>

\* return m_pSington
Return(t) ==
  /\ at[t] = "return" /\ Go(t, "idle")
  /\ got' = [got EXCEPT ![t] = <<single.ptr, single.owner>>]
  /\ UNCHANGED <<single, mutex, count>>

DesInstance ==
  /\ single.ptr # 0 /\ count.calls < MaxCalls
  /\ single' = [ptr |-> 0, owner |-> 0]
  /\ count' = [count EXCEPT !.resets = @ + 1, !.calls = @ + 1]
  /\ UNCHANGED <<mutex, at, got>>

GetInstance(t) == FirstTest(t) \/ SecondTest(t) \/ Make(t) \/ SetOwner(t) \/ Return(t)

NextSingleton == (\E t \in Threads : GetInstance(t)) \/ DesInstance

\* However the calls overlap, an instance is made only when there was none:
\* one at first and one for each DesInstance; and as long as nobody calls
\* DesInstance everybody gets the one instance, never a null pointer.
OneInstance ==
  /\ count.made <= count.resets + 1
  /\ count.resets = 0 => \A t \in Threads : got[t] # <<>> => got[t][1] = 1

-----------------------------------------------------------------------------
\* LRUCache.cpp

varsCache == <<cache, map, recent, latest>>

InitCache == cache = <<>> /\ map = <<>> /\ recent = <<>> /\ latest = <<>>

At(node) == CHOOSE k \in DOMAIN cache : cache[k].node = node

Erase(list, k) == SubSeq(list, 1, k - 1) \o SubSeq(list, k + 1, Len(list))

NewNode == Min((1 .. Len(cache) + 1) \ {cache[k].node : k \in DOMAIN cache})

Used(key) == <<key>> \o SelectSeq(recent, LAMBDA other : other # key)

put(key, value) ==
  LET erased == IF key \in DOMAIN map THEN Erase(cache, At(map[key])) ELSE cache
      pushed == <<[node |-> NewNode, key |-> key, value |-> value]>> \o erased
      mapped == (key :> NewNode) @@ map
      full == Cardinality(DOMAIN mapped) > cap
      lastKey == pushed[Len(pushed)].key
  IN /\ cache' = IF full THEN SubSeq(pushed, 1, Len(pushed) - 1) ELSE pushed
     /\ map' = IF full THEN [k \in DOMAIN mapped \ {lastKey} |-> mapped[k]] ELSE mapped
     /\ recent' = Used(key) /\ latest' = (key :> value) @@ latest

getInPlace(key) ==  \* mutant: no splice to the front
  key \in DOMAIN map /\ recent' = Used(key) /\ UNCHANGED <<cache, map, latest>>

\* get of a key that is there; of any other it changes nothing.
get(key) ==
  /\ key \in DOMAIN map
  /\ LET k == At(map[key]) IN cache' = <<cache[k]>> \o Erase(cache, k)
  /\ recent' = Used(key) /\ UNCHANGED <<map, latest>>

NextCache == \E key \in Keys : get(key) \/ \E value \in Values : put(key, value)

\* The cache holds exactly the cap keys used last, in the order of use, each
\* with the value put last, and every entry of the map denotes the node of
\* its key, after any sequence of calls.
HoldsTheMostRecent ==
  LET kept == SubSeq(recent, 1, Min({cap, Len(recent)}))
  IN /\ [k \in DOMAIN cache |-> cache[k].key] = kept
     /\ \A k \in DOMAIN cache : cache[k].value = latest[cache[k].key]
     /\ DOMAIN map = {kept[k] : k \in DOMAIN kept}
     /\ \A key \in DOMAIN map : \E k \in DOMAIN cache : cache[k].node = map[key] /\ cache[k].key = key
==============================================================================
