---------------------------- MODULE InvertTables -----------------------------
(***************************************************************************)
(* Two programs with inverted tables: triples <index, id, weight>, an      *)
(* array of nodes sorted by index, and for each index the part of the array*)
(* that belongs to it.  invert/ is an InvertTable, the InvertCreator that  *)
(* fills it and the two files it is kept in; the process may end at any    *)
(* moment, also between the two files, and a new one may load what is on   *)
(* the disk (a single write is not cut in two).  invert_table/ (names with *)
(* Post) is an InvertTable, a ZInvertTable (a map of vectors) and the      *)
(* InvertTableCreator that sorts the triples in one of three ways; both    *)
(* tables are filled side by side.  m_nTotalWeight, which no lookup reads, *)
(* is left out.                                                            *)
(***************************************************************************)
EXTENDS Naturals, Sequences, FiniteSets, FiniteSetsExt, TLC

CONSTANTS
  Triples,      \* what addTriple may be called with
  MaxTriples,   \* bound: triples in one creator
  MaxCalls      \* bound: calls of create and load

VARIABLES
  table,     \* invert: mUseCached, mIndexMap, mInvertVec, whether mFp is open;
             \* invert_table: is_cached, index_map, what the memory of invert_vec holds, its size
  creator,   \* invert: mIsPersistent and mTripleVec; mFilterSet is the pairs in it;
             \* invert_table: m_sortMethod, m_persistent and m_tripleVec
  files,     \* what is in the file of the "index" and of the "invert" lists, if they exist
  at,        \* invert: "call": between the calls; "invert": create has still to write Invert.dict
  history,   \* invert: by and of: the last create or load and its triples; sound: its
             \* lists come first; others: indexes of earlier calls are left; index, invert:
             \* the triples each file was written from; calls: of create and load
  ztable,    \* invert_table: id2Nodes; dup_filter is the pairs in it
  calls      \* invert_table: of create and load

\* A triple, PidKidInfo; the second weight of ST_PidKidInfo2 is left out.
Triple(pid, kid, weight) == [nPid |-> pid, nKid |-> kid, nWeight |-> weight]

\* InvertNode::copy
Node(t) == [nID |-> t.nKid, nWeight |-> t.nWeight]

\* addTriple of both creators: one triple for each pair of index and id.
AddTriple(vec, t) ==
  IF \E k \in DOMAIN vec : vec[k].nPid = t.nPid /\ vec[k].nKid = t.nKid
    THEN vec ELSE Append(vec, t)

\* operator() of CmpPidKidInfoByPidWeight and of CmpSTNodeByWeight
ByPidWeight(l, r) ==
  \/ l.nPid < r.nPid
  \/ /\ l.nPid = r.nPid
     /\ l.nWeight > r.nWeight \/ (l.nWeight = r.nWeight /\ l.nKid < r.nKid)

\* Where createInvertTable begins a new IndexNode.
RunStarts(vec) == {k \in DOMAIN vec : k = 1 \/ vec[k].nPid # vec[k - 1].nPid}

\* mIndexMap after the loop of createInvertTable: a later run of the same
\* index would overwrite an earlier one.  Offsets count from 0.
IndexOf(vec) ==
  [p \in {vec[k].nPid : k \in DOMAIN vec} |->
     LET start == Max({k \in RunStarts(vec) : vec[k].nPid = p})
         end == Min({k \in RunStarts(vec) : k > start} \cup {Len(vec) + 1})
     IN [nOffset |-> start - 1, nCount |-> end - start]]

\* The part of an array of nodes that an IndexNode names.
Part(nodes, i) == SubSeq(nodes, i.nOffset + 1, i.nOffset + i.nCount)

\* Reference: what a table built from triples should answer for index p.
Expected(triples, p) ==
  LET mine == {t \in triples : t.nPid = p}
      Rank(t) == Cardinality({u \in mine : ByPidWeight(u, t)}) + 1
  IN [k \in 1 .. Cardinality(mine) |-> Node(CHOOSE t \in mine : Rank(t) = k)]

Elements(vec) == {vec[k] : k \in DOMAIN vec}

-----------------------------------------------------------------------------
\* invert/

vars == <<table, creator, files, at, history>>

\* What a file of lists was written from that does not begin with the last ones.
Mixed == {Triple(0, 0, 0)}

Pids(triples) == {t.nPid : t \in triples}

NewTable(cached) ==
  [mUseCached |-> cached, mIndexMap |-> <<>>, mInvertVec |-> <<>>, mFp |-> FALSE]

NewCreator(persistent) == [mIsPersistent |-> persistent, mTripleVec |-> <<>>]

Init ==
  /\ \E c, p \in BOOLEAN : table = NewTable(c) /\ creator = NewCreator(p)
  /\ files = <<>>
  /\ at = "call"
  /\ history = [by |-> "none", of |-> {}, sound |-> TRUE, others |-> FALSE,
                index |-> {}, invert |-> {}, calls |-> 0]

addTriple(t) ==
  /\ at = "call" /\ Len(creator.mTripleVec) < MaxTriples
  /\ creator' = [creator EXCEPT !.mTripleVec = AddTriple(@, t)]
  /\ UNCHANGED <<table, files, at, history>>

\* clear() empties mIndexMap and closes mFp; mInvertVec stays as it is.
Cleared(t) == [t EXCEPT !.mIndexMap = <<>>, !.mFp = FALSE]

\* createInvertTable(): vec has been sorted; the nodes are appended, the
\* offsets count from the beginning of vec.
createInvertTable(t, vec) ==
  [t EXCEPT !.mIndexMap = IndexOf(vec),
            !.mInvertVec = @ \o [k \in DOMAIN vec |-> Node(vec[k])]]

\* The end of create: without the cache the array is dropped and read from
\* the file from now on.
Opened(t) == IF t.mUseCached THEN t ELSE [t EXCEPT !.mInvertVec = <<>>, !.mFp = TRUE]

\* writeIndex(): the nodes of mIndexMap in any order
writeIndex(t) == ("index" :> t.mIndexMap) @@ files

writeInvert(t) == ("invert" :> t.mInvertVec) @@ files

\* create() up to writeIndex(), or to its end if nothing is persistent.  The
\* creator's vector is sorted in place.
create ==
  /\ at = "call" /\ history.calls < MaxCalls
  /\ LET vec == SortSeq(creator.mTripleVec, ByPidWeight)
         built == createInvertTable(Cleared(table), vec)
         of == Elements(vec)
         sound == table.mInvertVec = <<>>
         h == [history EXCEPT !.by = "create", !.of = of, !.sound = sound, !.others = FALSE, !.calls = @ + 1]
     IN /\ creator' = [creator EXCEPT !.mTripleVec = vec]
        /\ IF creator.mIsPersistent
             THEN /\ files' = writeIndex(built)
                  /\ history' = [h EXCEPT !.index = of]
                  /\ table' = built /\ at' = "invert"
             ELSE /\ IF table.mUseCached
                       THEN files' = files /\ history' = h
                       ELSE /\ files' = writeInvert(built)
                            /\ history' = [h EXCEPT !.invert = IF sound THEN of ELSE Mixed]
                  /\ table' = Opened(built) /\ UNCHANGED at

\* The rest of a persistent create.
createEnds ==
  /\ at = "invert" /\ at' = "call"
  /\ files' = writeInvert(table)
  /\ history' = [history EXCEPT !.invert = IF history.sound THEN history.of ELSE Mixed]
  /\ table' = Opened(table)
  /\ UNCHANGED creator

\* readIndex() adds to what mIndexMap holds already, readInvert() inserts
\* before what mInvertVec holds; an empty file cannot be mapped and changes
\* nothing.
readIndex(t) == [t EXCEPT !.mIndexMap = files["index"] @@ @]

readInvertFileBehind(t) ==  \* mutant: behind it
  [t EXCEPT !.mInvertVec = @ \o files["invert"]]

readInvertFile(t) == [t EXCEPT !.mInvertVec = files["invert"] \o @]

load ==
  /\ at = "call" /\ history.calls < MaxCalls /\ DOMAIN files = {"index", "invert"}
  /\ table' = IF table.mUseCached THEN readInvertFile(readIndex(table))
                                 ELSE [readIndex(table) EXCEPT !.mFp = TRUE]
  /\ history' = [history EXCEPT !.by = "load", !.of = history.index, !.sound = history.index = history.invert,
                                !.others = ~(DOMAIN table.mIndexMap \subseteq Pids(history.index)),
                                !.calls = @ + 1]
  /\ UNCHANGED <<creator, files, at>>

\* The process ends, in the middle of create or not; another one begins.
Restart ==
  /\ files # <<>>
  /\ \E c, p \in BOOLEAN : table' = NewTable(c) /\ creator' = NewCreator(p)
  /\ at' = "call" /\ history' = [history EXCEPT !.by = "none", !.of = {}, !.sound = TRUE, !.others = FALSE]
  /\ UNCHANGED files

Next == (\E t \in Triples : addTriple(t)) \/ create \/ createEnds \/ load \/ Restart

Spec == Init /\ [][Next]_vars

\* readInvert(offset, cnt, start): fails if the file ends before the part does.
readInvertPart(i) ==
  IF i.nOffset + i.nCount <= Len(files["invert"])
    THEN [found |-> TRUE, nodes |-> Part(files["invert"], i)]
    ELSE [found |-> FALSE, nodes |-> <<>>]

indexIsExist(p) == p \in DOMAIN table.mIndexMap

\* getInvertInfo(index, start, cnt)
getInvertInfo(p) ==
  IF ~indexIsExist(p) THEN [found |-> FALSE, nodes |-> <<>>]
  ELSE LET i == table.mIndexMap[p]
       IN IF ~table.mUseCached THEN readInvertPart(i)
          ELSE IF i.nOffset >= Len(table.mInvertVec) THEN [found |-> FALSE, nodes |-> <<>>]
          ELSE [found |-> TRUE, nodes |-> Part(table.mInvertVec, i)]

Answers(triples, pids) ==
  \A p \in pids : getInvertInfo(p) = [found |-> p \in Pids(triples), nodes |-> Expected(triples, p)]

\* After a create into a table that held no lists, or a load of an index and
\* lists of the same triples, also into a table that was filled before, every
\* index of these triples is answered with exactly its ids, heaviest first, with
\* or without the cache, and whatever creates and crashes came before.  Nothing
\* else is found, unless a load left indexes of an earlier call.  It says nothing
\* of a load of an index and lists that do not belong together, which a crash
\* between the two files leaves behind: nothing in the files tells them apart.
LookupsExact ==
  at = "call" /\ history.sound =>
    Answers(history.of, IF history.others THEN Pids(history.of) ELSE Pids(Triples))

\* create begins by emptying the table ("clear the cache", lines 129 and 238 of
\* invert.hpp): after it the table answers with its triples and with no others.
\* clear empties mIndexMap twice and never mInvertVec, so that the new offsets,
\* which count from 0, name the old lists.
CreateReplaces == at = "call" /\ history.by = "create" => Answers(history.of, Pids(Triples))

-----------------------------------------------------------------------------
\* invert_table/

varsPost == <<table, ztable, creator, files, calls>>

SortMethods == {"byIndex", "byID", "byWeight"}

NewTablePost(cached) == [is_cached |-> cached, index_map |-> <<>>, memory |-> <<>>, size |-> 0]

InitPost ==
  /\ \E c \in BOOLEAN : table = NewTablePost(c)
  /\ ztable = <<>>
  /\ \E s \in SortMethods, p \in BOOLEAN :
       creator = [m_sortMethod |-> s, m_persistent |-> p, m_tripleVec |-> <<>>]
  /\ files = <<>> /\ calls = 0

addTriplePost(t) ==
  /\ Len(creator.m_tripleVec) < MaxTriples
  /\ creator' = [creator EXCEPT !.m_tripleVec = AddTriple(@, t)]
  /\ UNCHANGED <<table, ztable, files, calls>>

\* CmpSTNodeByIndex, used with a stable sort: equals stay in their order.
ByIndex(vec, j, k) == vec[j].nPid < vec[k].nPid \/ (vec[j].nPid = vec[k].nPid /\ j < k)

\* CmpSTNodeByID
ByID(l, r) == l.nPid < r.nPid \/ (l.nPid = r.nPid /\ l.nKid < r.nKid)

\* The switch of InvertTableCreator::create
Sorted(vec, method) ==
  CASE method = "byIndex" ->
         LET order == SortSeq([k \in DOMAIN vec |-> k], LAMBDA j, k : ByIndex(vec, j, k))
         IN [k \in DOMAIN vec |-> vec[order[k]]]
    [] method = "byID" -> SortSeq(vec, ByID)
    [] method = "byWeight" -> SortSeq(vec, ByPidWeight)

\* InvertTable::clear; the memory of a vector outlives its elements.
ClearedPost(t) == [t EXCEPT !.index_map = <<>>, !.size = 0]

\* InvertTable::createInvertTable
createInvertTablePost(t, vec) ==
  [t EXCEPT !.index_map = IndexOf(vec) @@ @, !.size = Len(vec),
            !.memory = [k \in DOMAIN vec |-> Node(vec[k])]]

\* ZInvertTable::createInvertTable: insert() for one triple after the other.
ZTable(vec) ==
  [p \in {vec[k].nPid : k \in DOMAIN vec} |->
     LET mine == SelectSeq(vec, LAMBDA t : t.nPid = p)
     IN [k \in DOMAIN mine |-> Node(mine[k])]]

writeIndexPost(t) == [index |-> t.index_map]

writeInvertPost(t) == [invert |-> t.memory]

\* InvertTableCreator::create and the create of both tables.
createPost ==
  /\ calls < MaxCalls /\ calls' = calls + 1
  /\ LET vec == Sorted(creator.m_tripleVec, creator.m_sortMethod)
         built == createInvertTablePost(ClearedPost(table), vec)
     IN /\ creator' = [creator EXCEPT !.m_tripleVec = vec]
        /\ files' = CASE creator.m_persistent -> writeIndexPost(built) @@ writeInvertPost(built)
                      [] ~creator.m_persistent /\ ~table.is_cached -> writeInvertPost(built) @@ files
                      [] OTHER -> files
        /\ table' = IF table.is_cached THEN built ELSE [built EXCEPT !.size = 0]
        /\ ztable' = ZTable(vec)

\* readInvert reserves memory and reads into it, the size stays 0.
readInvert(t) == [t EXCEPT !.memory = files["invert"]]

readIndexPost(t) == [t EXCEPT !.index_map = files["index"] @@ @]

\* InvertTable::load after a persistent create, into this or into another
\* table.
loadPost ==
  /\ calls < MaxCalls /\ calls' = calls + 1
  /\ creator.m_persistent /\ DOMAIN files = {"index", "invert"}
  /\ \E t \in {table, NewTablePost(TRUE), NewTablePost(FALSE)} :
       table' = IF t.is_cached THEN readInvert(readIndexPost(ClearedPost(t))) ELSE readIndexPost(ClearedPost(t))
  /\ UNCHANGED <<ztable, creator, files>>

\* ~InvertTableCreator, and a new creator for the same tables.
NewCreatorPost ==
  /\ creator.m_tripleVec # <<>>
  /\ creator' = [creator EXCEPT !.m_tripleVec = <<>>]
  /\ UNCHANGED <<table, ztable, files, calls>>

NextPost == (\E t \in Triples : addTriplePost(t)) \/ NewCreatorPost \/ createPost \/ loadPost

SpecPost == InitPost /\ [][NextPost]_varsPost

\* The part of the file that index node i names.
readInvertPartPost(i) == Part(files["invert"], i)

\* InvertTable::getPostList, both of them.  The cached array is read where it lies in
\* memory, whatever its size.
getPostList(p) ==
  IF p \notin DOMAIN table.index_map THEN <<>>
  ELSE IF table.is_cached THEN Part(table.memory, table.index_map[p])
  ELSE readInvertPartPost(table.index_map[p])

\* ZInvertTable::getPostList
zGetPostList(p) == IF p \in DOMAIN ztable THEN ztable[p] ELSE <<>>

\* The array with its offsets, read from memory or from the files, in this
\* table or in another one, and the map of vectors give the same list in the
\* same order for every index, whichever order the creator sorts in.
TablesAgree == \A p \in {t.nPid : t \in Triples} : getPostList(p) = zGetPostList(p)

==============================================================================
