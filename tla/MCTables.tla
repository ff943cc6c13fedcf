------------------------------- MODULE MCTables -------------------------------
(***************************************************************************)
(* The tables, readers and converters of the repository, which MCSessions   *)
(* runs beside its own programs.                                           *)
(* Which one it is is chosen at the start and never changes; its variables *)
(* are v1 to v5 as the INSTANCEs below say, the rest stays Unused.         *)
(***************************************************************************)
EXTENDS Naturals, Sequences, FiniteSets

VARIABLES program, v1, v2, v3, v4, v5

vars == <<program, v1, v2, v3, v4, v5>>

Unused == "unused"

\* Two ids of one index in the other order by weight, and a second index.
Triples == {[nPid |-> 1, nKid |-> 1, nWeight |-> 1], [nPid |-> 1, nKid |-> 2, nWeight |-> 2],
            [nPid |-> 2, nKid |-> 1, nWeight |-> 1]}

FlagTypes == [enable_a |-> "BOOL", int_b |-> "INT"]

Tables(triples) ==
  INSTANCE InvertTables
    WITH Triples <- triples, MaxTriples <- 3, MaxCalls <- 3,
         table <- v1, creator <- v2, files <- v3, at <- v4, history <- v5, ztable <- v4, calls <- v5

\* invert_table/ can keep the order in which triples were added: two of one weight.
PostTriples == Triples \cup {[nPid |-> 1, nKid |-> 2, nWeight |-> 1]}

Settings(lines) ==
  INSTANCE SettingsFiles
    WITH Posids <- {"default", "0_1", "0_2", "7"}, Flags <- DOMAIN FlagTypes,
         OneChar <- {"5", "7"}, Values <- {"true", "12", "5"}, flagType <- FlagTypes,
         Frames <- {"glog", "other"}, Items <- {"level", "size"}, Texts <- {"", "12", "x"},
         Numbers <- {"12"}, frame <- "glog", item <- "level", MaxLines <- lines,
         loader <- v1, conf <- v2, reader <- v1, text <- v3

Mutexes == INSTANCE MutexPrograms
             WITH Keys <- 1 .. 4, Values <- 1 .. 2, cap <- 2, Threads <- {}, MaxCalls <- 0,
                  by <- Unused, fork <- Unused, at <- Unused,
                  single <- Unused, mutex <- Unused, got <- Unused, count <- Unused,
                  cache <- v1, map <- v2, recent <- v3, latest <- v4

\* ASCII, a continuation byte that begins no GBK pair, first bytes of two and
\* six bytes, and one that counts as the first of five and begins no pair.
Files == INSTANCE FileTools
           WITH Bytes <- {65, 128, 194, 252, 255}, MaxBytes <- 6, str <- v1,
                MaxLen <- 0, MaxN <- 0, ITEMS <- 0,
                job <- Unused, copied <- Unused, done <- Unused, draw <- Unused

-----------------------------------------------------------------------------

Init ==
  \/ program = "invert" /\ Tables(Triples)!Init
  \/ program = "invert_table" /\ Tables(PostTriples)!InitPost
  \/ program = "exp" /\ Settings(5)!Init /\ v4 = Unused /\ v5 = Unused
  \/ program = "ini" /\ Settings(4)!InitIni /\ v2 = Unused /\ v4 = Unused /\ v5 = Unused
  \/ program = "LRUCache" /\ Mutexes!InitCache /\ v5 = Unused
  \/ program = "encode" /\ Files!InitText /\ v2 = Unused /\ v3 = Unused /\ v4 = Unused /\ v5 = Unused

Next ==
  \/ program = "invert" /\ Tables(Triples)!Next /\ UNCHANGED program
  \/ program = "invert_table" /\ Tables(PostTriples)!NextPost /\ UNCHANGED program
  \/ program = "exp" /\ Settings(5)!Next /\ UNCHANGED <<program, v4, v5>>
  \/ program = "ini" /\ Settings(4)!NextIni /\ UNCHANGED <<program, v2, v4, v5>>
  \/ program = "LRUCache" /\ Mutexes!NextCache /\ UNCHANGED <<program, v5>>
  \/ program = "encode" /\ Files!NextText /\ UNCHANGED <<program, v2, v3, v4, v5>>

\* Nobody has to call a table.
Spec == Init /\ [][Next]_vars

-----------------------------------------------------------------------------

\* What is stored is what is found, in the order that was asked for: in the
\* inverted tables, as far as the lists a table answers with are those its index
\* was made for, in the settings files, as load reads them, and in the cache.
LookupsExact ==
  /\ program = "invert" => Tables(Triples)!LookupsExact
  /\ program = "invert_table" => Tables(PostTriples)!TablesAgree
  /\ program = "exp" => Settings(5)!LookupsFollowFile
  /\ program = "ini" => Settings(4)!GetsTheFirstValue
  /\ program = "LRUCache" => Mutexes!HoldsTheMostRecent

\* A create empties the table first, as invert.hpp says of clear: it answers with
\* the new triples and with no others.
CreateReplaces == program = "invert" => Tables(Triples)!CreateReplaces

\* Texts are told apart by whole characters, and their conversion fits its
\* buffer.
BytesAccountedFor ==
  program = "encode" => Files!EncodingsTold /\ Files!FitsBuffer
=============================================================================
