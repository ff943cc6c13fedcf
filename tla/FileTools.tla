------------------------------ MODULE FileTools ------------------------------
(***************************************************************************)
(* encode_convert.cpp of CharConvertTool/ and of ad_system/common/: the    *)
(* tests for UTF-8 and GBK and the size of the buffers of a conversion.    *)
(* The text is any sequence of the given bytes; every prefix is examined.  *)
(* file_cp/: a file is copied by n processes (mult_process_cp.c) or by n   *)
(* threads beside one that draws the progress (mult_thread_cp.c).          *)
(***************************************************************************)
EXTENDS Naturals, Sequences, FiniteSets, FiniteSetsExt, SequencesExt

CONSTANTS
  Bytes, MaxBytes,  \* the bytes of a text; bound: how many
  MaxLen, MaxN,     \* bounds: length of the file, number of processes or threads
  ITEMS             \* marks of the progress bar; 50 in the source

VARIABLES
  str,      \* the text
  job,      \* by: "process" or "thread"; the length of the file and n
  copied,   \* how often each byte has been written
  done,     \* bytes each copier has copied
  draw      \* marks drawn; of the processes: 0

-----------------------------------------------------------------------------
\* encode_convert.cpp

varsText == <<str>>

InitText == str = <<>>

\* One more byte of the text.
Read(chr) == Len(str) < MaxBytes /\ str' = Append(str, chr)

NextText == \E chr \in Bytes : Read(chr)

\* Bytes that follow a first byte; 7 if it cannot be one.
Following(chr) ==
  CASE chr >= 252 /\ chr <= 253 -> 5
    [] chr >= 248 /\ ~(chr >= 252 /\ chr <= 253) -> 4
    [] chr >= 240 /\ chr < 248 -> 3
    [] chr >= 224 /\ chr < 240 -> 2
    [] chr >= 192 /\ chr < 224 -> 1
    [] chr >= 128 /\ chr < 192 -> 7
    [] chr < 128 -> 0

ScanAny(nBytes, chr) ==  \* mutant: 10xxxxxx is not asked for
  IF nBytes = 7 THEN 7 ELSE IF nBytes = 0 THEN Following(chr) ELSE nBytes - 1

\* The loop of _isUTF8_: nBytes after one more byte, 7 after return false.
Scan(nBytes, chr) ==
  CASE nBytes = 7 -> 7
    [] nBytes = 0 -> Following(chr)
    [] OTHER -> IF chr >= 128 /\ chr < 192 THEN nBytes - 1 ELSE 7

_isUTF8_ == FoldLeft(Scan, 0, str) = 0

\* _isGBK_: g[i] is whether the rest from position i is accepted.  A last
\* byte is never looked at; of a pair only the first byte is tested.
_isGBK_ ==
  LET len == Len(str)
      g[i \in 1 .. len + 2] ==
        IF i >= len THEN TRUE
        ELSE IF str[i] < 128 THEN g[i + 1]
        ELSE str[i] >= 129 /\ str[i] <= 254 /\ g[i + 2]
  IN g[1]

\* ConvertCore: the bytes of convBuff and the room iconv is told it has.
convBuffLen(size) == IF 1024 < size * 2 THEN size * 2 ELSE 1024

outLen(size) == (size + 1) * 2

\* A text of pairs GBK pairs and single ASCII bytes, as UTF-8 and with its NUL.
UTF8Size(pairs, single) == 3 * pairs + single + 1

\* The text is a sequence of whole characters: a first byte and as many
\* continuation bytes as it announces.
WholeCharacters ==
  \E starts \in SUBSET DOMAIN str :
    \A k \in 1 .. Len(str) :
      LET s == Max({0} \cup {j \in starts : j <= k})
      IN /\ s # 0 /\ Following(str[s]) # 7
         /\ k \notin starts => str[k] >= 128 /\ str[k] < 192 /\ k - s <= Following(str[s])
         /\ (k = Len(str) \/ k + 1 \in starts) => k - s = Following(str[s])

\* The text is a sequence of ASCII bytes and of pairs with a first byte from 129
\* to 254; the last byte, if it begins a character, may be any.
PairsAndSingles ==
  \E starts \in SUBSET DOMAIN str :
    \A k \in 1 .. Len(str) :
      IF k \in starts
      THEN k < Len(str) => (k + 1 \in starts <=> str[k] < 128) /\ str[k] \in 0 .. 127 \cup 129 .. 254
      ELSE k - 1 \in starts /\ (k < Len(str) => k + 1 \in starts)

\* _isUTF8_ accepts exactly the texts made of whole characters, and _isGBK_
\* exactly those made of ASCII and pairs.
EncodingsTold ==
  /\ _isUTF8_ <=> WholeCharacters
  /\ _isGBK_ <=> PairsAndSingles

\* iconv is told of two bytes more than convBuff has, yet a GBK text always
\* fits into it, at 512 bytes, where the buffer begins to grow, as elsewhere.
FitsBuffer ==
  \A pairs \in 0 .. 260, single \in 0 .. 3 :
    LET size == 2 * pairs + single
    IN size > 0 => /\ UTF8Size(pairs, single) <= outLen(size)
                   /\ UTF8Size(pairs, single) <= convBuffLen(size)

-----------------------------------------------------------------------------
\* file_cp/

vars == <<job, copied, done, draw>>

\* Mutant of ProcessBlock: nothing is said of the first child.
ProcessBlockAlike(i) ==
  LET bs == job.len \div job.n
      mod == job.len % bs
  IN CASE i = job.n - 1 -> [off |-> i * bs, size |-> bs + mod]
       [] OTHER -> [off |-> i * bs + 1, size |-> bs]

\* The offset and the number of bytes of child i: the one in the middle
\* begins a byte late, and the rest is taken modulo the block.
ProcessBlock(i) ==
  LET bs == job.len \div job.n
      mod == job.len % bs
  IN CASE i = job.n - 1 -> [off |-> i * bs, size |-> bs + mod]
       [] i = 0 /\ job.n > 1 -> [off |-> 0, size |-> bs]
       [] OTHER -> [off |-> i * bs + 1, size |-> bs]

ThreadBlockNoRest(i) ==  \* mutant: nobody takes the rest
  [off |-> i * (job.len \div job.n), size |-> job.len \div job.n]

\* arr[i] of the threads
ThreadBlock(i) ==
  LET len == job.len \div job.n
  IN [off |-> i * len, size |-> IF i = job.n - 1 THEN len + (job.len % job.n) ELSE len]

\* mmap fails for an empty file; n is at most the length for the processes.
Init ==
  /\ job \in {j \in [by : {"process", "thread"}, len : 1 .. MaxLen, n : 1 .. MaxN] :
                j.by = "process" => j.n <= j.len}
  /\ copied = [b \in 0 .. job.len - 1 |-> 0]
  /\ done = [i \in 0 .. job.n - 1 |-> 0]
  /\ draw = 0

\* memcpy of child i
Memcpy(i) ==
  LET block == ProcessBlock(i)
  IN /\ job.by = "process" /\ done[i] = 0
     /\ copied' = [b \in DOMAIN copied |->
                     IF b >= block.off /\ b < block.off + block.size THEN copied[b] + 1 ELSE copied[b]]
     /\ done' = [done EXCEPT ![i] = block.size]
     /\ UNCHANGED <<job, draw>>

\* One turn of the loop of tfn
tfn(i) ==
  /\ job.by = "thread" /\ done[i] < ThreadBlock(i).size
  /\ copied' = [copied EXCEPT ![ThreadBlock(i).off + done[i]] = @ + 1]
  /\ done' = [done EXCEPT ![i] = @ + 1]
  /\ UNCHANGED <<job, draw>>

\* One turn of the loop of display; a file shorter than ITEMS - 1 bytes
\* makes interval 0 and the division ends the program.
display ==
  LET interval == job.len \div (ITEMS - 1)
      j == (MapThenSumSet(LAMBDA i : done[i], DOMAIN done) \div interval) + 1
  IN /\ job.by = "thread" /\ interval > 0
     /\ draw < ITEMS /\ j > draw /\ draw' = j
     /\ UNCHANGED <<job, copied, done>>

Copier(i) == Memcpy(i) \/ tfn(i)

Next == (\E i \in DOMAIN done : Copier(i)) \/ display

Finished(i) ==
  done[i] = IF job.by = "process" THEN ProcessBlock(i).size ELSE ThreadBlock(i).size

\* The threads have copied every byte once when they are joined, whatever n
\* and the length are.  The children leave out exactly two kinds of bytes: with
\* more than two of them the first of the second block, where the child begins
\* one late, and what lies behind the len % bs bytes the last child adds to its
\* block.  Lines 70 and 81 of mult_process_cp.c say that it adds all that is left
\* after the division by n: a file of 3 bytes copied by 2 children has lost its
\* tail.
CopyComplete ==
  (\A i \in DOMAIN done : Finished(i)) =>
    LET bs == job.len \div job.n
    IN \A b \in DOMAIN copied :
         IF job.by = "thread" THEN copied[b] = 1
         ELSE copied[b] = 0 <=> (job.n > 2 /\ b = bs) \/ b >= job.n * bs + (job.len % bs)

BlocksInFile ==
  \A i \in DOMAIN done :
    LET block == IF job.by = "process" THEN ProcessBlock(i) ELSE ThreadBlock(i)
    IN block.off + block.size <= job.len
==============================================================================
