---------------------------- MODULE SettingsFiles ----------------------------
(***************************************************************************)
(* Two readers of files of sections.  exp.cpp of exp_小流量控制: load reads*)
(* sections [posid] with lines "flag = value", a lookup falls back to the  *)
(* section [default].  Names are lower case already (tolower), and values  *)
(* are those atoi and atof make of the text that is left after trim.       *)
(* ad_system/common/globalHelper.cpp (names with Ini): ReadStringFromIniFile*)
(* looks for an item in a frame and GetIntInSettingFile makes a number of  *)
(* it.  A file is any sequence of the given lines.                         *)
(***************************************************************************)
EXTENDS Naturals, Sequences, FiniteSets, FiniteSetsExt, TLC

CONSTANTS
  Posids, Flags,   \* names of sections, "default" among them, and of flags
  OneChar,         \* the names and values that are one character long
  Values,          \* the texts after "="
  flagType,        \* for each flag what its name contains, "NONE" if no type
  Frames, Items,   \* names of frames and of items
  Texts,           \* values of items as they are written, "" among them
  Numbers,         \* those that lexical_cast<int> accepts
  frame, item,     \* what is asked for
  MaxLines         \* bound: lines of the file

VARIABLES
  loader,   \* the locals posid and flag2value of load, or done
  conf,     \* m_conf and m_default
  reader,   \* findFrame, rs, and whether the reading has ended
  text      \* the lines read so far

vars == <<loader, conf, text>>

Lines ==
  [header : Posids] \cup [flag : Flags, value : Values] \cup {[other |-> "# or without ="]}

\* trim() returns nothing when the first and the last character that is left
\* are one and the same.
trim(s) == IF s \in OneChar THEN "" ELSE s

\* The value of a flag: "wrong" for a line that load refuses.  A string
\* points into a local variable that is gone.
NodeValue(flag, s) ==
  CASE flagType[flag] = "BOOL" -> IF s \in {"true", "false"} THEN s ELSE "wrong"
    [] flagType[flag] \in {"INT", "FLOAT"} -> IF s \in {"", "true", "false"} THEN "0" ELSE s
    [] flagType[flag] = "STRING" -> "dangling"
    [] flagType[flag] = "NONE" -> "wrong"

Init ==
  /\ loader = [posid |-> "", flag2value |-> <<>>, done |-> FALSE]
  /\ conf = [m_conf |-> <<>>, m_default |-> <<>>]
  /\ text = <<>>

ClosedLast(c, l) ==  \* mutant: the last section of a name counts
  CASE l.posid = "default" -> [c EXCEPT !.m_default = l.flag2value]
    [] l.posid = "" -> c
    [] OTHER -> [c EXCEPT !.m_conf = (l.posid :> l.flag2value) @@ @]

\* What a section that ends leaves in m_conf or m_default; insert keeps the
\* first section of a name.
Closed(c, l) ==
  CASE l.posid = "default" -> [c EXCEPT !.m_default = l.flag2value]
    [] l.posid = "" -> c
    [] OTHER -> [c EXCEPT !.m_conf = @ @@ (l.posid :> l.flag2value)]

\* A header: the one after [default] only ends it and is forgotten.
ReadHeader(line) ==
  /\ conf' = Closed(conf, loader)
  /\ loader' =
       [loader EXCEPT !.posid = IF loader.posid = "default" THEN "" ELSE trim(line.header),
                      !.flag2value = IF loader.posid = "" THEN @ ELSE <<>>]

\* A line "flag = value": the first one of a flag stays.
ReadFlag(line) ==
  /\ LET v == NodeValue(line.flag, trim(line.value))
     IN loader' = IF v = "wrong" THEN loader
                  ELSE [loader EXCEPT !.flag2value = @ @@ (line.flag :> v)]
  /\ UNCHANGED conf

load(line) ==
  /\ ~loader.done /\ Len(text) < MaxLines
  /\ text' = Append(text, line)
  /\ CASE "header" \in DOMAIN line -> ReadHeader(line)
       [] "flag" \in DOMAIN line -> ReadFlag(line)
       [] OTHER -> UNCHANGED <<loader, conf>>

EndOfFile ==
  /\ ~loader.done
  /\ conf' = Closed(conf, loader)
  /\ loader' = [posid |-> "", flag2value |-> <<>>, done |-> TRUE]
  /\ UNCHANGED text

Next == (\E line \in Lines : load(line)) \/ EndOfFile

Spec == Init /\ [][Next]_vars

\* What getDefault() may give: it ends the program when the flag is not there
\* either.
getDefault(flag) ==
  IF flag \in DOMAIN conf.m_default THEN {conf.m_default[flag]} ELSE {"exit"}

\* What judgeExpNode() may read of the result of getExpNode().  A node of the
\* section lies in a copy of its map that is destroyed on return.
getExpNode(posid, flag) ==
  IF posid \in DOMAIN conf.m_conf /\ flag \in DOMAIN conf.m_conf[posid]
    THEN {conf.m_conf[posid][flag], "dangling"} ELSE getDefault(flag)

-----------------------------------------------------------------------------
\* Reference: what a file means to load, told from its lines alone.

Headers == {k \in DOMAIN text : "header" \in DOMAIN text[k]}

\* The headers that begin a section with a name; one that ends a [default]
\* section does not begin another.
Named ==
  LET headers == Headers
      begins[h \in headers] ==
        LET before == {g \in headers : g < h}
        IN before = {} \/ text[Max(before)].header # "default" \/ ~begins[Max(before)]
  IN {h \in headers : text[h].header \notin OneChar /\ begins[h]}

\* The section each line counts for: that of the last header, or the next one
\* with a name if that header began none; 0 if there is none.
Owners(named) ==
  LET headers == Headers
      Section(k) == Max({0} \cup {h \in headers : h < k})
      Following(k) == {h \in named : h >= Section(k)}
  IN [k \in DOMAIN text \ headers |-> IF Following(k) = {} THEN 0 ELSE Min(Following(k))]

\* The values for flag among the lines of section h, the first one only.
FirstValue(owners, h, flag) ==
  LET lines == {k \in DOMAIN owners : /\ owners[k] = h /\ h # 0
                                     /\ "flag" \in DOMAIN text[k] /\ text[k].flag = flag
                                     /\ NodeValue(flag, trim(text[k].value)) # "wrong"}
  IN {NodeValue(flag, trim(text[k].value)) : k \in {l \in lines : l = Min(lines)}}

\* Every lookup gives the first value the first section of the name has for the
\* flag, or what lies where it was; else the first of the last [default]; else it
\* ends the program.  The section that follows [default] is lost and its lines
\* count for the next one, as do those in front of the first section and those of
\* a name that is one character long: in the repository's exp.conf, which begins
\* with [DEFAULT], there is no section 0_1, and 0_2 answers with its lines.
LookupsFollowFile ==
  loader.done =>
    LET named == Named
        owners == Owners(named)
        OfName(posid) == {h \in named : text[h].header = posid}
        fallbacks == [f \in Flags |-> FirstValue(owners, Max({0} \cup OfName("default")), f)]
    IN \A p \in Posids \ {"default"} :
         LET section == Min(OfName(p) \cup {Len(text) + 1})
         IN \A f \in Flags :
              LET own == FirstValue(owners, section, f)
              IN getExpNode(p, f) = CASE own # {} -> own \cup {"dangling"}
                                      [] own = {} /\ fallbacks[f] # {} -> fallbacks[f]
                                      [] OTHER -> {"exit"}

-----------------------------------------------------------------------------
\* ad_system/common/globalHelper.cpp

varsIni == <<reader, text>>

LinesIni == [frame : Frames] \cup [item : Items, value : Texts] \cup {[other |-> "neither"]}

InitIni == reader = [findFrame |-> FALSE, rs |-> "", ended |-> FALSE] /\ text = <<>>

\* The loop that looks for the frame.
FindFrame(line) ==
  /\ ~reader.findFrame
  /\ reader' = [reader EXCEPT !.findFrame = "frame" \in DOMAIN line /\ line.frame = frame]

\* The loop in the frame; it ends at the item or at the next frame, and
\* items without a value are passed over.
FindItem(line) ==
  /\ reader.findFrame
  /\ LET found == /\ "item" \in DOMAIN line
                  /\ line.item = item /\ line.value # ""
     IN reader' = [reader EXCEPT !.rs = IF found THEN line.value ELSE @,
                                 !.ended = found \/ "frame" \in DOMAIN line]

ReadLine(line) ==
  /\ ~reader.ended /\ Len(text) < MaxLines
  /\ text' = Append(text, line)
  /\ FindFrame(line) \/ FindItem(line)

EndOfFileIni == ~reader.ended /\ reader' = [reader EXCEPT !.ended = TRUE] /\ UNCHANGED text

NextIni == (\E line \in LinesIni : ReadLine(line)) \/ EndOfFileIni

SpecIni == InitIni /\ [][NextIni]_varsIni

\* GetIntInSettingFile: what is no number counts as missing.
GetIntInSettingFile == IF reader.rs \in Numbers THEN reader.rs ELSE "default"

\* The answer is the first value the first frame of the name has for the
\* item: never one of another frame, and the default only if there is none
\* or it is no number.
GetsTheFirstValue ==
  LET frames == {k \in DOMAIN text : "frame" \in DOMAIN text[k]}
      mine == {k \in frames : text[k].frame = frame}
      inFrame == {k \in DOMAIN text :
                    /\ mine # {} /\ "item" \in DOMAIN text[k]
                    /\ Max({0} \cup {h \in frames : h < k}) = Min(mine)
                    /\ text[k].item = item /\ text[k].value # ""}
      first == text[Min(inFrame)].value
  IN reader.ended =>
       GetIntInSettingFile =
         IF inFrame # {} /\ first \in Numbers THEN first ELSE "default"

==============================================================================
