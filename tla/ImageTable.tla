----------------------------- MODULE ImageTable -----------------------------
(***************************************************************************)
(* The tables of images (init_modem_img_info, modem_load.c): defaults for  *)
(* the board's type of modem, corrected by what the old driver says in its *)
(* ldinfo files, replaced by an XML document (xml_parse.c), corrected by   *)
(* the head of the modem image (modem_head_parse.c), and told to the       *)
(* driver.  main runs this once, before any other thread exists.  The      *)
(* build is the one for an internal modem: a table for cp and one for sp.  *)
(*                                                                         *)
(* The address and the size of an image go together; in their place an     *)
(* entry keeps where they are from.  Size 0 is from Nowhere.               *)
(***************************************************************************)
EXTENDS Integers, SequencesExt

CONSTANTS
  Names,    \* of images, of the driver's files, of nodes and of regions
  Boards    \* what the daemon may find at start, see IsBoard

VARIABLES
  board,    \* what it finds; never changes
  pc,       \* the next call of init_modem_img_info
  table,    \* load_table, per device
  drv,      \* drv_is_ok
  ioctrl,   \* ioctrl_is_ok
  xmlOk,    \* xml_is_ok
  pos,      \* how many tags of the present document expat has reported
  items,    \* item_arry of the document, <<>> for NULL
  itemCnt,  \* the static counter of modem_xml_start_tag
  spilled,  \* history: a tag was written past the end of item_arry
  img       \* modem_img: the names of the regions of the modem head

xml == <<pos, items, itemCnt, spilled>>
tableVars == <<board, pc, table, drv, ioctrl, xmlOk, xml, img>>

Devices == {"cp", "sp"}
Nowhere == <<"nowhere">>
Missing == <<"missing">>       \* an ldinfo file that cannot be read

Entry(n, o, fs, f) == [name |-> n, out |-> o, flags |-> fs, from |-> f]
Blank == Entry("", "", {}, Nowhere)     \* what memset leaves

Origins == {Nowhere, <<"default">>} \cup ({"node", "xml", "head"} \X Names)

Flags   == {"SECURE", "CLR", "CMDLINE", "NV", "CODE", "MODEM", "HEAD", "SP"}
Entries == [name: Names, out: Names, flags: SUBSET Flags, from: Origins]

\* the tags of a document
Tags == [tag: {"cnt"}, n: 0..100] \cup [tag: {"partition"}, entry: Entries]

(***************************************************************************)
(* gdsp: the name of the driver's file for the GDSP; ld: the names in each *)
(* ldinfo file; doc: the tags of each XML document, count tags (0 for a    *)
(* count that is not in 1..100) and partitions; dst, io: its paths exist;  *)
(* head, sci: the modem image, SCI headers if it has that format.          *)
(***************************************************************************)
IsBoard(b) ==
  /\ b.type \in {"TD", "LTE", "NR"}
  /\ b.gdsp \in {"tgdsp", "gdsp"}
  /\ b.proc \in [Devices -> BOOLEAN]
  /\ b.ld \in [Devices -> Seq(Names)]
  /\ b.doc \in [Devices -> Seq(Tags)]
  /\ {b.io, b.dst} \subseteq [Devices -> BOOLEAN]
  /\ b.head \in [readable: BOOLEAN, magic: {"old", "new", "other"},
                 regions: Seq(Names)]
  /\ b.sci \in Seq([bin: BOOLEAN, last: BOOLEAN])

ASSUME NamesAssumption ==
  {"", "modem", "deltanv", "dsp", "gdsp", "tgdsp", "ldsp", "cdsp", "warm", "cpcmdline", "fixnv",
   "runnv", "pm_sys", "cali_lib", "dev/pmsys", "dev/cp"} \subseteq Names
ASSUME BoardsAssumption == \A b \in Boards : IsBoard(b)

TableTypeOK ==
  /\ table \in [Devices -> Seq(Entries)]
  /\ {drv, ioctrl, xmlOk} \subseteq [Devices -> BOOLEAN]
  /\ items \in Seq(Entries)
  /\ {pos, itemCnt} \subseteq Nat
  /\ spilled \in BOOLEAN
  /\ img \in Seq(Names)

TableInit ==
  /\ board \in Boards
  /\ pc = "default"
  /\ table = [d \in Devices |-> <<>>]
  /\ drv = [d \in Devices |-> FALSE]
  /\ ioctrl = [d \in Devices |-> FALSE]
  /\ xmlOk = [d \in Devices |-> FALSE]
  /\ pos = 0
  /\ items = <<>>
  /\ itemCnt = 0
  /\ spilled = FALSE
  /\ img = <<>>

-----------------------------------------------------------------------------
(***************************************************************************)
(* modem_default_init_load_info.                                           *)
(***************************************************************************)
\* the images of the table for cp, in its order
CpBanks == <<"modem", "deltanv", "dsp", "gdsp", "ldsp", "cdsp", "warm",
             "cpcmdline", "fixnv", "runnv">>

\* those that every board names, and those it gives a size, by type
Named(b) == {"modem", "deltanv", "cpcmdline", "fixnv", "runnv"} \cup
              CASE b.type = "TD"  -> {"dsp"}
                [] b.type = "LTE" -> {"gdsp", "ldsp", "cdsp", "warm"}
                [] b.type = "NR"  -> {}

Sized(b) == IF b.type = "NR" THEN Named(b) \ {"modem", "deltanv"}
            ELSE IF b.type = "TD" THEN Named(b) \ {"deltanv"} ELSE Named(b)

\* "MODEM" is any of the flags of MODEM_IMG_EXCPT_HEAD_FLAG
CpFlags(k) == CASE k = "cpcmdline" -> {"CMDLINE", "MODEM"}
                [] k \in {"fixnv", "runnv"} -> {"NV", "MODEM"}
                [] OTHER -> {"SECURE", "MODEM"}

CpDefault(b, k) ==
  LET n == IF k \notin Named(b) THEN "" ELSE IF k = "gdsp" THEN b.gdsp ELSE k
  IN Entry(n, n, CpFlags(k), IF k \in Sized(b) THEN <<"default">> ELSE Nowhere)

\* the second name is stored over the first one's
SpDefaults == <<Entry("cali_lib", "pm_sys", {"SECURE", "SP"}, <<"default">>),
                Entry("", "cali_lib", {"CLR", "SP"}, <<"default">>)>>

Defaults(b) ==
  [d \in Devices |->
     IF d = "cp"
     THEN [i \in 1..Len(CpBanks) |-> IF b.proc[d] THEN CpDefault(b, CpBanks[i]) ELSE Blank]
     ELSE IF b.proc[d] THEN SpDefaults ELSE <<Blank, Blank>>]

DefaultInit ==
  /\ pc = "default"
  /\ pc' = "nodes"
  /\ drv' = board.proc
  /\ table' = Defaults(board)
  /\ UNCHANGED <<board, ioctrl, xmlOk, xml, img>>

(***************************************************************************)
(* modem_init_load_node_info: the nodes of sp, then those of cp at node +  *)
(* n, where n is -1 if the file of sp cannot be read.  The first node of   *)
(* cp is then written before the array, and the last one stays empty.      *)
(***************************************************************************)
NodeCount(b, d) == IF b.ld[d] = Missing THEN 0 ELSE Len(b.ld[d])

\* a mutation: the nodes of cp are read over those of sp
NodesOverSp(b) ==
  [j \in 1..NodeCount(b, "sp") + NodeCount(b, "cp") |->
     IF j <= NodeCount(b, "cp") THEN b.ld["cp"][j] ELSE ""]

Nodes(b) ==
  LET n == IF b.ld["sp"] = Missing THEN -1 ELSE Len(b.ld["sp"]) IN
  [j \in 1..NodeCount(b, "sp") + NodeCount(b, "cp") |->
     IF j <= n THEN b.ld["sp"][j]
     ELSE IF j - n <= NodeCount(b, "cp") THEN b.ld["cp"][j - n] ELSE ""]

\* strstr(path_w, node->name), for the names there are
PartOf(out, n) ==
  \/ n = ""
  \/ n = out
  \/ n = "dsp" /\ out \in {"tgdsp", "gdsp", "ldsp", "cdsp"}
  \/ n = "gdsp" /\ out = "tgdsp"

\* modem_correct_image, for one entry
Corrected(e, nodes) ==
  LET hits == {j \in DOMAIN nodes : PartOf(e.out, nodes[j])} IN
  IF hits = {} THEN e
  ELSE LET n == nodes[Min(hits)] IN
       [e EXCEPT !.from = IF n = "" THEN Nowhere ELSE <<"node", n>>]

CorrectModemInfo ==
  /\ pc = "nodes"
  /\ pc' = "xml cp"
  /\ table' = [d \in Devices |-> [i \in DOMAIN table[d] |->
                                    Corrected(table[d][i], Nodes(board))]]
  /\ UNCHANGED <<board, drv, ioctrl, xmlOk, xml, img>>

-----------------------------------------------------------------------------
(***************************************************************************)
(* modem_xml_init_load_info: expat calls modem_xml_start_tag for every tag *)
(* of the document; a document with an error ends where the error is.      *)
(***************************************************************************)
XmlOf    == [cp |-> "xml cp", sp |-> "xml sp"]
More(d)  == pc = XmlOf[d] /\ pos < Len(board.doc[d])
Tag(d)   == board.doc[d][pos + 1]

\* a mutation: the counter goes on from the document before
PartionCntNoReset(d) ==
  /\ More(d)
  /\ Tag(d).tag = "cnt"
  /\ pos' = pos + 1
  /\ items' = IF Tag(d).n # 0 /\ items = <<>> THEN [j \in 1..Tag(d).n |-> Blank] ELSE items
  /\ UNCHANGED <<board, pc, table, drv, ioctrl, xmlOk, itemCnt, spilled, img>>

\* the array is allocated once; every valid count starts it again from the front
PartionCnt(d) ==
  /\ More(d)
  /\ Tag(d).tag = "cnt"
  /\ pos' = pos + 1
  /\ items' = IF Tag(d).n # 0 /\ items = <<>> THEN [j \in 1..Tag(d).n |-> Blank] ELSE items
  /\ itemCnt' = IF Tag(d).n # 0 THEN 0 ELSE itemCnt
  /\ UNCHANGED <<board, pc, table, drv, ioctrl, xmlOk, spilled, img>>

Partition(d) ==
  /\ More(d)
  /\ Tag(d).tag = "partition"
  /\ pos' = pos + 1
  /\ IF items = <<>> THEN UNCHANGED <<items, itemCnt, spilled>>
     ELSE /\ itemCnt' = itemCnt + 1
          /\ IF itemCnt < Len(items)
             THEN items' = [items EXCEPT ![itemCnt + 1] = Tag(d).entry] /\ UNCHANGED spilled
             ELSE spilled' = TRUE /\ UNCHANGED items
  /\ UNCHANGED <<board, pc, table, drv, ioctrl, xmlOk, img>>

\* the path of the driver's device
DevPath(d) == IF d = "sp" THEN "dev/pmsys" ELSE "dev/cp"

\* modem_xml_to_load_info; the ioctl interface writes every image to the device
XmlToLoadInfo(d) ==
  /\ pc = XmlOf[d]
  /\ ~More(d)
  /\ pc' = IF d = "cp" THEN "xml sp" ELSE "head"
  /\ pos' = 0
  /\ items' = <<>>
  /\ IF items = <<>> THEN UNCHANGED <<table, drv, ioctrl, xmlOk>>
     ELSE /\ drv' = [drv EXCEPT ![d] = @ \/ board.dst[d]]
          /\ ioctrl' = [ioctrl EXCEPT ![d] = board.io[d]]
          /\ xmlOk' = [xmlOk EXCEPT ![d] = TRUE]
          /\ table' = [table EXCEPT ![d] =
               [i \in DOMAIN items |->
                  IF board.io[d] THEN [items[i] EXCEPT !.out = DevPath(d)] ELSE items[i]]]
  /\ UNCHANGED <<board, itemCnt, spilled, img>>

-----------------------------------------------------------------------------
(***************************************************************************)
(* get_modem_img_info: where the modem's code is in its partition, and its *)
(* size: <<>> for the whole partition from 0, or the number of the header  *)
(* that describes the block, and 0 for a size that is never assigned.      *)
(***************************************************************************)
\* a mutation: the scan does not stop at the last header
SciEndPast(hs) == Len(hs)

SciEnd(hs) == Min({i \in DOMAIN hs : hs[i].last} \cup {Len(hs)})

SciBins(hs) == {i \in 1..SciEnd(hs) : hs[i].bin}

\* a mutation: a size that is not found is -1
SciSizeNegative(hs) == IF hs = <<>> THEN <<>>
                       ELSE IF SciBins(hs) = {} THEN <<-1>> ELSE <<Max(SciBins(hs))>>

SciSize(hs) == IF hs = <<>> THEN <<>>
               ELSE IF SciBins(hs) = {} THEN <<0>> ELSE <<Max(SciBins(hs))>>

SciOffset(hs) == IF hs = <<>> \/ SciBins(hs) = {} \/ ~hs[SciEnd(hs)].last THEN <<>>
                 ELSE <<Max(SciBins(hs))>>

(***************************************************************************)
(* modem_head_correct_load_info.                                           *)
(***************************************************************************)
\* modem_head_construct_img, for the heads it knows
Construct(h) == IF h.magic = "other" THEN <<>> ELSE h.regions

\* modem_head_get_head: the head is where the code of the modem begins
HeadFound(b, t) ==
  /\ \E i \in DOMAIN t : t[i].name = "modem"
  /\ b.head.readable
  /\ b.sci # <<>> => SciOffset(b.sci) # <<>>

\* a mutation: what the head does not know stays, whatever it is
ConvertedLax(e, regions, xmlIsOk) ==
  IF e.name \in ToSet(regions) THEN [e EXCEPT !.from = <<"head", e.name>>]
  ELSE IF ~xmlIsOk THEN [e EXCEPT !.from = Nowhere] ELSE e

\* modem_head_convert_img, for one entry
Converted(e, regions, xmlIsOk) ==
  IF e.name \in ToSet(regions) THEN [e EXCEPT !.from = <<"head", e.name>>]
  ELSE IF ~xmlIsOk \/ "MODEM" \in e.flags THEN [e EXCEPT !.from = Nowhere] ELSE e

\* then modem_load_set_load_info tells the driver, see Misplaced in SecureLoad
HeadCorrect ==
  /\ pc = "head"
  /\ pc' = "idle"
  /\ img' = IF HeadFound(board, table["cp"]) THEN Construct(board.head) ELSE img
  /\ table' = IF img' = <<>> THEN table
              ELSE [table EXCEPT !["cp"] = [i \in DOMAIN @ |->
                      Converted(@[i], img', xmlOk["cp"])]]
  /\ UNCHANGED <<board, drv, ioctrl, xmlOk, xml>>

InitModemImgInfo ==
  \/ DefaultInit
  \/ CorrectModemInfo
  \/ \E d \in Devices : PartionCnt(d) \/ Partition(d) \/ XmlToLoadInfo(d)
  \/ HeadCorrect
=============================================================================
