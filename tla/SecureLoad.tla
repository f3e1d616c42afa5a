----------------------------- MODULE SecureLoad -----------------------------
(***************************************************************************)
(* Loading an internal modem from the tables of ImageTable: load_modem_img *)
(* without FEATURE_EXTERNAL_MODEM (modem_load.c) with the CONFIG_VBOOT_V2  *)
(* part of secure_boot_load.c.  While the images are loaded kbc_table      *)
(* collects what is to be verified; the trusted application verifies all   *)
(* of it before the modem is started.  Loads follow one another: main runs *)
(* the first one and then listen_clients.                                  *)
(***************************************************************************)
EXTENDS ImageTable

CONSTANTS
  Slots,    \* of kbc_table, in this build
  Budget    \* how often the environment may do each thing

\* NOT_VERIFY_MODEM leaves only the slot of pm_sys, SHARKL5_CDSP adds that of cdsp
ASSUME SlotsAssumption == Slots \subseteq {"pm_sys", "modem", "tgdsp", "ldsp", "cdsp"}

Events == {"load", "copy", "footer", "refuse"}
ASSUME BudgetAssumption == Budget \in [Events -> Nat]

VARIABLES
  type,     \* load_type, as the devices it stands for
  at,       \* the loop index of load_img_from_table
  mem,      \* what was written last to each region of a device
  kbc,      \* kbc_table: what each of its slots describes
  running,  \* the device is off, on, or on since the boot loader started it
  wake,     \* load_modem_img holds the wake lock
  state,    \* g_modem_state, as far as load_modem_img sets it
  done,     \* history: the secure images of this load
  seen,     \* history: what the trusted application verified last
  left      \* what is left of Budget

tables == <<board, table, drv, ioctrl, xmlOk, xml, img>>
vars   == <<tableVars, type, at, mem, kbc, running, wake, state, done, seen, left>>

Unfilled == [entry |-> Blank, footer |-> FALSE]
NoSlots  == [s \in Slots |-> Unfilled]

\* a region: the entry it was written for, the SCI blocks that gave offset and
\* size, and whether the copy came to its end and is still there
Empty   == [entry |-> Blank, off |-> <<>>, size |-> <<>>, whole |-> FALSE]
Regions == [entry: Entries, off: Seq(Nat), size: Seq(Nat), whole: BOOLEAN]

TypeOK ==
  /\ TableTypeOK
  /\ pc \in {"default", "nodes", "xml cp", "xml sp", "head", "idle", "unlock", "stop",
             "sp", "cp", "copy sp", "copy cp", "verify", "start", "hang"}
  /\ type \subseteq Devices
  /\ at \in Nat
  /\ mem \in [Devices -> Seq(Regions)]
  /\ \A d \in Devices : mem[d] # <<>> => DOMAIN mem[d] = DOMAIN table[d]
  /\ {kbc, seen} \subseteq [Slots -> [entry: Entries, footer: BOOLEAN]]
  /\ running \in [Devices -> {"off", "boot", "on"}]
  /\ wake \in BOOLEAN
  /\ state \in {"other", "LOADING", "BOOTING"}
  /\ done \subseteq Entries
  /\ left \in [Events -> Nat]

Init ==
  /\ TableInit
  /\ type = {}
  /\ at = 1
  /\ mem = [d \in Devices |-> <<>>]
  /\ kbc = NoSlots
  /\ running \in {[d \in Devices |-> r] : r \in {"off", "boot"}}
  /\ wake = FALSE
  /\ state = "other"
  /\ done = {}
  /\ seen = NoSlots
  /\ left = Budget

Spend(what) == left[what] > 0 /\ left' = [left EXCEPT ![what] = @ - 1]

Startup == InitModemImgInfo /\ UNCHANGED <<type, at, mem, kbc, running, wake, state, done,
                                           seen, left>>

-----------------------------------------------------------------------------
(***************************************************************************)
(* The trusted application.  It stops what will be loaded; it accepts only *)
(* what is whole in memory and has its footer.                             *)
(***************************************************************************)
Filled(k) == {s \in Slots : k[s].entry # Blank}

Whole(e) == \E d \in Devices : \E i \in DOMAIN mem[d] : mem[d][i].entry = e /\ mem[d][i].whole

Accepts == \A s \in Filled(kbc) : kbc[s].footer /\ Whole(kbc[s].entry)

Refuses == (~Accepts /\ UNCHANGED left) \/ Spend("refuse")

-----------------------------------------------------------------------------
\* the wake lock, and secure_boot_set_flag, which tells what will be loaded
Begin(ty) ==
  /\ pc = "idle"
  /\ Spend("load")
  /\ pc' = "unlock"
  /\ type' = ty
  /\ wake' = TRUE
  /\ done' = {}
  /\ mem' = [d \in Devices |->
       IF mem[d] = <<>> THEN [i \in DOMAIN table[d] |-> Empty] ELSE mem[d]]
  /\ UNCHANGED <<tables, at, kbc, running, state, seen>>

\* secure_boot_unlock_ddr: a refusal is met with while (1)
UnlockDdr ==
  /\ pc = "unlock"
  /\ \/ /\ pc' = "stop"
        /\ running' = [d \in Devices |-> IF d \in type THEN "off" ELSE running[d]]
        /\ UNCHANGED left
     \/ pc' = "hang" /\ Spend("refuse") /\ UNCHANGED running
  /\ UNCHANGED <<tables, type, at, mem, kbc, wake, state, done, seen>>

Driven(d) == drv[d] \/ ioctrl[d]

\* load_img_from_table: the first entry from i on that it does not skip
ImgFlags(d) == IF d = "sp" THEN {"SP"} ELSE {"MODEM", "HEAD"}

Wanted(d, i) == table[d][i].from # Nowhere /\ table[d][i].flags \cap ImgFlags(d) # {}

First(d, i) ==
  Min({j \in i..Len(table[d]) : d \in type /\ Driven(d) /\ Wanted(d, j)}
      \cup {Len(table[d]) + 1})

\* modem_load_stop, and the state LOADING
Stop ==
  /\ pc = "stop"
  /\ pc' = "sp"
  /\ at' = First("sp", 1)
  /\ running' = [d \in Devices |-> IF d \in type /\ Driven(d) THEN "off" ELSE running[d]]
  /\ state' = "LOADING"
  /\ UNCHANGED <<tables, type, mem, kbc, wake, done, seen, left>>

\* the table of sp is loaded: on to that of cp, and then to secure_boot_verify_all
TableLoaded(d) ==
  /\ pc = d
  /\ at > Len(table[d])
  /\ pc' = IF d = "sp" THEN "cp" ELSE "verify"
  /\ at' = IF d = "sp" THEN First("cp", 1) ELSE at
  /\ UNCHANGED <<tables, type, mem, kbc, running, wake, state, done, seen, left>>

Loading(d) == pc = d /\ at <= Len(table[d])
Flagged(d, fs) == table[d][at].flags \cap fs # {}
Copying == [sp |-> "copy sp", cp |-> "copy cp"]

\* modem_set_load_info or modem_set_write_region has failed and nobody has looked:
\* what is written goes over another region of the device
Misplaced(d) == /\ ioctrl[d]
                /\ \E j \in DOMAIN mem[d] : mem' = [mem EXCEPT ![d][j].whole = FALSE]

\* the region of the present entry gets r, or some of it; nobody looks at the result
Written(d, r) ==
  \/ mem' = [mem EXCEPT ![d][at] = [r EXCEPT !.whole = TRUE]] /\ UNCHANGED left
  \/ (mem' \in {mem, [mem EXCEPT ![d][at] = r]} \/ Misplaced(d)) /\ Spend("copy")

\* modem_load_cp_cmdline, modem_load_cp_nv (see NvRead), modem_load_cp_boot_code
LoadData(d) ==
  /\ Loading(d)
  /\ Flagged(d, {"CMDLINE", "NV", "CODE"})
  /\ Written(d, [Empty EXCEPT !.entry = table[d][at]])
  /\ at' = First(d, at + 1)
  /\ UNCHANGED <<tables, pc, type, kbc, running, wake, state, done, seen>>

\* the slot of kbc_table that the path of the output names, if any
Slot(out) == Slots \cap CASE out \in {"pm_sys", "dev/pmsys"} -> {"pm_sys"}
                           [] out \in {"tgdsp", "gdsp"} -> {"tgdsp"}
                           [] OTHER -> {out} \cap {"modem", "ldsp", "cdsp"}

\* get_image_footer_byname; a footer that cannot be read leaves what was there
Described(e, read) ==
  [s \in Slots |-> IF s \in Slot(e.out) THEN [entry |-> e, footer |-> read \/ kbc[s].footer]
                   ELSE kbc[s]]

\* secure_boot_load_img up to the copy: get_image_footer_byname, fill_verify_table
FillVerifyTable(d) ==
  /\ Loading(d)
  /\ ~Flagged(d, {"CMDLINE", "NV", "CODE"})
  /\ pc' = Copying[d]
  /\ IF Flagged(d, {"SECURE"})
     THEN LET e == table[d][at] IN
          /\ done' = done \cup {e}
          /\ \/ kbc' = Described(e, TRUE) /\ UNCHANGED left
             \/ kbc' = Described(e, FALSE) /\ Spend("footer")
     ELSE UNCHANGED <<done, kbc, left>>
  /\ UNCHANGED <<tables, type, at, mem, running, wake, state, seen>>

\* modem_get_patiton_info and modem_load_image; the modem may be in SCI format
LoadImage(d) ==
  /\ pc = Copying[d]
  /\ pc' = d
  /\ at' = First(d, at + 1)
  /\ LET hs == IF table[d][at].name = "modem" THEN board.sci ELSE <<>> IN
       Written(d, [Empty EXCEPT !.entry = table[d][at], !.off = SciOffset(hs),
                                !.size = SciSize(hs)])
  /\ UNCHANGED <<tables, type, kbc, running, wake, state, done, seen>>

\* a mutation: the verdict is not looked at
VerifyAllLax ==
  /\ pc = "verify"
  /\ pc' = "start" /\ kbc' = NoSlots /\ seen' = kbc /\ UNCHANGED left
  /\ UNCHANGED <<tables, type, at, mem, running, wake, state, done>>

\* a mutation: the table is not cleared for the next load
VerifyAllKeeps ==
  /\ pc = "verify"
  /\ \/ Accepts /\ pc' = "start" /\ seen' = kbc /\ UNCHANGED <<kbc, left>>
     \/ Refuses /\ pc' = "hang" /\ UNCHANGED <<kbc, seen>>
  /\ UNCHANGED <<tables, type, at, mem, running, wake, state, done>>

\* secure_boot_verify_all: a refusal is met with while (1)
VerifyAll ==
  /\ pc = "verify"
  /\ \/ Accepts /\ pc' = "start" /\ kbc' = NoSlots /\ seen' = kbc /\ UNCHANGED left
     \/ Refuses /\ pc' = "hang" /\ UNCHANGED <<kbc, seen>>
  /\ UNCHANGED <<tables, type, at, mem, running, wake, state, done>>

\* modem_load_start, the state BOOTING, the wake lock
Start ==
  /\ pc = "start"
  /\ pc' = "idle"
  /\ running' = [d \in Devices |-> IF d \in type /\ Driven(d) THEN "on" ELSE running[d]]
  /\ state' = "BOOTING"
  /\ wake' = FALSE
  /\ UNCHANGED <<tables, type, at, mem, kbc, done, seen, left>>

LoadModemImg ==
  \/ UnlockDdr \/ Stop \/ VerifyAll \/ Start
  \/ \E d \in Devices : TableLoaded(d) \/ LoadData(d) \/ FillVerifyTable(d) \/ LoadImage(d)

\* LOAD_ALL_IMG if the boot loader has not started the modem, by main
BootModem == state = "other" /\ running["cp"] = "off" /\ Begin({"cp", "sp"})

\* LOAD_MODEM_IMG for a reset, by listen_clients
ReloadModem == (state = "BOOTING" \/ running["cp"] = "boot") /\ Begin({"cp"})

Next == Startup \/ BootModem \/ ReloadModem \/ LoadModemImg

Spec == Init /\ [][Next]_vars

-----------------------------------------------------------------------------
\* the valid counts of a document, and its partitions from the first one to tag k
Counts(doc) == {j \in DOMAIN doc : doc[j].tag = "cnt" /\ doc[j].n # 0}
ListedTo(doc, k) == {j \in 1..k : j > Min(Counts(doc)) /\ doc[j].tag = "partition"}

WellFormed(doc) == /\ Cardinality(Counts(doc)) = 1
                   /\ Cardinality(ListedTo(doc, Len(doc))) <= doc[Min(Counts(doc))].n

\* array holds what the first k tags of a document list, in their order
ItemsOf(array, doc, k) ==
  /\ Len(array) = doc[Min(Counts(doc))].n
  /\ \A j \in ListedTo(doc, k) : array[Cardinality(ListedTo(doc, j))] = doc[j].entry
  /\ \A i \in DOMAIN array : i > Cardinality(ListedTo(doc, k)) => array[i] = Blank

(***************************************************************************)
(* modem_xml_start_tag keeps its index in a static variable from one       *)
(* document to the next: still, of a document that has one count and not   *)
(* more partitions than that, item_arry gets the partitions in their order *)
(* and nothing else, whatever the document before was like.                *)
(***************************************************************************)
ItemsAreTheDocuments ==
  \A d \in Devices : pc = XmlOf[d] /\ ~More(d) /\ WellFormed(board.doc[d]) =>
    ItemsOf(items, board.doc[d], Len(board.doc[d]))

(***************************************************************************)
(* modem_xml_start_tag does not compare its index with the size of         *)
(* item_arry: a partition is written past its end only if one of the two   *)
(* documents has more partitions than its count says, or several counts.   *)
(***************************************************************************)
SpillsOnlySurplus ==
  spilled => \E d \in Devices : Counts(board.doc[d]) # {} /\ ~WellFormed(board.doc[d])

(***************************************************************************)
(* "correct load addr by get ldinfo(old cptl driver)"                      *)
(* (modem_default_init_load_info): where the nodes of sp can be read, have *)
(* names, and no node's name is part of another name, an image with a node *)
(* in either file has the range of that node, and the entry of an image    *)
(* without one is the default.                                             *)
(***************************************************************************)
NodesDecide ==
  LET ns == UNION {ToSet(board.ld[d]) : d \in {c \in Devices : board.ld[c] # Missing}}
      outs == UNION {{table[d][i].out : i \in DOMAIN table[d]} : d \in Devices}
      apart == "" \notin ns /\ \A m \in ns \cup outs, n \in ns : PartOf(m, n) => m = n
  IN pc = "xml cp" /\ ~xmlOk["cp"] /\ board.ld["sp"] # Missing /\ apart =>
       \A d \in Devices : \A i \in DOMAIN table[d] :
         LET e == table[d][i] IN
         IF e.out \in ns THEN e.from = <<"node", e.out>> ELSE e = Defaults(board)[d][i]

(***************************************************************************)
(* "than try get from modem head" (init_modem_img_info): when the modem    *)
(* image has a head with regions, then nothing of the modem is ever loaded *)
(* to an address that is not from the head, be the table from the          *)
(* defaults, the old driver or a document.                                 *)
(***************************************************************************)
HeadDecides ==
  img # <<>> =>
    \A i \in DOMAIN mem["cp"] :
      LET e == mem["cp"][i].entry IN "MODEM" \in e.flags => e.from = <<"head", e.name>>

\* an image that is copied from a partition
Plain(e) == e.flags \cap {"CMDLINE", "NV", "CODE"} = {}

(***************************************************************************)
(* From a modem partition in SCI format with a modem block and, within the *)
(* headers that are read, a last header, the modem block is loaded: the    *)
(* offset and the size are of one block, of type MODEM, of the image and   *)
(* not of what comes after its headers (get_modem_img_info).               *)
(***************************************************************************)
CopiesTheModem ==
  LET hs == board.sci
      inImage(j) == \A k \in 1..j - 1 : ~hs[k].last
      sound == (\E j \in DOMAIN hs : hs[j].last)
               /\ (\E j \in DOMAIN hs : inImage(j) /\ hs[j].bin)
  IN \A i \in DOMAIN mem["cp"] :
       LET r == mem["cp"][i] IN
       r.entry.name = "modem" /\ Plain(r.entry) /\ sound =>
         \E j \in DOMAIN hs : inImage(j) /\ hs[j].bin /\ r.off = <<j>> /\ r.size = <<j>>

\* an image that is loaded, is to be verified, and has a slot of kbc_table
Verified(d, i) ==
  LET e == table[d][i] IN
  Wanted(d, i) /\ Plain(e) /\ "SECURE" \in e.flags /\ Slot(e.out) # {}

\* no two of them have the same slot
SlotsApart ==
  \A c \in Devices : \A i \in DOMAIN table[c] : Verified(c, i) =>
    \A d \in Devices : \A j \in DOMAIN table[d] :
      Verified(d, j) /\ Slot(table[c][i].out) = Slot(table[d][j].out) => c = d /\ i = j

(***************************************************************************)
(* load_modem_img ignores the result of every copy and of the ioctls that  *)
(* choose its region: it is the verification that keeps the daemon from    *)
(* starting an internal modem with an image that was copied in part, not   *)
(* at all or over another one, in this load or in one before.  For those   *)
(* images that kbc_table has slots for, where each has a slot of its own.  *)
(***************************************************************************)
RunsOnlyWhole ==
  \A d \in Devices : running[d] = "on" /\ SlotsApart =>
    \A i \in DOMAIN table[d] :
      Verified(d, i) => mem[d][i].entry = table[d][i] /\ mem[d][i].whole

(***************************************************************************)
(* What is verified is what this (internal) load has loaded: no slot is    *)
(* left from a load before, and no image that has a slot is missing, where *)
(* each has a slot of its own.                                             *)
(***************************************************************************)
VerifiesThisLoad ==
  pc = "start" /\ SlotsApart =>
    {seen[s].entry : s \in Filled(seen)} = {e \in done : Slot(e.out) # {}}

-----------------------------------------------------------------------------
(***************************************************************************)
(* The inductive invariant.  First the tables: where their entries are     *)
(* from once the modem head has been looked at.                            *)
(***************************************************************************)
Starting == {"default", "nodes", "xml cp", "xml sp", "head"}

FromNodes == pc = "nodes" => table = Defaults(board)

FromHead ==
  IF pc \in Starting THEN img = <<>>
  ELSE /\ img = IF HeadFound(board, table["cp"]) THEN Construct(board.head) ELSE <<>>
       /\ img # <<>> => \A i \in DOMAIN table["cp"] :
            LET e == table["cp"][i] IN
            "MODEM" \in e.flags => e.from \in {Nowhere, <<"head", e.name>>}

TablesInv == TypeOK /\ IsBoard(board) /\ FromNodes /\ FromHead

\* item_arry and its index after the first k tags of a document
ParsedTo(array, cnt, doc, k) ==
  /\ k <= Len(doc)
  /\ (\A j \in Counts(doc) : j > k) => array = <<>>
  /\ WellFormed(doc) /\ (\E j \in Counts(doc) : j <= k) =>
       ItemsOf(array, doc, k) /\ cnt = Cardinality(ListedTo(doc, k))

Parsed ==
  /\ pc \notin {"xml cp", "xml sp"} => pos = 0 /\ items = <<>>
  /\ \A d \in Devices : pc = XmlOf[d] => ParsedTo(items, itemCnt, board.doc[d], pos)

XmlInv == Parsed /\ SpillsOnlySurplus

(***************************************************************************)
(* Second, a load: it stops only at entries that it wants, and a region    *)
(* holds nothing or what the load makes of the entry with the same index.  *)
(***************************************************************************)
Stopped(d) == at \in DOMAIN table[d] /\ d \in type /\ Driven(d) /\ Wanted(d, at)

Position ==
  \A d \in Devices :
    /\ Loading(d) => Stopped(d)
    /\ pc = Copying[d] => Stopped(d) /\ Plain(table[d][at])

\* what is written for the entry e, if all of it is
Made(e) ==
  IF Plain(e)
  THEN LET hs == IF e.name = "modem" THEN board.sci ELSE <<>> IN
       [Empty EXCEPT !.entry = e, !.off = SciOffset(hs), !.size = SciSize(hs)]
  ELSE [Empty EXCEPT !.entry = e]

Holds(d, i) ==
  \/ mem[d][i] = Empty
  \/ Wanted(d, i) /\ \E w \in BOOLEAN : mem[d][i] = [Made(table[d][i]) EXCEPT !.whole = w]

Memory ==
  /\ pc \in Starting => mem = [d \in Devices |-> <<>>]
  /\ \A d \in Devices : \A i \in DOMAIN mem[d] : i \in DOMAIN table[d] /\ Holds(d, i)

MemoryInv == TablesInv /\ Position /\ Memory

(***************************************************************************)
(* Third, the verification: kbc_table has the secure images this load came *)
(* past, and a device that runs has only images that were found whole.     *)
(***************************************************************************)
Passed(d, i) ==
  \/ pc = d /\ i < at
  \/ pc = Copying[d] /\ i <= at
  \/ d = "sp" /\ pc \in {"cp", "copy cp"}
  \/ pc = "verify"

Noted ==
  /\ pc \in Starting \cup {"idle", "unlock", "stop", "start"} => kbc = NoSlots
  /\ pc \in {"unlock", "stop"} => done = {}
  /\ \A s \in Filled(kbc) : s \in Slot(kbc[s].entry.out)
  /\ pc \in {"sp", "cp", "copy sp", "copy cp", "verify"} =>
       /\ \A e \in done : \E d \in Devices : \E i \in DOMAIN table[d] :
            e = table[d][i] /\ Wanted(d, i) /\ Plain(e) /\ "SECURE" \in e.flags
       /\ SlotsApart =>
            {kbc[s].entry : s \in Filled(kbc)} = {e \in done : Slot(e.out) # {}}
       /\ \A d \in type : \A i \in DOMAIN table[d] :
            Driven(d) /\ Verified(d, i) /\ Passed(d, i) => table[d][i] \in done

Intact(d) ==
  \A i \in DOMAIN table[d] :
    Verified(d, i) => i \in DOMAIN mem[d] /\ mem[d][i].entry = table[d][i] /\ mem[d][i].whole

Running ==
  /\ pc \in Starting => \A d \in Devices : running[d] # "on"
  /\ pc \in {"stop", "sp", "cp", "copy sp", "copy cp", "verify", "start"} =>
       \A d \in type : running[d] # "on"
  /\ \A d \in Devices : running[d] = "on" /\ SlotsApart => Intact(d)
  /\ pc = "start" /\ SlotsApart => \A d \in type : Driven(d) => Intact(d)

VerifyInv == MemoryInv /\ Noted /\ VerifiesThisLoad /\ Running
=============================================================================
