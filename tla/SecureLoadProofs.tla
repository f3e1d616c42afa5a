-------------------------- MODULE SecureLoadProofs --------------------------
(***************************************************************************)
(* Proofs about ImageTable and SecureLoad: for every board, every size of  *)
(* the driver's table and any number of loads and faults.                  *)
(***************************************************************************)
EXTENDS SecureLoad, Extrema, FiniteSetTheorems

\* What a sequence is made of.
LEMMA SeqIs ==
  ASSUME NEW S, NEW q \in Seq(S)
  PROVE  /\ Len(q) \in Nat /\ DOMAIN q = 1..Len(q) /\ q \in [1..Len(q) -> S]
         /\ \A i \in DOMAIN q : q[i] \in S /\ i \in Nat /\ i >= 1
OBVIOUS

\* Writing one element of a sequence leaves its length.
LEMMA SeqSet ==
  ASSUME NEW S, NEW q \in Seq(S), NEW k, NEW e \in S
  PROVE  [q EXCEPT ![k] = e] \in Seq(S) /\ DOMAIN [q EXCEPT ![k] = e] = DOMAIN q
<1>1. Len(q) \in Nat /\ DOMAIN q = 1..Len(q) /\ \A i \in 1..Len(q) : q[i] \in S
  OBVIOUS
<1>2. [q EXCEPT ![k] = e] = [i \in 1..Len(q) |-> IF i = k THEN e ELSE q[i]]
  BY <1>1
<1> DEFINE g == [i \in 1..Len(q) |-> IF i = k THEN e ELSE q[i]]
<1>3. g \in [1..Len(q) -> S]
  BY <1>1
<1> HIDE DEF g
<1>4. g \in Seq(S) /\ DOMAIN g = 1..Len(q)
  BY <1>1, <1>3
<1> QED BY <1>1, <1>2, <1>4 DEF g

LEMMA NoSeq == ASSUME NEW S PROVE <<>> \in Seq(S)
OBVIOUS

-----------------------------------------------------------------------------
(***************************************************************************)
(* The types of what the tables are made of.                               *)
(***************************************************************************)
LEMMA OriginTypes ==
  /\ Nowhere \in Origins /\ <<"default">> \in Origins
  /\ \A n \in Names : <<"node", n>> \in Origins /\ <<"head", n>> \in Origins
BY DEF Origins

LEMMA BlankIsEntry == Blank \in Entries
BY OriginTypes, NamesAssumption DEF Blank, Entry, Entries

LEMMA Reorigin ==
  ASSUME NEW e \in Entries, NEW f \in Origins
  PROVE  /\ [e EXCEPT !.from = f] \in Entries
         /\ [e EXCEPT !.from = f].name = e.name
         /\ [e EXCEPT !.from = f].out = e.out
         /\ [e EXCEPT !.from = f].flags = e.flags
         /\ [e EXCEPT !.from = f].from = f
BY DEF Entries

LEMMA CpBanksType == Len(CpBanks) = 10 /\ \A i \in 1..10 : CpBanks[i] \in Names
<1>1. Len(CpBanks) = 10
  BY DEF CpBanks
<1>2. /\ CpBanks[1] \in Names /\ CpBanks[2] \in Names /\ CpBanks[3] \in Names
      /\ CpBanks[4] \in Names /\ CpBanks[5] \in Names /\ CpBanks[6] \in Names
      /\ CpBanks[7] \in Names /\ CpBanks[8] \in Names /\ CpBanks[9] \in Names
      /\ CpBanks[10] \in Names
  BY NamesAssumption DEF CpBanks
<1>3. \A i \in 1..10 : i \in {1, 2, 3, 4, 5, 6, 7, 8, 9, 10}
  OBVIOUS
<1> QED BY <1>1, <1>2, <1>3

LEMMA CpDefaultType ==
  ASSUME NEW b, IsBoard(b), NEW k \in Names
  PROVE  CpDefault(b, k) \in Entries /\ CpDefault(b, k).from \in {Nowhere, <<"default">>}
<1>1. CpFlags(k) \in SUBSET Flags
  BY DEF CpFlags, Flags
<1>2. b.gdsp \in Names /\ "" \in Names
  BY NamesAssumption DEF IsBoard
<1> DEFINE n == IF k \notin Named(b) THEN "" ELSE IF k = "gdsp" THEN b.gdsp ELSE k
           f == IF k \in Sized(b) THEN <<"default">> ELSE Nowhere
<1>3. n \in Names /\ f \in Origins /\ f \in {Nowhere, <<"default">>}
  BY <1>2, OriginTypes
<1>4. CpDefault(b, k) = Entry(n, n, CpFlags(k), f)
  BY DEF CpDefault
<1> HIDE DEF n, f
<1> QED BY <1>1, <1>3, <1>4 DEF Entry, Entries

LEMMA SpDefaultsType ==
  /\ SpDefaults \in Seq(Entries)
  /\ \A i \in DOMAIN SpDefaults : SpDefaults[i].from = <<"default">>
<1> DEFINE a == Entry("cali_lib", "pm_sys", {"SECURE", "SP"}, <<"default">>)
           b == Entry("", "cali_lib", {"CLR", "SP"}, <<"default">>)
<1>1. a \in Entries /\ b \in Entries
  BY OriginTypes, NamesAssumption DEF Entry, Entries, Flags
<1>2. a.from = <<"default">> /\ b.from = <<"default">>
  BY DEF Entry
<1>3. SpDefaults = <<a, b>>
  BY DEF SpDefaults
<1> HIDE DEF a, b
<1> QED BY <1>1, <1>2, <1>3

\* The names that modem_correct_image looks for.
LEMMA NodesType ==
  ASSUME NEW b, IsBoard(b)
  PROVE  \E k \in Nat : Nodes(b) \in [1..k -> Names]
<1> DEFINE n == IF b.ld["sp"] = Missing THEN -1 ELSE Len(b.ld["sp"])
           k == NodeCount(b, "sp") + NodeCount(b, "cp")
<1>0. b.ld["sp"] \in Seq(Names) /\ b.ld["cp"] \in Seq(Names)
  BY DEF IsBoard, Devices
<1>1. /\ NodeCount(b, "sp") \in Nat /\ NodeCount(b, "cp") \in Nat /\ k \in Nat
      /\ NodeCount(b, "cp") <= Len(b.ld["cp"])
      /\ n \in Int /\ n >= -1 /\ n <= Len(b.ld["sp"])
  <2>1. Len(b.ld["sp"]) \in Nat /\ Len(b.ld["cp"]) \in Nat
    BY <1>0
  <2>2. /\ NodeCount(b, "sp") \in Nat /\ NodeCount(b, "cp") \in Nat
        /\ NodeCount(b, "cp") <= Len(b.ld["cp"])
    BY <2>1 DEF NodeCount
  <2>3. n \in Int /\ n >= -1 /\ n <= Len(b.ld["sp"])
    <3>1. CASE b.ld["sp"] = Missing
      <4>1. n = -1
        BY <3>1
      <4> HIDE DEF n
      <4> QED BY <2>1, <4>1
    <3>2. CASE b.ld["sp"] # Missing
      <4>1. n = Len(b.ld["sp"])
        BY <3>2
      <4> HIDE DEF n
      <4> QED BY <2>1, <4>1
    <3> QED BY <3>1, <3>2
  <2>4. k \in Nat
    BY <2>2
  <2> QED BY <2>2, <2>3, <2>4
<1>2. ASSUME NEW j \in 1..k
      PROVE  (IF j <= n THEN b.ld["sp"][j]
              ELSE IF j - n <= NodeCount(b, "cp") THEN b.ld["cp"][j - n] ELSE "") \in Names
  <2>1. CASE j <= n
    <3>1. j \in 1..Len(b.ld["sp"])
      BY <1>0, <1>1, <2>1
    <3> HIDE DEF n
    <3> QED BY <1>0, <2>1, <3>1
  <2>2. CASE ~(j <= n) /\ j - n <= NodeCount(b, "cp")
    <3>1. j - n \in 1..Len(b.ld["cp"])
      BY <1>0, <1>1, <2>2
    <3> HIDE DEF n
    <3> QED BY <1>0, <2>2, <3>1
  <2>3. CASE ~(j <= n) /\ ~(j - n <= NodeCount(b, "cp"))
    <3> HIDE DEF n
    <3> QED BY <2>3, NamesAssumption
  <2> QED BY <2>1, <2>2, <2>3
<1>3. Nodes(b) = [j \in 1..k |-> IF j <= n THEN b.ld["sp"][j]
              ELSE IF j - n <= NodeCount(b, "cp") THEN b.ld["cp"][j - n] ELSE ""]
  BY DEF Nodes
<1> HIDE DEF n, k
<1>4. Nodes(b) \in [1..k -> Names]
  BY <1>2, <1>3
<1> QED BY <1>1, <1>4

LEMMA CorrectedIs ==
  ASSUME NEW e \in Entries, NEW k \in Nat, NEW nodes \in [1..k -> Names]
  PROVE  /\ Corrected(e, nodes) \in Entries
         /\ Corrected(e, nodes).out = e.out
         /\ \/ Corrected(e, nodes) = e /\ \A j \in 1..k : ~PartOf(e.out, nodes[j])
            \/ \E j \in 1..k :
                 /\ PartOf(e.out, nodes[j])
                 /\ nodes[j] # "" => Corrected(e, nodes).from = <<"node", nodes[j]>>
<1> DEFINE hits == {j \in DOMAIN nodes : PartOf(e.out, nodes[j])}
           C(j) == [e EXCEPT !.from = IF nodes[j] = "" THEN Nowhere ELSE <<"node", nodes[j]>>]
<1>1. CASE hits = {}
  BY <1>1 DEF Corrected
<1>2. CASE hits # {}
  <2>1. hits \in SUBSET Nat
    OBVIOUS
  <2>2. Min(hits) \in hits
    <3> HIDE DEF hits
    <3> QED BY <1>2, <2>1, HasMin
  <2>3. PICK j \in 1..k : j = Min(hits) /\ PartOf(e.out, nodes[j])
    BY <2>2
  <2>4. Corrected(e, nodes) = C(Min(hits))
    BY <1>2 DEF Corrected
  <2> HIDE DEF hits
  <2>5. Corrected(e, nodes) = C(j)
    BY <2>3, <2>4
  <2>6. /\ C(j) \in Entries /\ C(j).out = e.out
        /\ nodes[j] # "" => C(j).from = <<"node", nodes[j]>>
    <3> DEFINE o == IF nodes[j] = "" THEN Nowhere ELSE <<"node", nodes[j]>>
    <3>1. nodes[j] \in Names
      OBVIOUS
    <3>2. o \in Origins /\ (nodes[j] # "" => o = <<"node", nodes[j]>>)
      BY <3>1, OriginTypes
    <3> DEFINE g == [e EXCEPT !.from = o]
    <3>3. C(j) = g
      OBVIOUS
    <3> HIDE DEF o, C
    <3>4. g \in Entries /\ g.out = e.out /\ g.from = o
      BY <3>2, Reorigin
    <3> HIDE DEF g
    <3> QED BY <3>2, <3>3, <3>4
  <2> HIDE DEF C
  <2> QED BY <2>3, <2>5, <2>6
<1> QED BY <1>1, <1>2

LEMMA ConvertedIs ==
  ASSUME NEW e \in Entries, NEW regions, NEW ok
  PROVE  /\ Converted(e, regions, ok) \in Entries
         /\ Converted(e, regions, ok).name = e.name
         /\ Converted(e, regions, ok).flags = e.flags
         /\ "MODEM" \in e.flags =>
              Converted(e, regions, ok).from \in {Nowhere, <<"head", e.name>>}
<1>0. e.name \in Names
  BY DEF Entries
<1>1. CASE e.name \in ToSet(regions)
  BY <1>0, <1>1, OriginTypes, Reorigin DEF Converted
<1>2. CASE e.name \notin ToSet(regions)
  BY <1>2, OriginTypes, Reorigin DEF Converted
<1> QED BY <1>1, <1>2

LEMMA ConstructType ==
  ASSUME NEW b, IsBoard(b) PROVE Construct(b.head) \in Seq(Names)
<1>1. b.head.regions \in Seq(Names) /\ <<>> \in Seq(Names)
  BY NoSeq DEF IsBoard
<1> QED BY <1>1 DEF Construct

-----------------------------------------------------------------------------
(***************************************************************************)
(* MemoryInv is inductive: the steps of init_modem_img_info.               *)
(***************************************************************************)
LEMMA Typed ==
  ASSUME TypeOK, NEW d \in Devices
  PROVE  /\ table \in [Devices -> Seq(Entries)] /\ table[d] \in Seq(Entries)
         /\ Len(table[d]) \in Nat /\ DOMAIN table[d] = 1..Len(table[d])
         /\ \A i \in DOMAIN table[d] : table[d][i] \in Entries /\ i \in Nat /\ i >= 1
<1>1. table \in [Devices -> Seq(Entries)]
  BY DEF TypeOK, TableTypeOK
<1>2. table[d] \in Seq(Entries)
  BY <1>1
<1> QED BY <1>1, <1>2, SeqIs

loadVars == <<type, at, mem, kbc, running, wake, state, done, seen, left>>

LEMMA DeviceNames ==
  \A d \in Devices :
    \/ d = "cp" /\ Copying[d] = "copy cp" /\ XmlOf[d] = "xml cp"
    \/ d = "sp" /\ Copying[d] = "copy sp" /\ XmlOf[d] = "xml sp"
<1>1. Copying["cp"] = "copy cp" /\ Copying["sp"] = "copy sp"
  BY DEF Copying
<1>2. XmlOf["cp"] = "xml cp" /\ XmlOf["sp"] = "xml sp"
  BY DEF XmlOf
<1> QED BY <1>1, <1>2 DEF Devices

LEMMA StartKept ==
  ASSUME MemoryInv, pc \in Starting, UNCHANGED <<board, loadVars>>,
         TableTypeOK', pc' \in Starting \cup {"idle"}, FromNodes', FromHead'
  PROVE  MemoryInv'
<1>1. mem = [d \in Devices |-> <<>>] /\ mem' = mem
  BY DEF MemoryInv, Memory, loadVars
<1>2. \A d \in Devices : mem'[d] = <<>> /\ DOMAIN mem'[d] = {}
  BY <1>1
<1>3. TypeOK'
  <2>1. pc' \in {"default", "nodes", "xml cp", "xml sp", "head", "idle"}
    BY DEF Starting
  <2>2. UNCHANGED <<type, at, mem, kbc, running, wake, state, done, seen, left>> /\ TypeOK
    BY DEF loadVars, MemoryInv, TablesInv
  <2> QED BY <1>2, <2>1, <2>2 DEF TypeOK
<1>4. TablesInv'
  BY <1>3 DEF MemoryInv, TablesInv
<1>5. Position'
  <2>1. \A d \in Devices : pc' # d /\ pc' # Copying[d]
    BY DeviceNames DEF Starting
  <2> QED BY <2>1 DEF Position, Loading
<1>6. Memory'
  BY <1>1, <1>2 DEF Memory
<1> QED BY <1>4, <1>5, <1>6 DEF MemoryInv

\* what a step of init_modem_img_info does not touch
LEMMA StartIs ==
  ASSUME MemoryInv
  PROVE  /\ TypeOK /\ TableTypeOK /\ IsBoard(board) /\ FromHead
         /\ pc \in Starting => img = <<>>
BY DEF MemoryInv, TablesInv, TypeOK, FromHead

LEMMA DefaultInitKeeps ==
  ASSUME MemoryInv, DefaultInit, UNCHANGED loadVars PROVE MemoryInv'
<1>0. TypeOK /\ IsBoard(board) /\ pc = "default" /\ img = <<>>
  BY StartIs DEF DefaultInit, Starting
<1>1. /\ pc' = "nodes" /\ drv' = board.proc
      /\ UNCHANGED <<board, ioctrl, xmlOk, pos, items, itemCnt, spilled, img>>
  BY DEF DefaultInit, xml
<1> DEFINE cp == [i \in 1..10 |-> IF board.proc["cp"] THEN CpDefault(board, CpBanks[i]) ELSE Blank]
           sp == IF board.proc["sp"] THEN SpDefaults ELSE <<Blank, Blank>>
<1>2. table' = [d \in Devices |-> IF d = "cp" THEN cp ELSE sp]
  BY CpBanksType DEF DefaultInit, Defaults, Devices
<1>3. cp \in Seq(Entries) /\ \A i \in DOMAIN cp : cp[i].from \in {Nowhere, <<"default">>}
  <2>1. \A i \in 1..10 : cp[i] \in Entries /\ cp[i].from \in {Nowhere, <<"default">>}
    BY <1>0, CpBanksType, CpDefaultType, BlankIsEntry DEF Blank, Entry
  <2> QED BY <2>1
<1>4. sp \in Seq(Entries) /\ \A i \in DOMAIN sp : sp[i].from \in {Nowhere, <<"default">>}
  <2>1. CASE board.proc["sp"]
    BY <2>1, SpDefaultsType
  <2>2. CASE ~board.proc["sp"]
    <3>1. sp = <<Blank, Blank>> /\ Blank \in Entries /\ Blank.from = Nowhere
      BY <2>2, BlankIsEntry DEF Blank, Entry
    <3> HIDE DEF sp
    <3> QED BY <3>1
  <2> QED BY <2>1, <2>2
<1> HIDE DEF cp, sp
<1>5. TableTypeOK'
  <2>1. table' \in [Devices -> Seq(Entries)]
    BY <1>2, <1>3, <1>4
  <2>2. drv' \in [Devices -> BOOLEAN]
    BY <1>0, <1>1 DEF IsBoard
  <2> QED BY <1>0, <1>1, <2>1, <2>2 DEF TypeOK, TableTypeOK
<1>6. FromNodes'
  BY <1>1 DEF FromNodes, DefaultInit
<1>7. FromHead'
  BY <1>0, <1>1 DEF FromHead, Starting
<1> QED BY <1>0, <1>1, <1>5, <1>6, <1>7, StartKept DEF Starting

LEMMA CorrectKeeps ==
  ASSUME MemoryInv, CorrectModemInfo, UNCHANGED loadVars PROVE MemoryInv'
<1>0. TypeOK /\ IsBoard(board) /\ pc = "nodes" /\ img = <<>>
  BY StartIs DEF CorrectModemInfo, Starting
<1>1. /\ pc' = "xml cp"
      /\ UNCHANGED <<board, drv, ioctrl, xmlOk, pos, items, itemCnt, spilled, img>>
      /\ table' = [d \in Devices |-> [i \in DOMAIN table[d] |->
                                        Corrected(table[d][i], Nodes(board))]]
  BY DEF CorrectModemInfo, xml
<1>2. PICK k \in Nat : Nodes(board) \in [1..k -> Names]
  BY <1>0, NodesType
<1>3. ASSUME NEW d \in Devices PROVE table'[d] \in Seq(Entries)
  <2>1. table[d] \in Seq(Entries)
    BY <1>0, Typed
  <2>2. \A i \in DOMAIN table[d] : Corrected(table[d][i], Nodes(board)) \in Entries
    <3>1. \A i \in DOMAIN table[d] : table[d][i] \in Entries
      BY <2>1
    <3> QED BY <1>2, <3>1, CorrectedIs
  <2>3. table'[d] = [i \in DOMAIN table[d] |-> Corrected(table[d][i], Nodes(board))]
    BY <1>1
  <2> QED BY <2>1, <2>2, <2>3
<1>4. table' \in [Devices -> Seq(Entries)]
  <2>1. table' = [d \in Devices |-> table'[d]]
    BY <1>1
  <2> QED BY <1>3, <2>1
<1>5. TableTypeOK'
  BY <1>0, <1>1, <1>4 DEF TypeOK, TableTypeOK
<1>6. FromNodes' /\ FromHead'
  BY <1>0, <1>1 DEF FromNodes, FromHead, Starting
<1> QED BY <1>0, <1>1, <1>5, <1>6, StartKept DEF Starting

LEMMA TagType ==
  ASSUME TypeOK, IsBoard(board), NEW d \in Devices, More(d)
  PROVE  /\ pos + 1 \in Nat /\ pc = XmlOf[d]
         /\ Tag(d).tag = "cnt" => Tag(d).n \in 0..100
         /\ Tag(d).tag = "partition" => Tag(d).entry \in Entries
<1>1. board.doc[d] \in Seq(Tags) /\ pos \in Nat
  BY DEF IsBoard, TypeOK, TableTypeOK
<1>2. pos + 1 \in 1..Len(board.doc[d])
  BY <1>1 DEF More
<1>3. Tag(d) \in Tags
  BY <1>1, <1>2 DEF Tag
<1>4. pos + 1 \in Nat
  BY <1>1
<1> QED BY <1>3, <1>4 DEF Tags, More

LEMMA XmlPc ==
  ASSUME NEW d \in Devices, pc = XmlOf[d]
  PROVE  pc \in {"xml cp", "xml sp"} /\ pc \in Starting
BY DeviceNames DEF Starting

LEMMA PartionCntKeeps ==
  ASSUME MemoryInv, NEW d \in Devices, PartionCnt(d), UNCHANGED loadVars PROVE MemoryInv'
<1>0. TypeOK /\ IsBoard(board) /\ More(d) /\ pc \in {"xml cp", "xml sp"} /\ img = <<>>
  BY StartIs, XmlPc DEF PartionCnt, More
<1>1. UNCHANGED <<board, pc, table, drv, ioctrl, xmlOk, spilled, img>> /\ pos' = pos + 1
  BY DEF PartionCnt
<1>2. pos' \in Nat /\ Tag(d).n \in 0..100
  BY <1>0, <1>1, TagType DEF PartionCnt
<1>3. items' \in Seq(Entries)
  <2>1. [j \in 1..Tag(d).n |-> Blank] \in Seq(Entries)
    <3>1. Tag(d).n \in Nat
      BY <1>2
    <3> QED BY <3>1, BlankIsEntry
  <2> QED BY <1>0, <2>1 DEF PartionCnt, TypeOK, TableTypeOK
<1>4. itemCnt' \in Nat
  BY <1>0 DEF PartionCnt, TypeOK, TableTypeOK
<1>5. TableTypeOK'
  BY <1>0, <1>1, <1>2, <1>3, <1>4 DEF TypeOK, TableTypeOK
<1>6. FromNodes' /\ FromHead'
  BY <1>0, <1>1 DEF FromNodes, FromHead, Starting
<1> QED BY <1>0, <1>1, <1>5, <1>6, StartKept DEF Starting

LEMMA PartitionKeeps ==
  ASSUME MemoryInv, NEW d \in Devices, Partition(d), UNCHANGED loadVars PROVE MemoryInv'
<1>0. TypeOK /\ IsBoard(board) /\ More(d) /\ pc \in {"xml cp", "xml sp"} /\ img = <<>>
  BY StartIs, XmlPc DEF Partition, More
<1>1. UNCHANGED <<board, pc, table, drv, ioctrl, xmlOk, img>> /\ pos' = pos + 1
  BY DEF Partition
<1>2. pos' \in Nat /\ Tag(d).entry \in Entries
  BY <1>0, <1>1, TagType DEF Partition
<1>3. items' \in Seq(Entries) /\ itemCnt' \in Nat
  <2>1. items \in Seq(Entries) /\ itemCnt \in Nat
    BY <1>0 DEF TypeOK, TableTypeOK
  <2>2. [items EXCEPT ![itemCnt + 1] = Tag(d).entry] \in Seq(Entries)
    BY <1>2, <2>1, SeqSet
  <2>3. itemCnt' \in {itemCnt, itemCnt + 1}
    BY DEF Partition
  <2>4. items' \in {items, [items EXCEPT ![itemCnt + 1] = Tag(d).entry]}
    BY DEF Partition
  <2> QED BY <2>1, <2>2, <2>3, <2>4
<1>4. spilled' \in BOOLEAN
  <2>1. spilled \in BOOLEAN
    BY <1>0 DEF TypeOK, TableTypeOK
  <2>2. spilled' = spilled \/ spilled' = TRUE
    BY DEF Partition
  <2> QED BY <2>1, <2>2, Zenon
<1>5. TableTypeOK'
  BY <1>0, <1>1, <1>2, <1>3, <1>4 DEF TypeOK, TableTypeOK
<1>6. FromNodes' /\ FromHead'
  BY <1>0, <1>1 DEF FromNodes, FromHead, Starting
<1> QED BY <1>0, <1>1, <1>5, <1>6, StartKept DEF Starting

LEMMA XmlToLoadInfoKeeps ==
  ASSUME MemoryInv, NEW d \in Devices, XmlToLoadInfo(d), UNCHANGED loadVars PROVE MemoryInv'
<1>0. TypeOK /\ IsBoard(board) /\ pc \in {"xml cp", "xml sp"} /\ img = <<>>
  BY StartIs, XmlPc DEF XmlToLoadInfo
<1>1. UNCHANGED <<board, itemCnt, spilled, img>> /\ pos' = 0 /\ items' = <<>>
      /\ pc' \in {"xml sp", "head"}
  BY DEF XmlToLoadInfo
<1>2. table' \in [Devices -> Seq(Entries)]
  <2>1. items \in Seq(Entries) /\ table \in [Devices -> Seq(Entries)] /\ DevPath(d) \in Names
    BY <1>0, NamesAssumption DEF TypeOK, TableTypeOK, DevPath
  <2> DEFINE new == [i \in DOMAIN items |->
                  IF board.io[d] THEN [items[i] EXCEPT !.out = DevPath(d)] ELSE items[i]]
  <2>2. \A i \in DOMAIN items : items[i] \in Entries
    BY <2>1
  <2>3. \A i \in DOMAIN items : new[i] \in Entries
    BY <2>1, <2>2 DEF Entries
  <2>4. new \in Seq(Entries)
    <3>1. Len(items) \in Nat /\ DOMAIN items = 1..Len(items)
      BY <2>1
    <3>2. new \in [1..Len(items) -> Entries]
      BY <2>3, <3>1
    <3> HIDE DEF new
    <3> QED BY <3>1, <3>2
  <2>5. table' = table \/ table' = [table EXCEPT ![d] = new]
    BY DEF XmlToLoadInfo
  <2> HIDE DEF new
  <2> QED BY <2>1, <2>4, <2>5
<1>3. {drv, ioctrl, xmlOk}' \subseteq [Devices -> BOOLEAN]
  <2>1. {drv, ioctrl, xmlOk} \subseteq [Devices -> BOOLEAN] /\ board.io[d] \in BOOLEAN
    BY <1>0 DEF TypeOK, TableTypeOK, IsBoard
  <2>2. (drv[d] \/ board.dst[d]) \in BOOLEAN
    BY Zenon
  <2>3. drv' \in [Devices -> BOOLEAN]
    BY <2>1, <2>2 DEF XmlToLoadInfo
  <2>4. ioctrl' \in [Devices -> BOOLEAN]
    BY <2>1 DEF XmlToLoadInfo
  <2>5. xmlOk' \in [Devices -> BOOLEAN]
    BY <2>1 DEF XmlToLoadInfo
  <2> QED BY <2>3, <2>4, <2>5
<1>4. TableTypeOK'
  <2>1. pos' \in Nat /\ items' \in Seq(Entries)
    BY <1>1, NoSeq
  <2>2. itemCnt \in Nat /\ spilled \in BOOLEAN /\ img \in Seq(Names)
    BY <1>0 DEF TypeOK, TableTypeOK
  <2> QED BY <1>1, <1>2, <1>3, <2>1, <2>2 DEF TableTypeOK
<1>5. FromNodes' /\ FromHead'
  BY <1>0, <1>1 DEF FromNodes, FromHead, Starting
<1> QED BY <1>0, <1>1, <1>4, <1>5, StartKept DEF Starting

LEMMA HeadCorrectKeeps ==
  ASSUME MemoryInv, HeadCorrect, UNCHANGED loadVars PROVE MemoryInv'
<1>0. TypeOK /\ IsBoard(board) /\ pc = "head" /\ img = <<>>
  BY StartIs DEF HeadCorrect, Starting
<1>1. /\ pc' = "idle"
      /\ UNCHANGED <<board, drv, ioctrl, xmlOk, pos, items, itemCnt, spilled>>
      /\ img' = IF HeadFound(board, table["cp"]) THEN Construct(board.head) ELSE <<>>
  BY <1>0 DEF HeadCorrect, xml
<1> DEFINE t == table["cp"]
           new == [i \in DOMAIN t |-> Converted(t[i], img', xmlOk["cp"])]
<1>2. t \in Seq(Entries) /\ table \in [Devices -> Seq(Entries)]
  BY <1>0, Typed DEF Devices
<1>3. /\ new \in Seq(Entries) /\ DOMAIN new = DOMAIN t
      /\ \A i \in DOMAIN t :
           /\ new[i].name = t[i].name /\ new[i].flags = t[i].flags
           /\ "MODEM" \in t[i].flags => new[i].from \in {Nowhere, <<"head", t[i].name>>}
  <2>1. \A i \in DOMAIN t : t[i] \in Entries
    BY <1>2
  <2>2. \A i \in DOMAIN t :
           /\ new[i] \in Entries
           /\ new[i].name = t[i].name /\ new[i].flags = t[i].flags
           /\ "MODEM" \in t[i].flags => new[i].from \in {Nowhere, <<"head", t[i].name>>}
    BY <2>1, ConvertedIs
  <2>3. Len(t) \in Nat /\ DOMAIN t = 1..Len(t) /\ DOMAIN new = DOMAIN t
    BY <1>2
  <2>4. new \in [1..Len(t) -> Entries]
    BY <2>2, <2>3
  <2>5. new \in Seq(Entries)
    <3> HIDE DEF new, t
    <3> QED BY <2>3, <2>4
  <2> QED BY <2>2, <2>3, <2>5
<1>4. table' = IF img' = <<>> THEN table ELSE [table EXCEPT !["cp"] = new]
  BY DEF HeadCorrect
<1> HIDE DEF new
<1>5. table' \in [Devices -> Seq(Entries)] /\ table'["cp"] \in {t, new}
      /\ (img' # <<>> => table'["cp"] = new)
  BY <1>2, <1>3, <1>4 DEF Devices
<1>6. TableTypeOK'
  <2>1. img' \in Seq(Names)
    BY <1>0, <1>1, ConstructType, NoSeq
  <2> QED BY <1>0, <1>1, <1>5, <2>1 DEF TypeOK, TableTypeOK
<1>7. FromHead'
  <2>1. HeadFound(board, table'["cp"]) <=> HeadFound(board, t)
    <3>1. DOMAIN table'["cp"] = DOMAIN t /\ \A i \in DOMAIN t : table'["cp"][i].name = t[i].name
      BY <1>3, <1>5
    <3> HIDE DEF t
    <3> QED BY <3>1 DEF HeadFound
  <2>2. ASSUME img' # <<>>, NEW i \in DOMAIN table'["cp"], "MODEM" \in table'["cp"][i].flags
        PROVE  table'["cp"][i].from \in {Nowhere, <<"head", table'["cp"][i].name>>}
    BY <1>3, <1>5, <2>2
  <2>3. pc' \notin Starting
    BY <1>1 DEF Starting
  <2>4. img' = IF HeadFound(board', table'["cp"]) THEN Construct(board'.head) ELSE <<>>
    BY <1>1, <2>1
  <2> QED BY <2>2, <2>3, <2>4 DEF FromHead
<1>8. FromNodes'
  BY <1>1 DEF FromNodes
<1> QED BY <1>0, <1>1, <1>6, <1>7, <1>8, StartKept DEF Starting

LEMMA StartupKeeps == ASSUME MemoryInv, Startup PROVE MemoryInv'
<1>1. InitModemImgInfo /\ UNCHANGED loadVars
  BY DEF Startup, loadVars
<1> QED BY <1>1, DefaultInitKeeps, CorrectKeeps, PartionCntKeeps, PartitionKeeps,
        XmlToLoadInfoKeeps, HeadCorrectKeeps DEF InitModemImgInfo

-----------------------------------------------------------------------------
(***************************************************************************)
(* What a load makes of an entry.                                          *)
(***************************************************************************)
\* The first and the last header of an image that count: get_modem_img_info.
LEMMA SciIs ==
  ASSUME NEW hs \in Seq([bin: BOOLEAN, last: BOOLEAN]), hs # <<>>
  PROVE  /\ SciEnd(hs) \in DOMAIN hs
         /\ \A k \in 1..SciEnd(hs) - 1 : ~hs[k].last
         /\ (\E j \in DOMAIN hs : hs[j].last) => hs[SciEnd(hs)].last
         /\ SciBins(hs) # {} => Max(SciBins(hs)) \in SciBins(hs)
         /\ SciBins(hs) \subseteq Nat
<1>1. Len(hs) \in Nat /\ DOMAIN hs = 1..Len(hs) /\ Len(hs) \in DOMAIN hs
  <2>1. Len(hs) \in Nat /\ DOMAIN hs = 1..Len(hs) /\ Len(hs) # 0
    OBVIOUS
  <2> QED BY <2>1
<1> DEFINE S == {i \in DOMAIN hs : hs[i].last} \cup {Len(hs)}
<1>2. S \in SUBSET Nat /\ S # {} /\ S \subseteq DOMAIN hs
  BY <1>1
<1>3. Min(S) \in S /\ \A k \in S : Min(S) <= k
  <2> HIDE DEF S
  <2> QED BY <1>2, HasMin
<1>4. SciEnd(hs) = Min(S)
  BY DEF SciEnd
<1>5. SciEnd(hs) \in S /\ SciEnd(hs) \in 1..Len(hs) /\ \A k \in S : SciEnd(hs) <= k
  <2> HIDE DEF S
  <2> QED BY <1>1, <1>2, <1>3, <1>4
<1>6. ASSUME NEW k \in 1..SciEnd(hs) - 1 PROVE ~hs[k].last
  <2>1. k \in DOMAIN hs /\ ~(SciEnd(hs) <= k)
    BY <1>1, <1>5
  <2> QED BY <1>5, <2>1
<1>7. ASSUME NEW j \in DOMAIN hs, hs[j].last PROVE hs[SciEnd(hs)].last
  <2>1. CASE hs[SciEnd(hs)].last
    BY <2>1
  <2>2. CASE ~hs[SciEnd(hs)].last
    <3>1. SciEnd(hs) = Len(hs)
      BY <1>5, <2>2
    <3>2. SciEnd(hs) <= j
      BY <1>5, <1>7
    <3>3. j = SciEnd(hs)
      BY <1>1, <1>5, <3>1, <3>2
    <3> QED BY <1>7, <3>3
  <2> QED BY <2>1, <2>2
<1>8. /\ SciBins(hs) \in SUBSET (0..Len(hs))
      /\ SciBins(hs) \subseteq Nat
  BY <1>1, <1>5 DEF SciBins
<1>9. SciBins(hs) # {} => Max(SciBins(hs)) \in SciBins(hs)
  BY <1>1, <1>8, HasMax
<1> QED BY <1>1, <1>5, <1>6, <1>7, <1>8, <1>9

LEMMA SciTypes ==
  ASSUME NEW hs \in Seq([bin: BOOLEAN, last: BOOLEAN])
  PROVE  SciOffset(hs) \in Seq(Nat) /\ SciSize(hs) \in Seq(Nat)
<1>1. CASE hs = <<>>
  BY <1>1, NoSeq DEF SciOffset, SciSize
<1>2. CASE hs # <<>> /\ SciBins(hs) = {}
  BY <1>2, NoSeq DEF SciOffset, SciSize
<1>3. CASE hs # <<>> /\ SciBins(hs) # {}
  <2>1. Max(SciBins(hs)) \in Nat
    BY <1>3, SciIs
  <2>2. <<Max(SciBins(hs))>> \in Seq(Nat)
    BY <2>1
  <2> QED BY <1>3, <2>2, NoSeq DEF SciOffset, SciSize
<1> QED BY <1>1, <1>2, <1>3

\* what MemoryInv says of the present state, in pieces
LEMMA MemoryIs ==
  ASSUME MemoryInv
  PROVE  /\ TypeOK /\ TableTypeOK /\ IsBoard(board) /\ TablesInv /\ Position /\ Memory
         /\ board.sci \in Seq([bin: BOOLEAN, last: BOOLEAN])
BY DEF MemoryInv, TablesInv, TypeOK, TableTypeOK, IsBoard

LEMMA WholeSet ==
  ASSUME NEW m \in Regions, NEW w \in BOOLEAN
  PROVE  LET r == [m EXCEPT !.whole = w] IN
         /\ r \in Regions /\ r.entry = m.entry /\ r.off = m.off /\ r.size = m.size
         /\ r.whole = w
BY DEF Regions

LEMMA EmptyIs == /\ Empty \in Regions /\ Empty.entry = Blank /\ Empty.whole = FALSE
                 /\ [Empty EXCEPT !.whole = FALSE] = Empty
<1>1. Blank \in Entries /\ <<>> \in Seq(Nat)
  BY BlankIsEntry, NoSeq
<1>2. Empty \in Regions /\ Empty.entry = Blank /\ Empty.whole = FALSE
  BY <1>1 DEF Empty, Regions
<1>3. \A m \in Regions : m.whole = FALSE => [m EXCEPT !.whole = FALSE] = m
  BY DEF Regions
<1> QED BY <1>2, <1>3

LEMMA MadeIs ==
  ASSUME MemoryInv, NEW e \in Entries
  PROVE  LET hs == IF e.name = "modem" THEN board.sci ELSE <<>> IN
         /\ Made(e) \in Regions /\ Made(e).entry = e /\ ~Made(e).whole
         /\ Plain(e) => Made(e).off = SciOffset(hs) /\ Made(e).size = SciSize(hs)
<1> DEFINE hs == IF e.name = "modem" THEN board.sci ELSE <<>>
<1>1. SciOffset(hs) \in Seq(Nat) /\ SciSize(hs) \in Seq(Nat)
  <2>1. hs \in Seq([bin: BOOLEAN, last: BOOLEAN])
    BY MemoryIs, NoSeq
  <2> HIDE DEF hs
  <2> QED BY <2>1, SciTypes
<1>2. Made(e) = IF Plain(e)
          THEN [Empty EXCEPT !.entry = e, !.off = SciOffset(hs), !.size = SciSize(hs)]
          ELSE [Empty EXCEPT !.entry = e]
    BY DEF Made
<1> HIDE DEF hs
<1>3. CASE Plain(e)
  <2> DEFINE r == [Empty EXCEPT !.entry = e, !.off = SciOffset(hs), !.size = SciSize(hs)]
  <2>1. /\ r \in Regions /\ r.entry = e /\ r.off = SciOffset(hs) /\ r.size = SciSize(hs)
        /\ r.whole = Empty.whole
    BY <1>1, EmptyIs DEF Regions
  <2>2. Made(e) = r
    BY <1>2, <1>3
  <2> HIDE DEF r
  <2> QED BY <1>3, <2>1, <2>2, EmptyIs DEF hs
<1>4. CASE ~Plain(e)
  <2> DEFINE r == [Empty EXCEPT !.entry = e]
  <2>1. r \in Regions /\ r.entry = e /\ r.whole = Empty.whole
    BY EmptyIs DEF Regions
  <2>2. Made(e) = r
    BY <1>2, <1>4
  <2> HIDE DEF r
  <2> QED BY <1>4, <2>1, <2>2, EmptyIs
<1> QED BY <1>3, <1>4

-----------------------------------------------------------------------------
(***************************************************************************)
(* MemoryInv is inductive: the steps of load_modem_img.                    *)
(***************************************************************************)
\* load_img_from_table stops at the first entry it wants, if any
LEMMA FirstIs ==
  ASSUME TypeOK, NEW d \in Devices, NEW i \in Nat, i >= 1
  PROVE  /\ First(d, i) \in Nat
         /\ First(d, i) <= Len(table[d]) =>
              /\ First(d, i) >= i /\ First(d, i) \in DOMAIN table[d]
              /\ d \in type /\ Driven(d) /\ Wanted(d, First(d, i))
         /\ \A j \in DOMAIN table[d] :
              j >= i /\ j < First(d, i) => ~(d \in type /\ Driven(d) /\ Wanted(d, j))
<1> DEFINE n == Len(table[d])
           T == {j \in i..n : d \in type /\ Driven(d) /\ Wanted(d, j)}
           S == T \cup {n + 1}
<1>1. n \in Nat /\ DOMAIN table[d] = 1..n
  BY Typed
<1>2. S \in SUBSET Nat /\ S # {}
  <2> HIDE DEF n
  <2> QED BY <1>1
<1>3. Min(S) \in S /\ \A y \in S : Min(S) <= y
  <2> HIDE DEF S
  <2> QED BY <1>2, HasMin
<1>4. First(d, i) = Min(S)
  BY DEF First
<1>5. First(d, i) \in S /\ \A y \in S : First(d, i) <= y
  <2> HIDE DEF S
  <2> QED BY <1>3, <1>4
<1>6. \A j \in T : /\ j \in 1..n /\ j >= i
                   /\ d \in type /\ Driven(d) /\ Wanted(d, j)
  <2> HIDE DEF n
  <2> QED BY <1>1
<1>7. \A j \in 1..n : j >= i /\ d \in type /\ Driven(d) /\ Wanted(d, j) => j \in T
  <2> HIDE DEF n
  <2> QED BY <1>1
<1>8. First(d, i) \in T \/ First(d, i) = n + 1
  BY <1>5
<1> HIDE DEF T, n
<1>9. First(d, i) \in Nat
  BY <1>2, <1>5
<1>10. First(d, i) <= n => First(d, i) \in T
  BY <1>1, <1>8
<1>11. ASSUME NEW j \in 1..n, j >= i, j < First(d, i)
       PROVE  ~(d \in type /\ Driven(d) /\ Wanted(d, j))
  <2>1. j \notin T
    BY <1>1, <1>5, <1>9, <1>11
  <2> QED BY <1>7, <1>11, <2>1
<1> QED BY <1>1, <1>6, <1>9, <1>10, <1>11 DEF n

LoadPcs == {"idle", "unlock", "stop", "sp", "cp", "copy sp", "copy cp", "verify", "start", "hang"}

\* the pcs that the devices name
LEMMA DevicePcs ==
  ASSUME NEW d \in Devices
  PROVE  /\ d \in LoadPcs /\ Copying[d] \in LoadPcs
         /\ \A x \in LoadPcs : x \notin Starting
         /\ \A c \in Devices : d # Copying[c] /\ (Copying[d] = Copying[c] => c = d)
BY DeviceNames DEF LoadPcs, Starting

LEMMA TablesKept ==
  ASSUME MemoryInv, UNCHANGED tables, pc \in LoadPcs, pc' \in LoadPcs
  PROVE  /\ TableTypeOK' /\ IsBoard(board') /\ FromNodes' /\ FromHead'
         /\ UNCHANGED <<board, table, drv, ioctrl, img>>
<1>1. UNCHANGED <<board, table, drv, ioctrl, xmlOk, pos, items, itemCnt, spilled, img>>
  BY DEF tables, xml
<1>2. pc \notin Starting /\ pc' \notin Starting /\ pc # "nodes" /\ pc' # "nodes"
  BY DEF LoadPcs, Starting
<1>3. TableTypeOK' /\ IsBoard(board')
  BY <1>1, MemoryIs DEF TableTypeOK
<1>4. FromNodes'
  BY <1>2 DEF FromNodes
<1>5. FromHead'
  BY <1>1, <1>2 DEF MemoryInv, TablesInv, FromHead
<1> QED BY <1>1, <1>3, <1>4, <1>5

LEMMA MemoryKept ==
  ASSUME MemoryInv, UNCHANGED <<tables, mem>>, pc \in LoadPcs, pc' \in LoadPcs
  PROVE  Memory'
<1>1. UNCHANGED <<board, table, img>> /\ mem' = mem
  BY DEF tables
<1>2. pc' \notin Starting
  BY DEF LoadPcs, Starting
<1>3. ASSUME NEW d \in Devices, NEW i \in DOMAIN mem[d] PROVE i \in DOMAIN table[d] /\ Holds(d, i)'
  <2>1. i \in DOMAIN table[d] /\ Holds(d, i)
    BY <1>3 DEF MemoryInv, Memory
  <2>2. Wanted(d, i)' <=> Wanted(d, i)
    BY <1>1 DEF Wanted
  <2>3. Made(table[d][i])' = Made(table[d][i])
    BY <1>1 DEF Made, Plain
  <2> QED BY <1>1, <2>1, <2>2, <2>3 DEF Holds
<1> QED BY <1>1, <1>2, <1>3 DEF Memory

\* Between the tables nothing is being copied.
LEMMA PositionFree ==
  ASSUME NEW x \in LoadPcs, \A d \in Devices : x # d /\ x # Copying[d], pc' = x
  PROVE  Position'
BY DEF Position, Loading

LEMMA PositionAt ==
  ASSUME TypeOK, UNCHANGED <<tables, type>>, NEW d \in Devices, pc' = d,
         NEW i \in Nat, i >= 1, at' = First(d, i)
  PROVE  Position' /\ at' \in Nat
<1>1. UNCHANGED <<table, drv, ioctrl, type>>
  BY DEF tables
<1>2. /\ at' \in Nat
      /\ at' <= Len(table[d]) =>
           at' \in DOMAIN table[d] /\ d \in type /\ Driven(d) /\ Wanted(d, at')
  BY FirstIs
<1>3. ASSUME NEW c \in Devices, Loading(c)' PROVE Stopped(c)'
  <2>1. c = d /\ at' <= Len(table[d])
    BY <1>1, <1>3 DEF Loading
  <2> QED BY <1>1, <1>2, <2>1 DEF Stopped, Driven, Wanted
<1>4. \A c \in Devices : pc' # Copying[c]
  BY DevicePcs
<1> QED BY <1>2, <1>3, <1>4 DEF Position

LEMMA SpendKeeps ==
  ASSUME left \in [Events -> Nat], NEW w \in Events, Spend(w) \/ UNCHANGED left
  PROVE  left' \in [Events -> Nat]
<1>1. CASE UNCHANGED left
  BY <1>1
<1>2. CASE Spend(w)
  <2>1. left[w] - 1 \in Nat /\ left' = [left EXCEPT ![w] = left[w] - 1]
    BY <1>2 DEF Spend
  <2> QED BY <2>1
<1> QED BY <1>1, <1>2

LEMMA UnlockKeeps == ASSUME MemoryInv, UnlockDdr PROVE MemoryInv'
<1>0. TypeOK /\ TablesInv
  BY MemoryIs
<1>1. /\ pc = "unlock" /\ pc' \in {"stop", "hang"}
      /\ UNCHANGED <<tables, type, at, mem, kbc, wake, state, done, seen>>
      /\ pc \in LoadPcs /\ pc' \in LoadPcs
  BY DEF UnlockDdr, LoadPcs
<1>2. TablesInv'
  <2>1. running' \in [Devices -> {"off", "boot", "on"}]
    <3>1. running' \in {running, [d \in Devices |-> IF d \in type THEN "off" ELSE running[d]]}
      BY DEF UnlockDdr
    <3> QED BY <1>0, <3>1 DEF TypeOK
  <2>2. left' \in [Events -> Nat]
    <3>1. Spend("refuse") \/ UNCHANGED left
      BY DEF UnlockDdr
    <3> QED BY <1>0, <3>1, SpendKeeps DEF TypeOK, Events
  <2>3. TypeOK'
    BY <1>0, <1>1, <2>1, <2>2, TablesKept DEF TypeOK
  <2> QED BY <1>1, <2>3, TablesKept DEF TablesInv
<1>3. Position'
  BY <1>1, PositionFree, DeviceNames DEF LoadPcs
<1>4. Memory'
  BY <1>1, MemoryKept
<1> QED BY <1>2, <1>3, <1>4 DEF MemoryInv

LEMMA StopKeeps == ASSUME MemoryInv, Stop PROVE MemoryInv'
<1>0. TypeOK /\ TablesInv
  BY MemoryIs
<1>1. /\ pc = "stop" /\ pc' = "sp" /\ at' = First("sp", 1) /\ state' = "LOADING"
      /\ UNCHANGED <<tables, type, mem, kbc, wake, done, seen, left>>
      /\ pc \in LoadPcs /\ pc' \in LoadPcs /\ "sp" \in Devices
  BY DEF Stop, LoadPcs, Devices
<1>2. Position' /\ at' \in Nat
  BY <1>0, <1>1, PositionAt
<1>3. TablesInv'
  <2>1. running' \in [Devices -> {"off", "boot", "on"}]
    BY <1>0 DEF TypeOK, Stop
  <2>2. TypeOK'
    BY <1>0, <1>1, <1>2, <2>1, TablesKept DEF TypeOK
  <2> QED BY <1>1, <2>2, TablesKept DEF TablesInv
<1>4. Memory'
  BY <1>1, MemoryKept
<1> QED BY <1>2, <1>3, <1>4 DEF MemoryInv

LEMMA TableLoadedKeeps ==
  ASSUME MemoryInv, NEW d \in Devices, TableLoaded(d) PROVE MemoryInv'
<1>0. TypeOK /\ TablesInv
  BY MemoryIs
<1>1. /\ pc = d /\ pc' = IF d = "sp" THEN "cp" ELSE "verify"
      /\ at' = IF d = "sp" THEN First("cp", 1) ELSE at
      /\ UNCHANGED <<tables, type, mem, kbc, running, wake, state, done, seen, left>>
      /\ "cp" \in Devices
  BY DEF TableLoaded, Devices
<1>2. pc \in LoadPcs /\ pc' \in LoadPcs
  BY <1>1, DevicePcs DEF LoadPcs
<1>3. Position' /\ at' \in Nat
  <2>1. CASE d = "sp"
    BY <1>0, <1>1, <2>1, PositionAt
  <2>2. CASE d # "sp"
    <3>1. Position'
      BY <1>1, <2>2, PositionFree, DeviceNames DEF LoadPcs
    <3> QED BY <1>0, <1>1, <2>2, <3>1 DEF TypeOK
  <2> QED BY <2>1, <2>2
<1>4. TablesInv'
  <2>1. TypeOK'
    BY <1>0, <1>1, <1>2, <1>3, TablesKept DEF TypeOK, LoadPcs
  <2> QED BY <1>1, <1>2, <2>1, TablesKept DEF TablesInv
<1>5. Memory'
  BY <1>1, <1>2, MemoryKept
<1> QED BY <1>3, <1>4, <1>5 DEF MemoryInv

LEMMA SlotsType ==
  ASSUME kbc \in [Slots -> [entry: Entries, footer: BOOLEAN]], NEW e \in Entries,
         NEW read \in BOOLEAN
  PROVE  Described(e, read) \in [Slots -> [entry: Entries, footer: BOOLEAN]]
<1>1. ASSUME NEW s \in Slots
      PROVE  [entry |-> e, footer |-> read \/ kbc[s].footer] \in [entry: Entries, footer: BOOLEAN]
  <2>1. (read \/ kbc[s].footer) \in BOOLEAN
    BY Zenon
  <2> QED BY <2>1
<1> QED BY <1>1 DEF Described

LEMMA NoSlotsType == NoSlots \in [Slots -> [entry: Entries, footer: BOOLEAN]]
BY BlankIsEntry DEF NoSlots, Unfilled

LEMMA FillVerifyTableKeeps ==
  ASSUME MemoryInv, NEW d \in Devices, FillVerifyTable(d) PROVE MemoryInv'
<1>0. TypeOK /\ TablesInv /\ Position
  BY MemoryIs
<1>1. /\ pc = d /\ pc' = Copying[d] /\ Loading(d)
      /\ UNCHANGED <<tables, type, at, mem, running, wake, state, seen>>
      /\ ~Flagged(d, {"CMDLINE", "NV", "CODE"})
  BY DEF FillVerifyTable, Loading
<1>2. pc \in LoadPcs /\ pc' \in LoadPcs
  BY <1>1, DevicePcs
<1>3. Stopped(d) /\ Plain(table[d][at]) /\ table[d][at] \in Entries
  BY <1>0, <1>1, Typed DEF Position, Stopped, Flagged, Plain
<1>4. Position'
  <2>1. UNCHANGED <<table, drv, ioctrl, type, at>>
    BY <1>1 DEF tables
  <2>2. \A c \in Devices : ~Loading(c)' /\ (pc' = Copying[c] => c = d)
    BY <1>1, DevicePcs DEF Loading
  <2>3. Stopped(d)' /\ Plain(table[d][at])'
    BY <1>3, <2>1 DEF Stopped, Driven, Wanted, Plain
  <2> QED BY <2>2, <2>3 DEF Position
<1>5. TablesInv'
  <2>1. /\ done' \in SUBSET Entries
        /\ kbc' \in [Slots -> [entry: Entries, footer: BOOLEAN]]
        /\ (Spend("footer") \/ UNCHANGED left)
    <3>1. CASE Flagged(d, {"SECURE"})
      BY <1>0, <1>3, <3>1, SlotsType DEF FillVerifyTable, TypeOK
    <3>2. CASE ~Flagged(d, {"SECURE"})
      BY <1>0, <3>2 DEF FillVerifyTable, TypeOK
    <3> QED BY <3>1, <3>2
  <2>2. left' \in [Events -> Nat]
    BY <1>0, <2>1, SpendKeeps DEF TypeOK, Events
  <2>3. TypeOK'
    BY <1>0, <1>1, <1>2, <2>1, <2>2, TablesKept DEF TypeOK, LoadPcs
  <2> QED BY <1>1, <1>2, <2>3, TablesKept DEF TablesInv
<1>6. Memory'
  BY <1>1, <1>2, MemoryKept
<1> QED BY <1>4, <1>5, <1>6 DEF MemoryInv

LEMMA VerdictKeeps == ASSUME MemoryInv, VerifyAll PROVE MemoryInv'
<1>0. TypeOK /\ TablesInv
  BY MemoryIs
<1>1. /\ pc = "verify" /\ pc' \in {"start", "hang"}
      /\ UNCHANGED <<tables, type, at, mem, running, wake, state, done>>
      /\ pc \in LoadPcs /\ pc' \in LoadPcs
      /\ kbc' \in {kbc, NoSlots} /\ seen' \in {seen, kbc} /\ (Spend("refuse") \/ UNCHANGED left)
  BY DEF VerifyAll, Refuses, LoadPcs
<1>2. TablesInv'
  <2>1. left' \in [Events -> Nat]
    BY <1>0, <1>1, SpendKeeps DEF TypeOK, Events
  <2>2. TypeOK'
    BY <1>0, <1>1, <2>1, NoSlotsType, TablesKept DEF TypeOK
  <2> QED BY <1>1, <2>2, TablesKept DEF TablesInv
<1>3. Position'
  BY <1>1, PositionFree, DeviceNames DEF LoadPcs
<1>4. Memory'
  BY <1>1, MemoryKept
<1> QED BY <1>2, <1>3, <1>4 DEF MemoryInv

LEMMA StartLoadKeeps == ASSUME MemoryInv, Start PROVE MemoryInv'
<1>0. TypeOK /\ TablesInv
  BY MemoryIs
<1>1. /\ pc = "start" /\ pc' = "idle" /\ state' = "BOOTING" /\ wake' = FALSE
      /\ UNCHANGED <<tables, type, at, mem, kbc, done, seen, left>>
      /\ pc \in LoadPcs /\ pc' \in LoadPcs
  BY DEF Start, LoadPcs
<1>2. TablesInv'
  <2>1. running' \in [Devices -> {"off", "boot", "on"}]
    BY <1>0 DEF TypeOK, Start
  <2>2. TypeOK'
    BY <1>0, <1>1, <2>1, TablesKept DEF TypeOK
  <2> QED BY <1>1, <2>2, TablesKept DEF TablesInv
<1>3. Position'
  BY <1>1, PositionFree, DeviceNames DEF LoadPcs
<1>4. Memory'
  BY <1>1, MemoryKept
<1> QED BY <1>2, <1>3, <1>4 DEF MemoryInv

LEMMA WrittenKeeps ==
  ASSUME MemoryInv, NEW d \in Devices, UNCHANGED tables, pc \in LoadPcs, pc' \in LoadPcs,
         at \in DOMAIN table[d], Wanted(d, at), Written(d, Made(table[d][at]))
  PROVE  /\ mem' \in [Devices -> Seq(Regions)]
         /\ \A c \in Devices : mem'[c] # <<>> => DOMAIN mem'[c] = DOMAIN table'[c]
         /\ left' \in [Events -> Nat]
         /\ Memory'
<1>0. TypeOK /\ Memory
  BY MemoryIs
<1>1. UNCHANGED <<board, table, img>>
  BY DEF tables
<1>2. /\ mem \in [Devices -> Seq(Regions)]
      /\ \A c \in Devices : mem[c] # <<>> => DOMAIN mem[c] = DOMAIN table[c]
  BY <1>0 DEF TypeOK
<1> DEFINE m == Made(table[d][at])
           new(w) == [mem EXCEPT ![d] = [mem[d] EXCEPT ![at] = [m EXCEPT !.whole = w]]]
<1>3. /\ m \in Regions /\ [m EXCEPT !.whole = FALSE] = m
      /\ \A w \in BOOLEAN : [m EXCEPT !.whole = w] \in Regions
  <2>1. m \in Regions /\ ~m.whole
    BY <1>0, Typed, MadeIs
  <2> HIDE DEF m
  <2>2. m.whole = FALSE
    BY <2>1 DEF Regions
  <2>3. [m EXCEPT !.whole = FALSE] = m
    BY <2>1, <2>2 DEF Regions
  <2> QED BY <2>1, <2>3, WholeSet
<1>4. left' \in [Events -> Nat]
  <2>1. Spend("copy") \/ UNCHANGED left
    BY DEF Written
  <2> QED BY <1>0, <2>1, SpendKeeps DEF TypeOK, Events
<1> DEFINE lost(j) == [mem[d][j] EXCEPT !.whole = FALSE]
           over(j) == [mem EXCEPT ![d] = [mem[d] EXCEPT ![j] = lost(j)]]
<1>5. \/ mem' = mem \/ \E w \in BOOLEAN : mem' = new(w)
      \/ \E j \in DOMAIN mem[d] : mem' = over(j)
  <2>1. \/ mem' = [mem EXCEPT ![d][at] = [m EXCEPT !.whole = TRUE]]
        \/ mem' = mem
        \/ mem' = [mem EXCEPT ![d][at] = m]
        \/ Misplaced(d)
    BY DEF Written
  <2>2. mem' = mem \/ mem' = new(TRUE) \/ mem' = new(FALSE) \/ Misplaced(d)
    BY <1>3, <2>1
  <2>3. Misplaced(d) => \E j \in DOMAIN mem[d] : mem' = over(j)
    BY DEF Misplaced
  <2> QED BY <2>2, <2>3
<1>6. ASSUME NEW c \in Devices
      PROVE  /\ mem'[c] \in Seq(Regions) /\ DOMAIN mem'[c] = DOMAIN mem[c]
             /\ \A i \in DOMAIN mem[c] : \/ mem'[c][i] = mem[c][i]
                                         \/ mem'[c][i] = [mem[c][i] EXCEPT !.whole = FALSE]
                                         \/ /\ c = d /\ i = at
                                            /\ \E w \in BOOLEAN :
                                                 mem'[c][i] = [m EXCEPT !.whole = w]
  <2>1. CASE mem' = mem
    BY <1>2, <2>1
  <2>2. CASE \E w \in BOOLEAN : mem' = new(w)
    <3>1. PICK w \in BOOLEAN : mem' = new(w)
      BY <2>2
    <3> DEFINE x == [m EXCEPT !.whole = w]
               q == [mem[d] EXCEPT ![at] = x]
    <3>2. x \in Regions
      BY <1>3
    <3>3. mem' = [mem EXCEPT ![d] = q]
      BY <3>1
    <3> HIDE DEF x
    <3>4. q \in Seq(Regions) /\ DOMAIN q = DOMAIN mem[d]
      BY <1>2, <3>2, SeqSet
    <3>5. \A i \in DOMAIN mem[d] : q[i] = IF i = at THEN x ELSE mem[d][i]
      OBVIOUS
    <3>6. mem'[c] = IF c = d THEN q ELSE mem[c]
      BY <1>2, <3>3
    <3> HIDE DEF q
    <3>7. /\ mem'[c] \in Seq(Regions) /\ DOMAIN mem'[c] = DOMAIN mem[c]
          /\ \A i \in DOMAIN mem[c] : mem'[c][i] = mem[c][i] \/ (c = d /\ i = at /\ mem'[c][i] = x)
      BY <1>2, <3>4, <3>5, <3>6
    <3> QED BY <3>7 DEF x
  <2>3. CASE \E j \in DOMAIN mem[d] : mem' = over(j)
    <3>1. PICK j \in DOMAIN mem[d] : mem' = over(j)
      BY <2>3
    <3> DEFINE x == lost(j)
               q == [mem[d] EXCEPT ![j] = x]
    <3>2. x \in Regions
      <4>1. mem[d][j] \in Regions
        BY <1>2
      <4> QED BY <4>1, WholeSet
    <3>3. mem' = [mem EXCEPT ![d] = q]
      BY <3>1
    <3> HIDE DEF x
    <3>4. q \in Seq(Regions) /\ DOMAIN q = DOMAIN mem[d]
      BY <1>2, <3>2, SeqSet
    <3>5. \A i \in DOMAIN mem[d] : q[i] = IF i = j THEN x ELSE mem[d][i]
      OBVIOUS
    <3>6. mem'[c] = IF c = d THEN q ELSE mem[c]
      BY <1>2, <3>3
    <3> HIDE DEF q
    <3>7. /\ mem'[c] \in Seq(Regions) /\ DOMAIN mem'[c] = DOMAIN mem[c]
          /\ \A i \in DOMAIN mem[c] : mem'[c][i] = mem[c][i] \/ (c = d /\ i = j /\ mem'[c][i] = x)
      BY <1>2, <3>4, <3>5, <3>6
    <3> QED BY <3>7 DEF x
  <2> QED BY <1>5, <2>1, <2>2, <2>3
<1>7. mem' \in [Devices -> Seq(Regions)]
  <2>1. mem' = [c \in Devices |-> mem'[c]]
    BY <1>2, <1>5
  <2> QED BY <1>6, <2>1
<1>8. \A c \in Devices : mem'[c] # <<>> => DOMAIN mem'[c] = DOMAIN table'[c]
  <2>1. \A c \in Devices : mem[c] = <<>> => DOMAIN mem'[c] = {} /\ mem'[c] \in Seq(Regions)
    BY <1>6
  <2>2. \A q \in Seq(Regions) : DOMAIN q = {} => q = <<>>
    OBVIOUS
  <2>3. \A c \in Devices : mem[c] = <<>> => mem'[c] = <<>>
    BY <2>1, <2>2
  <2> QED BY <1>1, <1>2, <1>6, <2>3
<1>9. Memory'
  <2>1. pc' \notin Starting
    BY DevicePcs DEF LoadPcs, Starting
  <2>2. ASSUME NEW c \in Devices, NEW i \in DOMAIN mem'[c]
        PROVE  i \in DOMAIN table[c] /\ Holds(c, i)'
    <3>1. i \in DOMAIN mem[c] /\ i \in DOMAIN table[c] /\ Holds(c, i)
      BY <1>0, <1>6, <2>2 DEF Memory
    <3>2. Wanted(c, i)' <=> Wanted(c, i)
      BY <1>1 DEF Wanted
    <3>3. Made(table[c][i])' = Made(table[c][i])
      BY <1>1 DEF Made, Plain
    <3>4. CASE mem'[c][i] = mem[c][i]
      BY <1>1, <3>1, <3>2, <3>3, <3>4 DEF Holds
    <3>5. CASE c = d /\ i = at /\ \E w \in BOOLEAN : mem'[c][i] = [m EXCEPT !.whole = w]
      BY <1>1, <3>2, <3>3, <3>5 DEF Holds
    <3>6. CASE mem'[c][i] = [mem[c][i] EXCEPT !.whole = FALSE]
      <4>1. CASE mem[c][i] = Empty
        <5>1. mem'[c][i] = Empty
          BY <3>6, <4>1, EmptyIs
        <5> QED BY <3>1, <5>1 DEF Holds
      <4>2. CASE Wanted(c, i) /\ \E w \in BOOLEAN :
                                   mem[c][i] = [Made(table[c][i]) EXCEPT !.whole = w]
        <5>1. PICK w \in BOOLEAN : mem[c][i] = [Made(table[c][i]) EXCEPT !.whole = w]
          BY <4>2
        <5>2. Made(table[c][i]) \in Regions
          BY <1>0, <3>1, Typed, MadeIs
        <5>3. mem'[c][i] = [Made(table[c][i]) EXCEPT !.whole = FALSE]
          BY <3>6, <5>1, <5>2 DEF Regions
        <5>4. Wanted(c, i)' /\ table' = table
          BY <1>1, <3>2, <4>2
        <5>5. \E v \in BOOLEAN : mem'[c][i] = [Made(table[c][i])' EXCEPT !.whole = v]
          BY <3>3, <5>3
        <5> QED BY <3>1, <5>4, <5>5 DEF Holds
      <4> QED BY <3>1, <4>1, <4>2 DEF Holds
    <3> QED BY <1>6, <3>1, <3>4, <3>5, <3>6
  <2> QED BY <1>1, <2>1, <2>2 DEF Memory
<1> QED BY <1>4, <1>7, <1>8, <1>9

LEMMA LoadDataKeeps ==
  ASSUME MemoryInv, NEW d \in Devices, LoadData(d) PROVE MemoryInv'
<1>0. TypeOK /\ TablesInv /\ Position
  BY MemoryIs
<1>1. /\ pc = d /\ pc' = d /\ Loading(d) /\ at' = First(d, at + 1)
      /\ UNCHANGED <<tables, type, kbc, running, wake, state, done, seen>>
      /\ Flagged(d, {"CMDLINE", "NV", "CODE"})
  BY DEF LoadData, Loading
<1>2. pc \in LoadPcs /\ pc' \in LoadPcs
  BY <1>1, DevicePcs
<1>3. Stopped(d) /\ ~Plain(table[d][at]) /\ at \in Nat
  BY <1>0, <1>1 DEF Position, Flagged, Plain, TypeOK
<1>4. Written(d, Made(table[d][at]))
  <2>1. Made(table[d][at]) = [Empty EXCEPT !.entry = table[d][at]]
    BY <1>3 DEF Made
  <2> QED BY <2>1 DEF LoadData
<1>5. Position' /\ at' \in Nat
  <2>1. at + 1 \in Nat /\ at + 1 >= 1
    BY <1>3
  <2> QED BY <1>0, <1>1, <2>1, PositionAt
<1>6. /\ mem' \in [Devices -> Seq(Regions)] /\ left' \in [Events -> Nat] /\ Memory'
      /\ \A c \in Devices : mem'[c] # <<>> => DOMAIN mem'[c] = DOMAIN table'[c]
  BY <1>1, <1>2, <1>3, <1>4, WrittenKeeps DEF Stopped
<1>7. TablesInv'
  <2>1. TypeOK'
    BY <1>0, <1>1, <1>2, <1>5, <1>6, TablesKept DEF TypeOK, LoadPcs
  <2> QED BY <1>1, <1>2, <2>1, TablesKept DEF TablesInv
<1> QED BY <1>5, <1>6, <1>7 DEF MemoryInv

LEMMA LoadImageKeeps ==
  ASSUME MemoryInv, NEW d \in Devices, LoadImage(d) PROVE MemoryInv'
<1>0. TypeOK /\ TablesInv /\ Position
  BY MemoryIs
<1>1. /\ pc = Copying[d] /\ pc' = d /\ at' = First(d, at + 1)
      /\ UNCHANGED <<tables, type, kbc, running, wake, state, done, seen>>
  BY DEF LoadImage
<1>2. pc \in LoadPcs /\ pc' \in LoadPcs
  BY <1>1, DevicePcs
<1>3. Stopped(d) /\ Plain(table[d][at]) /\ at \in Nat
  BY <1>0, <1>1 DEF Position, TypeOK
<1>4. Written(d, Made(table[d][at]))
  BY <1>3 DEF LoadImage, Made
<1>5. Position' /\ at' \in Nat
  <2>1. at + 1 \in Nat /\ at + 1 >= 1
    BY <1>3
  <2> QED BY <1>0, <1>1, <2>1, PositionAt
<1>6. /\ mem' \in [Devices -> Seq(Regions)] /\ left' \in [Events -> Nat] /\ Memory'
      /\ \A c \in Devices : mem'[c] # <<>> => DOMAIN mem'[c] = DOMAIN table'[c]
  BY <1>1, <1>2, <1>3, <1>4, WrittenKeeps DEF Stopped
<1>7. TablesInv'
  <2>1. TypeOK'
    BY <1>0, <1>1, <1>2, <1>5, <1>6, TablesKept DEF TypeOK, LoadPcs
  <2> QED BY <1>1, <1>2, <2>1, TablesKept DEF TablesInv
<1> QED BY <1>5, <1>6, <1>7 DEF MemoryInv

LEMMA BeginKeeps ==
  ASSUME MemoryInv, NEW ty \in SUBSET Devices, Begin(ty) PROVE MemoryInv'
<1>0. TypeOK /\ TablesInv /\ Memory
  BY MemoryIs
<1>1. /\ pc = "idle" /\ pc' = "unlock" /\ type' = ty /\ wake' = TRUE /\ done' = {}
      /\ UNCHANGED <<tables, at, kbc, running, state, seen>> /\ Spend("load")
      /\ mem' = [d \in Devices |->
           IF mem[d] = <<>> THEN [i \in DOMAIN table[d] |-> Empty] ELSE mem[d]]
      /\ pc \in LoadPcs /\ pc' \in LoadPcs
  BY DEF Begin, LoadPcs
<1>2. UNCHANGED <<board, table, img>>
  BY <1>1 DEF tables
<1>3. ASSUME NEW d \in Devices
      PROVE  mem'[d] \in Seq(Regions) /\ DOMAIN mem'[d] = DOMAIN table[d]
  <2> DEFINE new == [i \in DOMAIN table[d] |-> Empty]
  <2>1. new \in Seq(Regions) /\ DOMAIN new = DOMAIN table[d]
    <3>1. Len(table[d]) \in Nat /\ DOMAIN table[d] = 1..Len(table[d])
      BY <1>0, Typed
    <3> QED BY <3>1, EmptyIs
  <2>2. mem[d] \in Seq(Regions) /\ (mem[d] # <<>> => DOMAIN mem[d] = DOMAIN table[d])
    BY <1>0 DEF TypeOK
  <2>3. mem'[d] = IF mem[d] = <<>> THEN new ELSE mem[d]
    BY <1>1
  <2> HIDE DEF new
  <2> QED BY <2>1, <2>2, <2>3
<1>4. mem' \in [Devices -> Seq(Regions)]
  <2>1. mem' = [d \in Devices |-> mem'[d]]
    BY <1>1
  <2> QED BY <1>3, <2>1
<1>5. TablesInv'
  <2>1. left' \in [Events -> Nat]
    BY <1>0, <1>1, SpendKeeps DEF TypeOK, Events
  <2>2. TypeOK'
    BY <1>0, <1>1, <1>2, <1>3, <1>4, <2>1, TablesKept DEF TypeOK
  <2> QED BY <1>1, <2>2, TablesKept DEF TablesInv
<1>6. Position'
  BY <1>1, PositionFree, DeviceNames DEF LoadPcs
<1>7. Memory'
  <2>1. pc' \notin Starting
    BY <1>1 DEF Starting
  <2>2. ASSUME NEW d \in Devices, NEW i \in DOMAIN mem'[d]
        PROVE  i \in DOMAIN table[d] /\ Holds(d, i)'
    <3>1. i \in DOMAIN table[d]
      BY <1>3, <2>2
    <3>2. CASE mem[d] = <<>>
      <4>1. mem'[d][i] = Empty
        BY <1>1, <3>1, <3>2
      <4> QED BY <3>1, <4>1 DEF Holds
    <3>3. CASE mem[d] # <<>>
      <4>1. mem'[d] = mem[d] /\ Holds(d, i)
        BY <1>0, <1>1, <2>2, <3>3 DEF Memory
      <4>2. Wanted(d, i)' <=> Wanted(d, i)
        BY <1>2 DEF Wanted
      <4>3. Made(table[d][i])' = Made(table[d][i])
        BY <1>2 DEF Made, Plain
      <4> QED BY <1>2, <3>1, <4>1, <4>2, <4>3 DEF Holds
    <3> QED BY <3>2, <3>3
  <2> QED BY <1>2, <2>1, <2>2 DEF Memory
<1> QED BY <1>5, <1>6, <1>7 DEF MemoryInv

LEMMA InitMemory == Init => MemoryInv
<1> SUFFICES ASSUME Init PROVE MemoryInv
  OBVIOUS
<1> USE DEF Init, TableInit
<1>1. \A d \in Devices : table[d] = <<>> /\ mem[d] = <<>> /\ DOMAIN mem[d] = {}
  OBVIOUS
<1>2. TypeOK
  <2>1. TableTypeOK
    <3>1. <<>> \in Seq(Entries) /\ <<>> \in Seq(Names)
      BY NoSeq
    <3>2. table \in [Devices -> Seq(Entries)]
      BY <3>1
    <3>3. img \in Seq(Names)
      BY <3>1
    <3>4. {drv, ioctrl, xmlOk} \subseteq [Devices -> BOOLEAN]
      OBVIOUS
    <3>5. pos \in Nat /\ itemCnt \in Nat /\ spilled \in BOOLEAN /\ items \in Seq(Entries)
      BY <3>1
    <3> HIDE DEF Init, TableInit
    <3> QED BY <3>2, <3>3, <3>4, <3>5 DEF TableTypeOK
  <2>2. mem \in [Devices -> Seq(Regions)]
    BY NoSeq
  <2>3. running \in [Devices -> {"off", "boot", "on"}]
    OBVIOUS
  <2> QED BY <1>1, <2>1, <2>2, <2>3, NoSlotsType, BudgetAssumption DEF TypeOK
<1>3. IsBoard(board)
  BY BoardsAssumption
<1>4. FromNodes /\ FromHead
  BY DEF FromNodes, FromHead, Starting
<1>5. Position
  <2>1. \A d \in Devices : pc # d /\ pc # Copying[d]
    BY DeviceNames
  <2> QED BY <2>1 DEF Position, Loading
<1>6. Memory
  BY <1>1 DEF Memory
<1> QED BY <1>2, <1>3, <1>4, <1>5, <1>6 DEF MemoryInv, TablesInv

LEMMA StutterMemory == ASSUME MemoryInv, UNCHANGED vars PROVE MemoryInv'
<1>1. UNCHANGED <<board, pc, table, drv, ioctrl, xmlOk, pos, items, itemCnt, spilled, img,
                  type, at, mem, kbc, running, wake, state, done, seen, left>>
  BY DEF vars, tableVars, xml
<1>2. TablesInv'
  BY <1>1 DEF MemoryInv, TablesInv, TypeOK, TableTypeOK, FromNodes, FromHead
<1>3. Position'
  BY <1>1 DEF MemoryInv, Position, Loading, Stopped, Driven, Wanted, Plain
<1>4. Memory'
  <2>1. \A d \in Devices : \A i \in DOMAIN mem[d] : Holds(d, i)' <=> Holds(d, i)
    BY <1>1 DEF Holds, Wanted, Made, Plain
  <2> QED BY <1>1, <2>1 DEF MemoryInv, Memory
<1> QED BY <1>2, <1>3, <1>4 DEF MemoryInv

LEMMA NextMemory == ASSUME MemoryInv, [Next]_vars PROVE MemoryInv'
<1>1. CASE Startup
  BY <1>1, StartupKeeps
<1>2. CASE BootModem \/ ReloadModem
  <2>1. PICK ty \in SUBSET Devices : Begin(ty)
    BY <1>2 DEF BootModem, ReloadModem, Devices
  <2> QED BY <2>1, BeginKeeps
<1>3. CASE LoadModemImg
  BY <1>3, UnlockKeeps, StopKeeps, VerdictKeeps, StartLoadKeeps, TableLoadedKeeps, LoadDataKeeps,
     FillVerifyTableKeeps, LoadImageKeeps DEF LoadModemImg
<1>4. CASE UNCHANGED vars
  BY <1>4, StutterMemory
<1> QED BY <1>1, <1>2, <1>3, <1>4 DEF Next

LEMMA MemoryAlways == Spec => []MemoryInv
<1>1. Init => MemoryInv
  BY InitMemory
<1>2. MemoryInv /\ [Next]_vars => MemoryInv'
  BY NextMemory
<1> QED BY <1>1, <1>2, PTL DEF Spec

-----------------------------------------------------------------------------
(***************************************************************************)
(* Every variable keeps its type through init_modem_img_info and any       *)
(* number of loads; each region array is as long as its table.             *)
(***************************************************************************)
THEOREM TypeCorrect == Spec => []TypeOK
<1>1. MemoryInv => TypeOK
  BY MemoryIs
<1> QED BY <1>1, MemoryAlways, PTL

\* A region that holds something holds what a load makes of its entry.
LEMMA RegionIs ==
  ASSUME MemoryInv, NEW d \in Devices, NEW i \in DOMAIN mem[d]
  PROVE  /\ pc \notin Starting /\ i \in DOMAIN table[d] /\ table[d][i] \in Entries
         /\ \/ mem[d][i] = Empty
            \/ /\ Wanted(d, i)
               /\ LET m == Made(table[d][i]) IN
                  /\ mem[d][i].entry = table[d][i]
                  /\ mem[d][i].off = m.off /\ mem[d][i].size = m.size
<1>1. i \in DOMAIN table[d] /\ Holds(d, i) /\ table[d][i] \in Entries
  BY MemoryIs, Typed DEF Memory
<1>2. pc \notin Starting
  <2>1. CASE pc \in Starting
    BY <2>1, MemoryIs DEF Memory
  <2> QED BY <2>1
<1> DEFINE m == Made(table[d][i])
<1>3. m \in Regions /\ m.entry = table[d][i]
  BY <1>1, MadeIs
<1>4. mem[d][i] = Empty \/ (Wanted(d, i) /\ \E w \in BOOLEAN : mem[d][i] = [m EXCEPT !.whole = w])
  BY <1>1 DEF Holds
<1> HIDE DEF m
<1>5. \A w \in BOOLEAN : LET r == [m EXCEPT !.whole = w] IN
        r.entry = m.entry /\ r.off = m.off /\ r.size = m.size
  BY <1>3, WholeSet
<1>6. mem[d][i] = Empty \/ (Wanted(d, i) /\ mem[d][i].entry = m.entry /\ mem[d][i].off = m.off
                            /\ mem[d][i].size = m.size)
  BY <1>4, <1>5
<1> QED BY <1>1, <1>2, <1>3, <1>6 DEF m

LEMMA BlankFields == Empty.entry.flags = {} /\ Empty.entry.name = "" /\ Empty.entry = Blank
BY DEF Empty, Blank, Entry

(***************************************************************************)
(* The modem head decides: with regions in it, nothing of the modem is     *)
(* ever loaded to an address from a default, a node or a document.         *)
(***************************************************************************)
THEOREM HeadHasTheLastWord == Spec => []HeadDecides
<1>1. ASSUME MemoryInv PROVE HeadDecides
  <2> SUFFICES ASSUME img # <<>>, NEW i \in DOMAIN mem["cp"],
                      "MODEM" \in mem["cp"][i].entry.flags
               PROVE  mem["cp"][i].entry.from = <<"head", mem["cp"][i].entry.name>>
    BY DEF HeadDecides
  <2>1. "cp" \in Devices
    BY DEF Devices
  <2>2. pc \notin Starting /\ i \in DOMAIN table["cp"] /\ Wanted("cp", i)
        /\ mem["cp"][i].entry = table["cp"][i]
    BY <1>1, <2>1, RegionIs, BlankFields
  <2>3. table["cp"][i].from \in {Nowhere, <<"head", table["cp"][i].name>>}
    BY <1>1, <2>2, StartIs DEF FromHead, Starting
  <2> QED BY <2>2, <2>3 DEF Wanted
<1> QED BY <1>1, MemoryAlways, PTL

(***************************************************************************)
(* The block that get_modem_img_info finds is a modem block, and one that  *)
(* comes before the last header.                                           *)
(***************************************************************************)
THEOREM ModemBlockIsCopied == Spec => []CopiesTheModem
<1>1. ASSUME MemoryInv PROVE CopiesTheModem
  <2> DEFINE hs == board.sci
             inImage(j) == \A k \in 1..j - 1 : ~hs[k].last
  <2> SUFFICES ASSUME NEW i \in DOMAIN mem["cp"], mem["cp"][i].entry.name = "modem",
                      Plain(mem["cp"][i].entry),
                      \E j \in DOMAIN hs : hs[j].last,
                      \E j \in DOMAIN hs : inImage(j) /\ hs[j].bin
               PROVE  \E j \in DOMAIN hs : /\ inImage(j) /\ hs[j].bin
                                           /\ mem["cp"][i].off = <<j>>
                                           /\ mem["cp"][i].size = <<j>>
    BY DEF CopiesTheModem
  <2> DEFINE e == table["cp"][i]
             n == SciEnd(hs)
             j == Max(SciBins(hs))
  <2>1. "cp" \in Devices /\ hs \in Seq([bin: BOOLEAN, last: BOOLEAN])
    BY <1>1, MemoryIs DEF Devices
  <2>2. /\ e \in Entries /\ mem["cp"][i].entry = e
        /\ mem["cp"][i].off = Made(e).off /\ mem["cp"][i].size = Made(e).size
    BY <1>1, <2>1, RegionIs, BlankFields
  <2>3. mem["cp"][i].off = SciOffset(hs) /\ mem["cp"][i].size = SciSize(hs)
    BY <1>1, <2>2, MadeIs
  <2>4. hs # <<>> /\ Len(hs) \in Nat /\ DOMAIN hs = 1..Len(hs)
    <3>1. hs # <<>>
      OBVIOUS
    <3> HIDE DEF hs
    <3> QED BY <2>1, <3>1
  <2> HIDE DEF hs
  <2>5. /\ n \in DOMAIN hs /\ n \in Nat /\ hs[n].last
        /\ \A k \in 1..n - 1 : ~hs[k].last
        /\ SciBins(hs) # {} => j \in SciBins(hs)
    BY <2>1, <2>4, SciIs
  <2>6. SciBins(hs) # {}
    <3>1. PICK b \in DOMAIN hs : inImage(b) /\ hs[b].bin
      OBVIOUS
    <3>2. ~(n < b)
      <4>1. CASE n < b
        <5>1. n \in 1..b - 1
          BY <2>4, <2>5, <4>1
        <5> QED BY <2>5, <3>1, <5>1
      <4> QED BY <4>1
    <3>3. b \in 1..n
      BY <2>4, <2>5, <3>2
    <3> QED BY <3>1, <3>3 DEF SciBins
  <2>7. j \in 1..n /\ hs[j].bin
    BY <2>5, <2>6 DEF SciBins
  <2>8. j \in DOMAIN hs /\ inImage(j)
    BY <2>4, <2>5, <2>7
  <2>9. SciOffset(hs) = <<j>> /\ SciSize(hs) = <<j>>
    BY <2>4, <2>5, <2>6 DEF SciOffset, SciSize
  <2> HIDE DEF j
  <2> QED BY <2>3, <2>7, <2>8, <2>9
<1> QED BY <1>1, MemoryAlways, PTL

\* the names in the ldinfo files that can be read
NodeNames(b) == UNION {ToSet(b.ld[d]) : d \in {c \in Devices : b.ld[c] # Missing}}

\* NodesDecide, of a table for a board
Decided(b, t) ==
  LET ns == NodeNames(b)
      outs == UNION {{t[d][i].out : i \in DOMAIN t[d]} : d \in Devices}
      apart == "" \notin ns /\ \A m \in ns \cup outs, n \in ns : PartOf(m, n) => m = n
  IN b.ld["sp"] # Missing /\ apart =>
       \A d \in Devices : \A i \in DOMAIN t[d] :
         LET e == t[d][i] IN
         IF e.out \in ns THEN e.from = <<"node", e.out>> ELSE e = Defaults(b)[d][i]

\* If the file of sp can be read, every node of both files is looked at.
LEMMA NodesAre ==
  ASSUME NEW b, IsBoard(b), b.ld["sp"] # Missing
  PROVE  \E k \in Nat : /\ Nodes(b) \in [1..k -> Names]
                        /\ \A x : x \in NodeNames(b) <=> \E j \in 1..k : Nodes(b)[j] = x
<1> DEFINE s == b.ld["sp"]
           c == b.ld["cp"]
           m == NodeCount(b, "cp")
           n == Len(s)
<1>1. s \in Seq(Names) /\ c \in Seq(Names)
  BY DEF IsBoard, Devices
<1>2. n \in Nat /\ DOMAIN s = 1..n /\ m \in Nat /\ m = (IF c = Missing THEN 0 ELSE Len(c))
      /\ NodeCount(b, "sp") = n
  <2>1. Len(c) \in Nat /\ n \in Nat /\ DOMAIN s = 1..n
    BY <1>1
  <2> QED BY <2>1 DEF NodeCount
<1>3. Nodes(b) = [j \in 1..n + m |-> IF j <= n THEN s[j] ELSE IF j - n <= m THEN c[j - n] ELSE ""]
  BY <1>2 DEF Nodes
<1>4. \A x : x \in NodeNames(b) <=> (\E j \in 1..n : s[j] = x) \/ (\E j \in 1..m : c[j] = x)
  <2>1. ToSet(s) = {s[j] : j \in 1..n}
    BY <1>2 DEF ToSet
  <2>2. c # Missing => ToSet(c) = {c[j] : j \in 1..m}
    <3>1. DOMAIN c = 1..Len(c)
      BY <1>1
    <3> QED BY <1>2, <3>1 DEF ToSet
  <2>3. c = Missing => 1..m = {}
    BY <1>2
  <2>4. \A x : x \in NodeNames(b) <=> x \in ToSet(s) \/ (c # Missing /\ x \in ToSet(c))
    BY DEF NodeNames, Devices
  <2> HIDE DEF s, c, m, n
  <2>5. \A x : x \in ToSet(s) <=> \E j \in 1..n : s[j] = x
    BY <2>1
  <2>6. \A x : (c # Missing /\ x \in ToSet(c)) <=> \E j \in 1..m : c[j] = x
    BY <2>2, <2>3
  <2> QED BY <2>4, <2>5, <2>6
<1>5. n + m \in Nat /\ Nodes(b) \in [1..n + m -> Names]
  <2>1. \A j \in 1..m : c[j] \in Names
    BY <1>1, <1>2
  <2>2. \A j \in 1..n : s[j] \in Names
    BY <1>1
  <2> HIDE DEF s, c, m, n
  <2>3. \A j \in 1..n + m : j \in 1..n \/ (~(j <= n) /\ j - n \in 1..m /\ j - n <= m)
    BY <1>2
  <2>4. n + m \in Nat
    BY <1>2
  <2> DEFINE x(j) == IF j <= n THEN s[j] ELSE IF j - n <= m THEN c[j - n] ELSE ""
  <2>5. ASSUME NEW j \in 1..n + m PROVE x(j) \in Names
    <3>1. CASE j <= n
      <4>1. j \in 1..n
        BY <1>2, <3>1
      <4> QED BY <2>2, <3>1, <4>1
    <3>2. CASE ~(j <= n)
      <4>1. j - n \in 1..m /\ j - n <= m
        BY <1>2, <3>2
      <4> QED BY <2>1, <3>2, <4>1
    <3> QED BY <3>1, <3>2
  <2>6. Nodes(b) = [j \in 1..n + m |-> x(j)]
    BY <1>3
  <2> HIDE DEF x
  <2> QED BY <2>4, <2>5, <2>6
<1> HIDE DEF s, c, m, n
<1>6. ASSUME NEW j \in 1..n + m
      PROVE  Nodes(b)[j] \in NodeNames(b)
  <2>1. CASE j <= n
    <3>1. j \in 1..n /\ Nodes(b)[j] = s[j]
      <4>1. j \in 1..n
        BY <1>2, <2>1
      <4> QED BY <1>3, <2>1, <4>1
    <3> QED BY <1>4, <3>1, Zenon
  <2>2. CASE ~(j <= n)
    <3>1. j - n \in 1..m
      BY <1>2, <2>2
    <3>2. Nodes(b)[j] = c[j - n]
      <4>1. j - n <= m
        BY <1>2, <3>1
      <4> QED BY <1>3, <2>2, <4>1
    <3> QED BY <1>4, <3>1, <3>2, Zenon
  <2> QED BY <2>1, <2>2
<1>7. ASSUME NEW x \in NodeNames(b)
      PROVE  \E j \in 1..n + m : Nodes(b)[j] = x
  <2>1. CASE \E j \in 1..n : s[j] = x
    <3>1. PICK j \in 1..n : s[j] = x
      BY <2>1
    <3>2. j \in 1..n + m /\ j <= n
      BY <1>2
    <3>3. Nodes(b)[j] = x
      BY <1>3, <3>1, <3>2
    <3> QED BY <3>2, <3>3
  <2>2. CASE \E j \in 1..m : c[j] = x
    <3>1. PICK j \in 1..m : c[j] = x
      BY <2>2
    <3>2. j + n \in 1..n + m /\ ~(j + n <= n) /\ (j + n) - n = j /\ j <= m
      BY <1>2
    <3>3. Nodes(b)[j + n] = x
      BY <1>3, <3>1, <3>2
    <3> QED BY <3>2, <3>3
  <2> QED BY <1>4, <2>1, <2>2
<1> QED BY <1>5, <1>6, <1>7

LEMMA CorrectDecides == ASSUME MemoryInv, CorrectModemInfo PROVE NodesDecide'
<1>0. TypeOK /\ IsBoard(board) /\ FromNodes /\ pc = "nodes"
  BY MemoryIs DEF CorrectModemInfo, TablesInv
<1>1. /\ board' = board
      /\ table' = [d \in Devices |-> [i \in DOMAIN table[d] |->
                                        Corrected(table[d][i], Nodes(board))]]
  BY DEF CorrectModemInfo
<1>2. SUFFICES ASSUME board.ld["sp"] # Missing PROVE Decided(board, table')
  <2>1. Decided(board', table') => NodesDecide'
    BY DEF NodesDecide, Decided, NodeNames
  <2>2. board.ld["sp"] = Missing => Decided(board, table')
    BY DEF Decided
  <2> QED BY <1>1, <2>1, <2>2
<1> DEFINE nodes == Nodes(board)
<1>3. PICK k \in Nat : /\ nodes \in [1..k -> Names]
                       /\ \A x : x \in NodeNames(board) <=> \E j \in 1..k : nodes[j] = x
  BY <1>0, <1>2, NodesAre, Zenon
<1> HIDE DEF nodes
<1>4. ASSUME NEW d \in Devices, NEW i \in DOMAIN table'[d]
      PROVE  LET f == table'[d][i] IN
             \/ f = Defaults(board)[d][i] /\ \A j \in 1..k : ~PartOf(f.out, nodes[j])
             \/ \E j \in 1..k : /\ PartOf(f.out, nodes[j])
                                /\ nodes[j] # "" => f.from = <<"node", nodes[j]>>
  <2> DEFINE e == table[d][i]
             f == table'[d][i]
  <2>1. i \in DOMAIN table[d] /\ f = Corrected(e, nodes)
    BY <1>1 DEF nodes
  <2>2. e \in Entries /\ e = Defaults(board)[d][i]
    BY <1>0, <2>1, Typed DEF FromNodes
  <2> HIDE DEF e, f
  <2>3. /\ f.out = e.out
        /\ \/ f = e /\ \A j \in 1..k : ~PartOf(e.out, nodes[j])
           \/ \E j \in 1..k : /\ PartOf(e.out, nodes[j])
                              /\ nodes[j] # "" => f.from = <<"node", nodes[j]>>
    BY <1>3, <2>1, <2>2, CorrectedIs
  <2>4. CASE f = e /\ \A j \in 1..k : ~PartOf(e.out, nodes[j])
    BY <2>2, <2>4 DEF f
  <2>5. CASE \E j \in 1..k : /\ PartOf(e.out, nodes[j])
                             /\ nodes[j] # "" => f.from = <<"node", nodes[j]>>
    BY <2>3, <2>5 DEF f
  <2> QED BY <2>3, <2>4, <2>5
<1> DEFINE ns == NodeNames(board)
           outs == UNION {{table'[d][i].out : i \in DOMAIN table'[d]} : d \in Devices}
<1>5. SUFFICES ASSUME "" \notin ns, \A m \in ns \cup outs, n \in ns : PartOf(m, n) => m = n,
                      NEW d \in Devices, NEW i \in DOMAIN table'[d]
               PROVE  LET e == table'[d][i] IN
                      IF e.out \in ns THEN e.from = <<"node", e.out>> ELSE e = Defaults(board)[d][i]
  BY DEF Decided
<1> DEFINE f == table'[d][i]
<1>6. f.out \in outs
  OBVIOUS
<1> HIDE DEF ns, outs, f
<1>7. CASE f = Defaults(board)[d][i] /\ \A j \in 1..k : ~PartOf(f.out, nodes[j])
  <2>1. f.out \notin ns
    BY <1>3, <1>7 DEF PartOf, ns
  <2> QED BY <1>7, <2>1 DEF f
<1>8. CASE \E j \in 1..k : /\ PartOf(f.out, nodes[j])
                           /\ nodes[j] # "" => f.from = <<"node", nodes[j]>>
  <2>1. PICK j \in 1..k : /\ PartOf(f.out, nodes[j])
                          /\ nodes[j] # "" => f.from = <<"node", nodes[j]>>
    BY <1>8
  <2>2. nodes[j] \in ns /\ nodes[j] # ""
    BY <1>3, <1>5 DEF ns
  <2>3. nodes[j] = f.out
    BY <1>5, <1>6, <2>1, <2>2
  <2> QED BY <2>1, <2>2, <2>3 DEF f
<1> QED BY <1>4, <1>7, <1>8 DEF f

LEMMA NextDecides == ASSUME MemoryInv, NodesDecide, [Next]_vars PROVE NodesDecide'
<1>1. CASE CorrectModemInfo
  BY <1>1, CorrectDecides
<1>2. CASE UNCHANGED <<board, pc, table, xmlOk>>
  <2>1. NodesDecide' <=> (pc' = "xml cp" /\ ~xmlOk'["cp"] => Decided(board', table'))
    BY DEF NodesDecide, Decided, NodeNames
  <2>2. NodesDecide <=> (pc = "xml cp" /\ ~xmlOk["cp"] => Decided(board, table))
    BY DEF NodesDecide, Decided, NodeNames
  <2> QED BY <1>2, <2>1, <2>2
<1>3. CASE pc' # "xml cp"
  BY <1>3 DEF NodesDecide
<1>4. ASSUME NEW d \in Devices, PartionCnt(d) \/ Partition(d)
      PROVE  UNCHANGED <<board, pc, table, xmlOk>>
  BY <1>4 DEF PartionCnt, Partition
<1>5. ASSUME NEW d \in Devices, XmlToLoadInfo(d) PROVE pc' # "xml cp"
  BY <1>5 DEF XmlToLoadInfo
<1>6. DefaultInit \/ HeadCorrect => pc' # "xml cp"
  BY DEF DefaultInit, HeadCorrect
<1>7. CASE Startup
  BY <1>1, <1>2, <1>3, <1>4, <1>5, <1>6, <1>7 DEF Startup, InitModemImgInfo
<1>8. CASE BootModem \/ ReloadModem
  <2>1. pc' = "unlock"
    BY <1>8 DEF BootModem, ReloadModem, Begin
  <2> QED BY <1>3, <2>1
<1>9. CASE LoadModemImg
  <2>1. \A d \in Devices : d # "xml cp" /\ Copying[d] # "xml cp"
    BY DeviceNames
  <2>2. ASSUME NEW d \in Devices,
               TableLoaded(d) \/ LoadData(d) \/ FillVerifyTable(d) \/ LoadImage(d)
        PROVE  pc' # "xml cp"
    <3>1. pc' \in {"cp", "verify", d, Copying[d]}
      BY <2>2 DEF TableLoaded, LoadData, Loading, FillVerifyTable, LoadImage
    <3> QED BY <2>1, <3>1
  <2>3. UnlockDdr \/ Stop \/ VerifyAll \/ Start => pc' # "xml cp"
    BY DEF UnlockDdr, Stop, VerifyAll, Start
  <2> QED BY <1>3, <1>9, <2>2, <2>3 DEF LoadModemImg
<1>10. CASE UNCHANGED vars
  BY <1>2, <1>10 DEF vars, tableVars
<1> QED BY <1>7, <1>8, <1>9, <1>10 DEF Next

(***************************************************************************)
(* The old driver's nodes decide over the defaults: an image whose name    *)
(* one of the two ldinfo files gives a range has that range.               *)
(***************************************************************************)
THEOREM NodesCorrectTheDefaults == Spec => []NodesDecide
<1>1. Init => NodesDecide
  BY DEF Init, TableInit, NodesDecide
<1>2. MemoryInv /\ NodesDecide /\ [Next]_vars => NodesDecide'
  BY NextDecides
<1> QED BY <1>1, <1>2, MemoryAlways, PTL DEF Spec

-----------------------------------------------------------------------------
(***************************************************************************)
(* XmlInv is inductive.  Counting the partitions of a document:            *)
(***************************************************************************)
LEMMA CountedTo ==
  ASSUME NEW doc, NEW k \in Nat
  PROVE  /\ IsFiniteSet(ListedTo(doc, k))
         /\ Cardinality(ListedTo(doc, k)) \in Nat
         /\ \A j \in 0..k : /\ ListedTo(doc, j) \subseteq ListedTo(doc, k)
                            /\ Cardinality(ListedTo(doc, j)) <= Cardinality(ListedTo(doc, k))
<1>1. IsFiniteSet(1..k)
  BY FS_Interval
<1>2. ListedTo(doc, k) \in SUBSET (1..k)
  BY DEF ListedTo
<1>3. IsFiniteSet(ListedTo(doc, k))
  BY <1>1, <1>2, FS_Subset
<1>4. ASSUME NEW j \in 0..k PROVE ListedTo(doc, j) \in SUBSET ListedTo(doc, k)
  BY DEF ListedTo
<1>5. ASSUME NEW j \in 0..k
      PROVE  Cardinality(ListedTo(doc, j)) <= Cardinality(ListedTo(doc, k))
  BY <1>3, <1>4, FS_Subset
<1> QED BY <1>3, <1>4, <1>5, FS_CardinalityType

\* one tag more
LEMMA CountedNext ==
  ASSUME NEW doc, NEW k \in Nat, Min(Counts(doc)) \in Nat
  PROVE  IF k + 1 > Min(Counts(doc)) /\ doc[k + 1].tag = "partition"
         THEN /\ ListedTo(doc, k + 1) = ListedTo(doc, k) \cup {k + 1}
              /\ Cardinality(ListedTo(doc, k + 1)) = Cardinality(ListedTo(doc, k)) + 1
         ELSE ListedTo(doc, k + 1) = ListedTo(doc, k)
<1>1. 1..(k + 1) = (1..k) \cup {k + 1} /\ k + 1 \notin 1..k
  OBVIOUS
<1>2. CASE k + 1 > Min(Counts(doc)) /\ doc[k + 1].tag = "partition"
  <2>1. ListedTo(doc, k + 1) = ListedTo(doc, k) \cup {k + 1} /\ k + 1 \notin ListedTo(doc, k)
    BY <1>1, <1>2 DEF ListedTo
  <2>2. IsFiniteSet(ListedTo(doc, k))
    BY CountedTo
  <2>3. Cardinality(ListedTo(doc, k) \cup {k + 1}) = Cardinality(ListedTo(doc, k)) + 1
    BY <2>1, <2>2, FS_AddElement
  <2> QED BY <1>2, <2>1, <2>3
<1>3. CASE ~(k + 1 > Min(Counts(doc)) /\ doc[k + 1].tag = "partition")
  BY <1>1, <1>3 DEF ListedTo
<1> QED BY <1>2, <1>3

LEMMA NoneListed ==
  ASSUME NEW doc, NEW k \in Nat, Min(Counts(doc)) = k
  PROVE  ListedTo(doc, k) = {} /\ Cardinality(ListedTo(doc, k)) = 0
<1>1. ListedTo(doc, k) = {}
  BY DEF ListedTo
<1> QED BY <1>1, FS_EmptySet

\* the one count of a well-formed document
LEMMA OneCount ==
  ASSUME NEW doc \in Seq(Tags), Cardinality(Counts(doc)) = 1
  PROVE  /\ \A j \in Counts(doc) : Counts(doc) = {j} /\ Min(Counts(doc)) = j
         /\ Min(Counts(doc)) \in Counts(doc)
         /\ Min(Counts(doc)) \in 1..Len(doc)
         /\ doc[Min(Counts(doc))].n \in Nat /\ doc[Min(Counts(doc))].n > 0
<1>1. Counts(doc) \in SUBSET (1..Len(doc)) /\ Len(doc) \in Nat
  BY DEF Counts
<1>2. IsFiniteSet(Counts(doc))
  <2>1. IsFiniteSet(1..Len(doc))
    BY <1>1, FS_Interval
  <2> QED BY <1>1, <2>1, FS_Subset
<1>3. PICK j : Counts(doc) = {j}
  BY <1>2, FS_Singleton
<1>4. Counts(doc) # {} /\ Counts(doc) \in SUBSET Nat
  BY <1>1, <1>3
<1>5. Min(Counts(doc)) \in Counts(doc)
  BY <1>4, HasMin
<1>6. ASSUME NEW i \in Counts(doc) PROVE Counts(doc) = {i} /\ Min(Counts(doc)) = i
  BY <1>3, <1>5
<1>7. ASSUME NEW i \in Counts(doc) PROVE doc[i].n \in Nat /\ doc[i].n > 0
  <2>1. i \in DOMAIN doc /\ doc[i].tag = "cnt" /\ doc[i].n # 0
    BY DEF Counts
  <2>2. doc[i] \in Tags
    BY <2>1
  <2>3. doc[i].n \in 0..100
    BY <2>1, <2>2 DEF Tags
  <2>4. \A x \in 0..100 : x # 0 => x \in Nat /\ x > 0
    OBVIOUS
  <2> QED BY ONLY <2>1, <2>3, <2>4
<1> QED BY <1>1, <1>5, <1>6, <1>7

\* the tags of the document that is being parsed
LEMMA ParsedIs ==
  ASSUME TypeOK, IsBoard(board), Parsed, NEW d \in Devices, pc = XmlOf[d]
  PROVE  /\ board.doc[d] \in Seq(Tags) /\ Len(board.doc[d]) \in Nat
         /\ pos \in Nat /\ items \in Seq(Entries) /\ itemCnt \in Nat
         /\ ParsedTo(items, itemCnt, board.doc[d], pos)
<1>1. board.doc[d] \in Seq(Tags)
  BY DEF IsBoard
<1>2. pos \in Nat /\ items \in Seq(Entries) /\ itemCnt \in Nat
  BY DEF TypeOK, TableTypeOK
<1>3. ParsedTo(items, itemCnt, board.doc[d], pos)
  BY DEF Parsed
<1> QED BY <1>1, <1>2, <1>3

\* only one document is parsed at a time
LEMMA ParsedAlone ==
  ASSUME NEW d \in Devices, pc' = XmlOf[d], board' = board,
         ParsedTo(items', itemCnt', board.doc[d], pos')
  PROVE  Parsed'
<1>1. pc' \in {"xml cp", "xml sp"} /\ \A c \in Devices : pc' = XmlOf[c] => c = d
  BY DeviceNames
<1> QED BY <1>1 DEF Parsed

\* a document of which nothing is parsed yet
LEMMA ParsedNothing ==
  ASSUME NEW doc \in Seq(Tags), NEW cnt PROVE ParsedTo(<<>>, cnt, doc, 0)
<1>1. \A j \in Counts(doc) : j \in Nat /\ j > 0
  BY DEF Counts
<1>2. ~(\E j \in Counts(doc) : j <= 0) /\ 0 <= Len(doc)
  BY <1>1
<1> QED BY <1>2 DEF ParsedTo

\* modem_xml_start_tag on a count
LEMMA CountParsed ==
  ASSUME NEW doc \in Seq(Tags), NEW array, NEW cnt, NEW k \in Nat,
         ParsedTo(array, cnt, doc, k), k < Len(doc), doc[k + 1].tag = "cnt",
         NEW array2, NEW cnt2,
         array2 = IF doc[k + 1].n # 0 /\ array = <<>> THEN [j \in 1..doc[k + 1].n |-> Blank]
                  ELSE array,
         cnt2 = IF doc[k + 1].n # 0 THEN 0 ELSE cnt
  PROVE  ParsedTo(array2, cnt2, doc, k + 1)
<1>0. Len(doc) \in Nat /\ DOMAIN doc = 1..Len(doc) /\ k + 1 \in DOMAIN doc /\ k + 1 <= Len(doc)
  OBVIOUS
<1>1. \A j \in Counts(doc) : j \in Nat
  BY <1>0 DEF Counts
<1>2. CASE doc[k + 1].n = 0
  <2>1. k + 1 \notin Counts(doc)
    BY <1>2 DEF Counts
  <2>2. \A j \in Counts(doc) : j <= k <=> j <= k + 1
    BY <1>1, <2>1
  <2>3. (\A j \in Counts(doc) : j > k + 1) => array2 = <<>>
    BY <1>1, <1>2, <2>2 DEF ParsedTo
  <2>4. ASSUME WellFormed(doc), NEW j \in Counts(doc), j <= k + 1
        PROVE  ItemsOf(array2, doc, k + 1) /\ cnt2 = Cardinality(ListedTo(doc, k + 1))
    <3>1. ItemsOf(array, doc, k) /\ cnt = Cardinality(ListedTo(doc, k))
      BY <2>2, <2>4 DEF ParsedTo
    <3>2. Min(Counts(doc)) \in Nat
      BY <2>4, <1>1, OneCount DEF WellFormed
    <3>3. ListedTo(doc, k + 1) = ListedTo(doc, k)
      BY <3>2, CountedNext
    <3> QED BY <1>2, <3>1, <3>3 DEF ItemsOf
  <2> QED BY <1>0, <2>3, <2>4 DEF ParsedTo
<1>3. CASE doc[k + 1].n # 0
  <2>1. k + 1 \in Counts(doc)
    BY <1>0, <1>3 DEF Counts
  <2>2. ASSUME WellFormed(doc)
        PROVE  ItemsOf(array2, doc, k + 1) /\ cnt2 = Cardinality(ListedTo(doc, k + 1))
    <3>1. Counts(doc) = {k + 1} /\ Min(Counts(doc)) = k + 1 /\ doc[k + 1].n \in Nat
      BY <2>1, <2>2, OneCount DEF WellFormed
    <3>2. array = <<>>
      BY <3>1 DEF ParsedTo
    <3>3. array2 = [j \in 1..doc[k + 1].n |-> Blank] /\ cnt2 = 0
      BY <1>3, <3>2
    <3>4. Len(array2) = doc[k + 1].n /\ \A i \in DOMAIN array2 : array2[i] = Blank
      <4> DEFINE n == doc[k + 1].n
      <4>1. n \in Nat /\ array2 = [j \in 1..n |-> Blank]
        BY ONLY <3>1, <3>3
      <4> HIDE DEF n
      <4>2. Len(array2) = n /\ \A i \in DOMAIN array2 : array2[i] = Blank
        BY ONLY <4>1
      <4> QED BY <4>2 DEF n
    <3>5. ListedTo(doc, k + 1) = {} /\ Cardinality(ListedTo(doc, k + 1)) = 0
      <4>1. k + 1 \in Nat
        OBVIOUS
      <4> QED BY ONLY <3>1, <4>1, NoneListed
    <3> QED BY <3>1, <3>3, <3>4, <3>5 DEF ItemsOf
  <2>3. ~(\A j \in Counts(doc) : j > k + 1)
    BY <2>1
  <2> QED BY <1>0, <2>2, <2>3 DEF ParsedTo
<1> QED BY <1>2, <1>3

\* modem_xml_start_tag on a partition; with a well-formed document there is room for it
LEMMA PartitionParsed ==
  ASSUME NEW doc \in Seq(Tags), NEW array \in Seq(Entries), NEW cnt \in Nat, NEW k \in Nat,
         ParsedTo(array, cnt, doc, k), k < Len(doc), doc[k + 1].tag = "partition",
         NEW array2, NEW cnt2,
         IF array = <<>> THEN array2 = array /\ cnt2 = cnt
         ELSE /\ cnt2 = cnt + 1
              /\ array2 = IF cnt < Len(array) THEN [array EXCEPT ![cnt + 1] = doc[k + 1].entry]
                          ELSE array
  PROVE  /\ ParsedTo(array2, cnt2, doc, k + 1)
         /\ array # <<>> /\ cnt >= Len(array) => Counts(doc) # {} /\ ~WellFormed(doc)
<1>0. Len(doc) \in Nat /\ DOMAIN doc = 1..Len(doc) /\ k + 1 \in DOMAIN doc /\ k + 1 <= Len(doc)
  OBVIOUS
<1>1. \A j \in Counts(doc) : j \in Nat /\ j # k + 1
  BY <1>0 DEF Counts
<1>2. \A j \in Counts(doc) : j <= k <=> j <= k + 1
  BY <1>1
<1>3. CASE \A j \in Counts(doc) : j > k
  <2>1. array = <<>> /\ array2 = <<>>
    BY <1>3 DEF ParsedTo
  <2>2. ~\E j \in Counts(doc) : j <= k + 1
    BY <1>1, <1>2, <1>3
  <2> QED BY <1>0, <2>1, <2>2 DEF ParsedTo
<1>4. CASE ~WellFormed(doc) /\ \E j \in Counts(doc) : j <= k
  <2>1. ~\A j \in Counts(doc) : j > k + 1
    BY <1>1, <1>2, <1>4
  <2> QED BY <1>0, <1>4, <2>1 DEF ParsedTo
<1>5. CASE WellFormed(doc) /\ \E j \in Counts(doc) : j <= k
  <2>1. ItemsOf(array, doc, k) /\ cnt = Cardinality(ListedTo(doc, k))
    BY <1>5 DEF ParsedTo
  <2> DEFINE first == Min(Counts(doc))
  <2>2. first \in Nat /\ first <= k /\ doc[first].n \in Nat /\ doc[first].n > 0
    BY <1>1, <1>5, OneCount DEF WellFormed
  <2>3. /\ ListedTo(doc, k + 1) = ListedTo(doc, k) \cup {k + 1}
        /\ Cardinality(ListedTo(doc, k + 1)) = cnt + 1
    <3>1. Min(Counts(doc)) \in Nat /\ k + 1 > Min(Counts(doc)) /\ doc[k + 1].tag = "partition"
      BY <2>2
    <3>2. cnt = Cardinality(ListedTo(doc, k)) /\ k \in Nat
      BY <2>1
    <3> QED BY ONLY <3>1, <3>2, CountedNext
  <2>4. cnt + 1 <= doc[first].n
    <3>1. Cardinality(ListedTo(doc, k + 1)) <= Cardinality(ListedTo(doc, Len(doc)))
      BY <1>0, CountedTo
    <3>2. Cardinality(ListedTo(doc, Len(doc))) <= doc[first].n
      BY <1>5 DEF WellFormed
    <3>3. Cardinality(ListedTo(doc, Len(doc))) \in Nat
      BY <1>0, CountedTo
    <3> HIDE DEF first
    <3>4. doc[first].n \in Nat /\ cnt + 1 \in Nat
      BY ONLY <2>2, cnt \in Nat
    <3> QED BY ONLY <2>3, <3>1, <3>2, <3>3, <3>4
  <2>5. Len(array) = doc[first].n /\ cnt < Len(array) /\ array # <<>>
    <3>1. Len(array) = doc[first].n
      BY <2>1 DEF ItemsOf
    <3> HIDE DEF first
    <3> QED BY <2>2, <2>4, <3>1
  <2>6. array2 = [array EXCEPT ![cnt + 1] = doc[k + 1].entry] /\ cnt2 = cnt + 1
    BY <2>5
  <2>7. /\ DOMAIN array = 1..Len(array) /\ cnt + 1 \in DOMAIN array
        /\ DOMAIN array2 = DOMAIN array /\ Len(array2) = Len(array)
        /\ array2[cnt + 1] = doc[k + 1].entry
        /\ \A i \in DOMAIN array : i # cnt + 1 => array2[i] = array[i]
    BY <2>5, <2>6
  <2>8. ASSUME NEW j \in ListedTo(doc, k + 1)
        PROVE  array2[Cardinality(ListedTo(doc, j))] = doc[j].entry
    <3>1. CASE j = k + 1
      BY <2>3, <2>7, <3>1
    <3>2. CASE j \in ListedTo(doc, k)
      <4>1. j \in 1..k /\ j > first /\ doc[j].tag = "partition"
        BY <3>2 DEF ListedTo
      <4>2. Cardinality(ListedTo(doc, j)) <= cnt /\ Cardinality(ListedTo(doc, j)) \in Nat
        BY <2>1, <4>1, CountedTo
      <4>3. Cardinality(ListedTo(doc, j)) # 0
        <5>1. j \in ListedTo(doc, j) /\ IsFiniteSet(ListedTo(doc, j))
          BY <4>1, CountedTo DEF ListedTo
        <5> QED BY <5>1, FS_EmptySet
      <4>4. Cardinality(ListedTo(doc, j)) \in DOMAIN array
        BY <2>5, <2>7, <4>2, <4>3
      <4>5. array[Cardinality(ListedTo(doc, j))] = doc[j].entry
        BY <2>1, <3>2 DEF ItemsOf
      <4> QED BY <2>7, <4>2, <4>4, <4>5
    <3> QED BY <2>3, <3>1, <3>2
  <2>9. ASSUME NEW i \in DOMAIN array2, i > Cardinality(ListedTo(doc, k + 1))
        PROVE  array2[i] = Blank
    <3>1. i \in DOMAIN array /\ i > cnt + 1 /\ i \in Nat
      BY <2>3, <2>7, <2>9
    <3>2. array[i] = Blank
      BY <2>1, <3>1 DEF ItemsOf
    <3> QED BY <2>7, <3>1, <3>2
  <2>10. ItemsOf(array2, doc, k + 1)
    BY <2>5, <2>7, <2>8, <2>9 DEF ItemsOf
  <2>11. \E j \in Counts(doc) : j <= k + 1
    BY <1>2, <1>5
  <2>12. ~(\A j \in Counts(doc) : j > k + 1)
    BY <1>1, <2>11
  <2> QED BY <1>0, <2>3, <2>5, <2>6, <2>10, <2>12 DEF ParsedTo
<1>6. (\A j \in Counts(doc) : j > k) \/ \E j \in Counts(doc) : j <= k
  BY <1>1
<1> QED BY <1>3, <1>4, <1>5, <1>6

\* Where no tag is read and no board is changed, nothing spills.
LEMMA NoSpill ==
  ASSUME SpillsOnlySurplus, board' = board, spilled' = spilled PROVE SpillsOnlySurplus'
BY DEF SpillsOnlySurplus

LEMMA PartionCntParses ==
  ASSUME MemoryInv, XmlInv, NEW d \in Devices, PartionCnt(d) PROVE XmlInv'
<1> DEFINE doc == board.doc[d]
<1>1. TypeOK /\ IsBoard(board) /\ Parsed /\ SpillsOnlySurplus
  BY DEF MemoryInv, TablesInv, XmlInv
<1>2. /\ pc = XmlOf[d] /\ pos < Len(doc) /\ doc[pos + 1].tag = "cnt"
      /\ items' = IF doc[pos + 1].n # 0 /\ items = <<>> THEN [j \in 1..doc[pos + 1].n |-> Blank]
                  ELSE items
      /\ itemCnt' = IF doc[pos + 1].n # 0 THEN 0 ELSE itemCnt
      /\ pos' = pos + 1 /\ pc' = pc /\ board' = board /\ spilled' = spilled
  BY DEF PartionCnt, More, Tag
<1>3. doc \in Seq(Tags) /\ pos \in Nat /\ ParsedTo(items, itemCnt, doc, pos)
  BY <1>1, <1>2, ParsedIs
<1> HIDE DEF doc
<1>4. ParsedTo(items', itemCnt', doc, pos + 1)
  BY ONLY <1>2, <1>3, CountParsed
<1> USE DEF doc
<1>5. Parsed'
  BY <1>2, <1>4, ParsedAlone
<1> QED BY <1>1, <1>2, <1>5, NoSpill DEF XmlInv

LEMMA PartitionParses ==
  ASSUME MemoryInv, XmlInv, NEW d \in Devices, Partition(d) PROVE XmlInv'
<1> DEFINE doc == board.doc[d]
<1>1. TypeOK /\ IsBoard(board) /\ Parsed /\ SpillsOnlySurplus
  BY DEF MemoryInv, TablesInv, XmlInv
<1>2. /\ pc = XmlOf[d] /\ pos < Len(doc) /\ doc[pos + 1].tag = "partition"
      /\ IF items = <<>> THEN items' = items /\ itemCnt' = itemCnt
         ELSE /\ itemCnt' = itemCnt + 1
              /\ items' = IF itemCnt < Len(items)
                          THEN [items EXCEPT ![itemCnt + 1] = doc[pos + 1].entry] ELSE items
      /\ (spilled' = spilled) \/ (items # <<>> /\ ~(itemCnt < Len(items)))
      /\ pos' = pos + 1 /\ pc' = pc /\ board' = board
  BY DEF Partition, More, Tag
<1>3. /\ doc \in Seq(Tags) /\ pos \in Nat /\ ParsedTo(items, itemCnt, doc, pos)
      /\ items \in Seq(Entries) /\ itemCnt \in Nat
  BY <1>1, <1>2, ParsedIs
<1>4. ~(itemCnt < Len(items)) => itemCnt >= Len(items)
  BY <1>3
<1> HIDE DEF doc
<1>5. /\ ParsedTo(items', itemCnt', doc, pos + 1)
      /\ items # <<>> /\ itemCnt >= Len(items) => Counts(doc) # {} /\ ~WellFormed(doc)
  BY ONLY <1>2, <1>3, PartitionParsed
<1> USE DEF doc
<1>6. Parsed'
  BY <1>2, <1>5, ParsedAlone
<1>7. SpillsOnlySurplus'
  <2>1. CASE spilled' = spilled
    BY <1>1, <1>2, <2>1, NoSpill
  <2>2. CASE items # <<>> /\ ~(itemCnt < Len(items))
    BY <1>2, <1>4, <1>5, <2>2 DEF SpillsOnlySurplus
  <2> QED BY <1>2, <2>1, <2>2
<1> QED BY <1>6, <1>7 DEF XmlInv

\* The next document begins.
LEMMA XmlToLoadInfoParses ==
  ASSUME MemoryInv, XmlInv, NEW d \in Devices, XmlToLoadInfo(d) PROVE XmlInv'
<1>1. /\ SpillsOnlySurplus /\ board.doc["sp"] \in Seq(Tags) /\ "sp" \in Devices
      /\ XmlOf["sp"] = "xml sp" /\ \A c \in Devices : XmlOf[c] # "head"
  BY DeviceNames DEF MemoryInv, TablesInv, XmlInv, IsBoard, Devices
<1>2. /\ pc' \in {"xml sp", "head"} /\ pos' = 0 /\ items' = <<>>
      /\ board' = board /\ spilled' = spilled
  BY DEF XmlToLoadInfo
<1>3. CASE pc' = "xml sp"
  <2>1. ParsedTo(items', itemCnt', board.doc["sp"], pos')
    BY <1>1, <1>2, ParsedNothing
  <2>2. Parsed'
    BY <1>1, <1>2, <1>3, <2>1, ParsedAlone
  <2> QED BY <1>1, <1>2, <2>2, NoSpill DEF XmlInv
<1>4. CASE pc' = "head"
  <2>1. Parsed'
    BY <1>1, <1>2, <1>4 DEF Parsed
  <2> QED BY <1>1, <1>2, <2>1, NoSpill DEF XmlInv
<1> QED BY <1>2, <1>3, <1>4

\* Before the first document nothing is parsed.
LEMMA CorrectParses ==
  ASSUME MemoryInv, XmlInv, CorrectModemInfo PROVE XmlInv'
<1>1. /\ SpillsOnlySurplus /\ Parsed /\ board.doc["cp"] \in Seq(Tags) /\ "cp" \in Devices
      /\ XmlOf["cp"] = "xml cp"
  BY DeviceNames DEF MemoryInv, TablesInv, XmlInv, IsBoard, Devices
<1>2. /\ pc = "nodes" /\ pc' = "xml cp" /\ board' = board /\ UNCHANGED xml
  BY DEF CorrectModemInfo
<1>3. items' = <<>> /\ pos' = 0 /\ spilled' = spilled
  BY <1>1, <1>2 DEF Parsed, xml
<1>4. ParsedTo(items', itemCnt', board.doc["cp"], pos')
  BY <1>1, <1>3, ParsedNothing
<1>5. Parsed'
  BY <1>1, <1>2, <1>4, ParsedAlone
<1> QED BY <1>1, <1>2, <1>3, <1>5, NoSpill DEF XmlInv

\* No document is being parsed before or after the step.
LEMMA NotParsing ==
  ASSUME XmlInv, board' = board, UNCHANGED xml,
         pc \notin {"xml cp", "xml sp"}, pc' \notin {"xml cp", "xml sp"}
  PROVE  XmlInv'
<1>1. \A d \in Devices : XmlOf[d] \in {"xml cp", "xml sp"}
  BY DeviceNames
<1>2. spilled' = spilled /\ SpillsOnlySurplus
  BY DEF xml, XmlInv
<1>3. Parsed'
  BY <1>1 DEF XmlInv, Parsed, xml
<1> QED BY <1>2, <1>3, NoSpill DEF XmlInv

LEMMA NextParses == ASSUME MemoryInv, XmlInv, [Next]_vars PROVE XmlInv'
<1> DEFINE Apart == /\ board' = board /\ UNCHANGED xml
                    /\ pc \notin {"xml cp", "xml sp"} /\ pc' \notin {"xml cp", "xml sp"}
<1>1. Apart => XmlInv'
  BY NotParsing
<1>2. DefaultInit \/ HeadCorrect => Apart
  BY DEF DefaultInit, HeadCorrect
<1>3. CASE Startup
  BY <1>1, <1>2, <1>3, PartionCntParses, PartitionParses, XmlToLoadInfoParses, CorrectParses
  DEF Startup, InitModemImgInfo
<1>4. CASE BootModem \/ ReloadModem
  BY <1>1, <1>4 DEF BootModem, ReloadModem, Begin, tables
<1>5. CASE LoadModemImg
  <2>1. \A d \in Devices : d \in {"cp", "sp"} /\ Copying[d] \in {"copy cp", "copy sp"}
    BY DeviceNames
  <2>2. ASSUME NEW d \in Devices,
               TableLoaded(d) \/ LoadData(d) \/ FillVerifyTable(d) \/ LoadImage(d)
        PROVE  Apart
    <3>1. pc \in {d, Copying[d]} /\ pc' \in {"cp", "verify", d, Copying[d]}
      BY <2>2 DEF TableLoaded, LoadData, Loading, FillVerifyTable, LoadImage
    <3>2. UNCHANGED tables
      BY <2>2 DEF TableLoaded, LoadData, FillVerifyTable, LoadImage
    <3> QED BY <2>1, <3>1, <3>2 DEF tables
  <2>3. UnlockDdr \/ Stop \/ VerifyAll \/ Start => Apart
    BY DEF UnlockDdr, Stop, VerifyAll, Start, tables
  <2> QED BY <1>1, <1>5, <2>2, <2>3 DEF LoadModemImg
<1>6. CASE UNCHANGED vars
  <2>1. UNCHANGED <<board, pc, pos, items, itemCnt, spilled>>
    BY <1>6 DEF vars, tableVars, xml
  <2>2. Parsed'
    BY <2>1 DEF XmlInv, Parsed
  <2> QED BY <2>1, <2>2, NoSpill DEF XmlInv
<1> QED BY <1>3, <1>4, <1>5, <1>6 DEF Next

LEMMA ParsesAlways == Spec => []XmlInv
<1>1. Init => XmlInv
  <2>1. \A d \in Devices : XmlOf[d] # "default"
    BY DeviceNames
  <2> QED BY <2>1 DEF Init, TableInit, XmlInv, Parsed, SpillsOnlySurplus
<1>2. MemoryInv /\ XmlInv /\ [Next]_vars => XmlInv'
  BY NextParses
<1> QED BY <1>1, <1>2, MemoryAlways, PTL DEF Spec

(***************************************************************************)
(* Of every document with one count and not more partitions than that,     *)
(* modem_xml_start_tag puts the partitions into item_arry in their order,  *)
(* although the index it writes at is left over from the document before.  *)
(***************************************************************************)
THEOREM ItemsFollowTheDocuments == Spec => []ItemsAreTheDocuments
<1>1. MemoryInv /\ XmlInv => ItemsAreTheDocuments
  <2> SUFFICES ASSUME MemoryInv, XmlInv, NEW d \in Devices, pc = XmlOf[d], ~More(d),
                      WellFormed(board.doc[d])
               PROVE  ItemsOf(items, board.doc[d], Len(board.doc[d]))
    BY DEF ItemsAreTheDocuments
  <2>1. /\ board.doc[d] \in Seq(Tags) /\ Len(board.doc[d]) \in Nat /\ pos \in Nat
        /\ ParsedTo(items, itemCnt, board.doc[d], pos)
    BY ParsedIs DEF MemoryInv, TablesInv, XmlInv
  <2>2. pos = Len(board.doc[d])
    BY <2>1 DEF More, ParsedTo
  <2>3. \E j \in Counts(board.doc[d]) : j <= Len(board.doc[d])
    BY <2>1, OneCount DEF WellFormed
  <2> QED BY <2>1, <2>2, <2>3 DEF ParsedTo
<1> QED BY <1>1, MemoryAlways, ParsesAlways, PTL

(***************************************************************************)
(* modem_xml_start_tag writes past item_arry only for a board one of whose *)
(* documents has more partitions than its count, or more than one count.   *)
(***************************************************************************)
THEOREM OnlySurplusSpills == Spec => []SpillsOnlySurplus
<1>1. XmlInv => SpillsOnlySurplus
  BY DEF XmlInv
<1> QED BY <1>1, ParsesAlways, PTL

-----------------------------------------------------------------------------
(***************************************************************************)
(* VerifyInv is inductive.                                                 *)
(***************************************************************************)
Loop == {"sp", "cp", "copy sp", "copy cp", "verify"}

\* An output has one slot at most.
LEMMA SlotIs == \A o : Slot(o) = {} \/ \E s \in Slots : Slot(o) = {s}
BY DEF Slot

LEMMA NothingFilled == Filled(NoSlots) = {}
BY DEF Filled, NoSlots, Unfilled

LEMMA VerifyIs ==
  ASSUME VerifyInv
  PROVE  MemoryInv /\ TypeOK /\ Noted /\ VerifiesThisLoad /\ Running
BY MemoryIs DEF VerifyInv

\* what only the tables decide
LEMMA StaticKept ==
  ASSUME UNCHANGED tables
  PROVE  /\ UNCHANGED <<table, drv, ioctrl>>
         /\ \A d, i : (Wanted(d, i)' <=> Wanted(d, i)) /\ (Verified(d, i)' <=> Verified(d, i))
         /\ \A d : Driven(d)' <=> Driven(d)
         /\ SlotsApart' <=> SlotsApart
<1>1. UNCHANGED <<table, drv, ioctrl>>
  BY DEF tables
<1>2. \A d, i : (Wanted(d, i)' <=> Wanted(d, i)) /\ (Verified(d, i)' <=> Verified(d, i))
  BY <1>1 DEF Wanted, Verified
<1>3. \A d : Driven(d)' <=> Driven(d)
  BY <1>1 DEF Driven
<1>4. SlotsApart' <=> SlotsApart
  BY <1>1 DEF SlotsApart, Verified, Wanted
<1> QED BY <1>1, <1>2, <1>3, <1>4

\* A device that goes on running keeps its images.
LEMMA RunningKept ==
  ASSUME VerifyInv, UNCHANGED <<tables, type>>, pc' \in LoadPcs \ {"start"},
         \A d \in Devices : running'[d] = "on" => running[d] = "on" /\ mem'[d] = mem[d],
         pc' \in Loop \cup {"stop"} => \A d \in type : running'[d] # "on"
  PROVE  Running'
<1>1. \A d \in Devices : running'[d] = "on" /\ SlotsApart' => Intact(d)'
  <2> SUFFICES ASSUME NEW d \in Devices, running'[d] = "on", SlotsApart', 
                      NEW i \in DOMAIN table'[d], Verified(d, i)'
               PROVE  i \in DOMAIN mem'[d] /\ mem'[d][i].entry = table'[d][i] /\ mem'[d][i].whole
    BY DEF Intact
  <2>1. /\ running[d] = "on" /\ mem'[d] = mem[d] /\ table' = table
        /\ SlotsApart /\ Verified(d, i)
    BY StaticKept
  <2>2. Intact(d)
    BY <2>1 DEF VerifyInv, Running
  <2> QED BY <2>1, <2>2 DEF Intact
<1>2. pc' \notin Starting /\ pc' # "start"
  BY DEF LoadPcs, Starting
<1>3. pc' \in {"stop", "sp", "cp", "copy sp", "copy cp", "verify", "start"} =>
        \A d \in type' : running'[d] # "on"
  BY <1>2 DEF Loop
<1> QED BY <1>1, <1>2, <1>3 DEF Running

LEMMA StartupVerify ==
  ASSUME VerifyInv, Startup PROVE Noted' /\ VerifiesThisLoad' /\ Running'
<1>1. /\ pc \in Starting /\ pc' \in Starting \cup {"idle"}
      /\ UNCHANGED <<type, mem, kbc, running, done, seen>>
  <2>1. \A d \in Devices : XmlOf[d] \in Starting
    BY DeviceNames DEF Starting
  <2> QED BY <2>1 DEF Startup, InitModemImgInfo, DefaultInit, CorrectModemInfo, PartionCnt,
             Partition, More, XmlToLoadInfo, HeadCorrect, Starting
<1>2. kbc = NoSlots /\ \A d \in Devices : running[d] # "on"
  BY <1>1 DEF VerifyInv, Noted, Running
<1>3. Noted'
  <2>1. pc' \notin {"unlock", "stop", "sp", "cp", "copy sp", "copy cp", "verify"}
    BY <1>1 DEF Starting
  <2>2. kbc' = NoSlots /\ Filled(kbc') = {}
    BY <1>1, <1>2, NothingFilled
  <2> QED BY <2>1, <2>2 DEF Noted, Filled
<1>4. VerifiesThisLoad'
  BY <1>1 DEF VerifiesThisLoad, Starting
<1>5. Running'
  <2>1. pc' \notin {"stop", "sp", "cp", "copy sp", "copy cp", "verify", "start"}
    BY <1>1 DEF Starting
  <2> QED BY <1>1, <1>2, <2>1 DEF Running
<1> QED BY <1>3, <1>4, <1>5

LEMMA BeginVerify ==
  ASSUME VerifyInv, NEW ty \in SUBSET Devices, Begin(ty)
  PROVE  Noted' /\ VerifiesThisLoad' /\ Running'
<1>1. /\ pc = "idle" /\ pc' = "unlock" /\ done' = {}
      /\ UNCHANGED <<tables, kbc, running, seen>>
      /\ mem' = [d \in Devices |->
           IF mem[d] = <<>> THEN [i \in DOMAIN table[d] |-> Empty] ELSE mem[d]]
  BY DEF Begin
<1>2. Noted'
  <2>1. kbc' = NoSlots /\ Filled(kbc') = {}
    BY <1>1, NothingFilled DEF VerifyInv, Noted
  <2> QED BY <1>1, <2>1 DEF Noted, Filled
<1>3. VerifiesThisLoad'
  BY <1>1 DEF VerifiesThisLoad
<1>4. Running'
  <2>1. ASSUME NEW d \in Devices, running'[d] = "on", SlotsApart' PROVE Intact(d)'
    <3>1. Intact(d) /\ table' = table
      BY <1>1, <2>1, StaticKept DEF VerifyInv, Running
    <3>2. \A i \in DOMAIN table[d] : Verified(d, i)' <=> Verified(d, i)
      BY <1>1, StaticKept
    <3>3. CASE mem[d] = <<>>
      <4>1. \A i \in DOMAIN table[d] : ~Verified(d, i)
        <5>1. DOMAIN mem[d] = {}
          BY <3>3
        <5> QED BY <3>1, <5>1 DEF Intact
      <4> QED BY <3>1, <3>2, <4>1 DEF Intact
    <3>4. CASE mem[d] # <<>>
      <4>1. mem'[d] = mem[d]
        BY <1>1, <3>4
      <4> QED BY <3>1, <3>2, <4>1 DEF Intact
    <3> QED BY <3>3, <3>4
  <2> QED BY <1>1, <2>1 DEF Running, Starting
<1> QED BY <1>2, <1>3, <1>4

LEMMA UnlockVerify ==
  ASSUME VerifyInv, UnlockDdr PROVE Noted' /\ VerifiesThisLoad' /\ Running'
<1>1. /\ pc = "unlock" /\ pc' \in {"stop", "hang"}
      /\ UNCHANGED <<tables, type, mem, kbc, done, seen>>
  BY DEF UnlockDdr
<1>2. Noted'
  <2>1. kbc' = NoSlots /\ Filled(kbc') = {} /\ done' = {}
    BY <1>1, NothingFilled DEF VerifyInv, Noted
  <2> QED BY <1>1, <2>1 DEF Noted, Filled
<1>3. VerifiesThisLoad'
  BY <1>1 DEF VerifiesThisLoad
<1>4. Running'
  <2>1. \A d \in Devices : running'[d] = "on" => running[d] = "on" /\ mem'[d] = mem[d]
    BY <1>1 DEF UnlockDdr
  <2>2. pc' = "stop" => \A d \in type : running'[d] # "on"
    <3>1. type \subseteq Devices
      BY VerifyIs DEF TypeOK
    <3> QED BY <3>1 DEF UnlockDdr
  <2> QED BY <1>1, <2>1, <2>2, RunningKept DEF LoadPcs, Loop
<1> QED BY <1>2, <1>3, <1>4

\* in the loop: what Noted says there
LEMMA NotedIs ==
  ASSUME VerifyInv, pc \in Loop
  PROVE  /\ \A s \in Filled(kbc) : s \in Slot(kbc[s].entry.out)
         /\ \A e \in done : \E d \in Devices : \E i \in DOMAIN table[d] :
              e = table[d][i] /\ Wanted(d, i) /\ Plain(e) /\ "SECURE" \in e.flags
         /\ SlotsApart => {kbc[s].entry : s \in Filled(kbc)} = {e \in done : Slot(e.out) # {}}
         /\ \A d \in type : \A i \in DOMAIN table[d] :
              Driven(d) /\ Verified(d, i) /\ Passed(d, i) => table[d][i] \in done
         /\ \A d \in type : d \in Devices /\ running[d] # "on"
<1>1. Noted /\ Running /\ type \subseteq Devices
  BY VerifyIs DEF TypeOK
<1> QED BY <1>1 DEF Noted, Running, Loop

\* Going on without a new secure image.
LEMMA NotedKept ==
  ASSUME VerifyInv, UNCHANGED <<tables, type, kbc, done>>, pc \in Loop, pc' \in Loop,
         \A d \in type : \A i \in DOMAIN table[d] :
           Driven(d) /\ Verified(d, i) /\ Passed(d, i)' => Passed(d, i)
  PROVE  Noted'
<1>1. /\ table' = table /\ (SlotsApart' <=> SlotsApart)
      /\ \A d, i : (Wanted(d, i)' <=> Wanted(d, i)) /\ (Verified(d, i)' <=> Verified(d, i))
      /\ \A d : Driven(d)' <=> Driven(d)
  BY StaticKept
<1>2. Filled(kbc') = Filled(kbc)
  OBVIOUS
<1>3. pc' \notin Starting \cup {"idle", "unlock", "stop", "start"}
  BY DEF Loop, Starting
<1>4. \A d \in type' : \A i \in DOMAIN table'[d] :
        Driven(d)' /\ Verified(d, i)' /\ Passed(d, i)' => table'[d][i] \in done'
  BY <1>1, NotedIs
<1>5. \A s \in Filled(kbc') : s \in Slot(kbc'[s].entry.out)
  BY <1>2, NotedIs
<1>6. \A e \in done' : \E d \in Devices : \E i \in DOMAIN table'[d] :
            e = table'[d][i] /\ Wanted(d, i)' /\ Plain(e) /\ "SECURE" \in e.flags
  BY <1>1, NotedIs
<1>7. SlotsApart' => {kbc'[s].entry : s \in Filled(kbc')} = {e \in done' : Slot(e.out) # {}}
  BY <1>1, <1>2, NotedIs
<1> QED BY <1>3, <1>4, <1>5, <1>6, <1>7 DEF Noted

LEMMA StopVerify ==
  ASSUME VerifyInv, Stop PROVE Noted' /\ VerifiesThisLoad' /\ Running'
<1>1. /\ pc = "stop" /\ pc' = "sp" /\ at' = First("sp", 1)
      /\ UNCHANGED <<tables, type, mem, kbc, done, seen>>
  BY DEF Stop
<1>2. kbc' = NoSlots /\ Filled(kbc') = {} /\ done' = {} /\ type \subseteq Devices
  BY <1>1, NothingFilled, VerifyIs DEF Noted, TypeOK
<1>3. Noted'
  <2>1. ASSUME NEW d \in type', NEW i \in DOMAIN table'[d],
               Driven(d)', Verified(d, i)', Passed(d, i)'
        PROVE  FALSE
    <3>1. d \in Devices /\ d \in type /\ i \in DOMAIN table[d] /\ Driven(d) /\ Wanted(d, i)
      BY <1>1, <1>2, <2>1, StaticKept DEF Verified
    <3>2. d = "sp" /\ i < at'
      BY <1>1, <2>1, <3>1, DeviceNames DEF Passed
    <3>3. i >= 1
      BY <3>1, VerifyIs, Typed
    <3> QED BY <1>1, <3>1, <3>2, <3>3, FirstIs, VerifyIs
  <2>2. {kbc'[s].entry : s \in Filled(kbc')} = {e \in done' : Slot(e.out) # {}}
    BY <1>2
  <2> QED BY <1>1, <1>2, <2>1, <2>2 DEF Noted, Starting
<1>4. VerifiesThisLoad'
  BY <1>1 DEF VerifiesThisLoad
<1>5. Running'
  <2>1. \A d \in Devices : running'[d] = "on" => running[d] = "on" /\ mem'[d] = mem[d]
    BY <1>1 DEF Stop
  <2>2. \A d \in type : running'[d] # "on"
    BY <1>1, <1>2, <2>1 DEF VerifyInv, Running
  <2> QED BY <1>1, <2>1, <2>2, RunningKept DEF LoadPcs
<1> QED BY <1>3, <1>4, <1>5

LEMMA TableLoadedVerify ==
  ASSUME VerifyInv, NEW d \in Devices, TableLoaded(d)
  PROVE  Noted' /\ VerifiesThisLoad' /\ Running'
<1>1. /\ pc = d /\ pc' = IF d = "sp" THEN "cp" ELSE "verify"
      /\ at > Len(table[d]) /\ at' = IF d = "sp" THEN First("cp", 1) ELSE at
      /\ UNCHANGED <<tables, type, mem, kbc, running, done, seen>>
  BY DEF TableLoaded
<1>2. /\ pc \in Loop /\ pc' \in Loop /\ pc' \in LoadPcs \ {"start"} /\ type \subseteq Devices
      /\ at \in Nat /\ TypeOK
  BY <1>1, VerifyIs DEF Devices, Loop, LoadPcs, TypeOK
<1>3. Noted'
  <2>1. ASSUME NEW c \in type, NEW i \in DOMAIN table[c],
               Driven(c), Verified(c, i), Passed(c, i)'
        PROVE  Passed(c, i)
    <3>1. c \in Devices
      BY <1>2
    <3>2. i \in Nat /\ i >= 1 /\ i <= Len(table[c]) /\ Len(table[c]) \in Nat
      BY <1>2, <3>1, Typed
    <3>3. c = d => i < at
      BY <1>1, <1>2, <3>2
    <3>4. CASE c = d
      BY <1>1, <3>3, <3>4 DEF Passed
    <3>5. CASE c # d /\ d = "cp"
      BY <1>1, <3>1, <3>5 DEF Passed, Devices
    <3>6. CASE c # d /\ d = "sp"
      <4>1. c = "cp" /\ pc' = "cp" /\ at' = First("cp", 1)
        BY <1>1, <3>1, <3>6 DEF Devices
      <4>2. i < at'
        BY <2>1, <3>1, <4>1, DeviceNames DEF Passed
      <4>3. Wanted(c, i)
        BY <2>1 DEF Verified
      <4> QED BY <1>2, <2>1, <3>1, <3>2, <4>1, <4>2, <4>3, FirstIs
    <3> QED BY <3>4, <3>5, <3>6 DEF Devices
  <2> QED BY <1>1, <1>2, <2>1, NotedKept
<1>4. VerifiesThisLoad'
  BY <1>1 DEF VerifiesThisLoad
<1>5. Running'
  BY <1>1, <1>2, NotedIs, RunningKept
<1> QED BY <1>3, <1>4, <1>5

\* Writing to a region of d, one that is not to be verified or is being copied.
LEMMA WrittenRuns ==
  ASSUME VerifyInv, NEW d \in type, NEW r, Written(d, r), UNCHANGED <<tables, type, running>>,
         pc \in Loop, pc' \in Loop
  PROVE  Running'
<1>1. /\ d \in Devices /\ mem \in [Devices -> Seq(Regions)]
      /\ \A c \in type : running[c] # "on"
  BY NotedIs, VerifyIs DEF TypeOK
<1>2. \A c \in Devices : c # d => mem'[c] = mem[c]
  BY <1>1 DEF Written, Misplaced
<1>3. \A c \in Devices : running'[c] = "on" => running[c] = "on" /\ mem'[c] = mem[c]
  BY <1>1, <1>2
<1>4. pc' \in LoadPcs \ {"start"}
  BY DEF Loop, LoadPcs
<1> QED BY <1>1, <1>3, <1>4, RunningKept

LEMMA LoadDataVerify ==
  ASSUME VerifyInv, NEW d \in Devices, LoadData(d)
  PROVE  Noted' /\ VerifiesThisLoad' /\ Running'
<1>1. /\ pc = d /\ pc' = d /\ Loading(d) /\ at' = First(d, at + 1)
      /\ UNCHANGED <<tables, type, kbc, running, done, seen>>
      /\ Flagged(d, {"CMDLINE", "NV", "CODE"})
      /\ \E r : Written(d, r)
  BY DEF LoadData, Loading
<1>2. Stopped(d) /\ ~Plain(table[d][at]) /\ at \in Nat /\ TypeOK
  BY <1>1, VerifyIs, MemoryIs DEF Position, Flagged, Plain, TypeOK
<1>3. pc \in Loop /\ pc' \in Loop /\ pc' # "start" /\ type \subseteq Devices
  BY <1>1, <1>2 DEF Devices, Loop, TypeOK
<1>4. Noted'
  <2>1. ASSUME NEW c \in type, NEW i \in DOMAIN table[c],
               Driven(c), Verified(c, i), Passed(c, i)'
        PROVE  Passed(c, i)
    <3>1. c \in Devices /\ Wanted(c, i) /\ Plain(table[c][i])
      BY <1>3, <2>1 DEF Verified
    <3>2. i \in Nat /\ i >= 1
      BY <1>2, <3>1, Typed
    <3>3. CASE c = d
      <4>1. i < at'
        BY <1>1, <2>1, <3>3, DeviceNames DEF Passed
      <4>2. ~(i >= at + 1)
        BY <1>1, <1>2, <2>1, <3>1, <3>3, <4>1, FirstIs
      <4>3. i # at
        BY <1>2, <3>1, <3>3
      <4>4. i < at
        BY <1>2, <3>2, <4>2, <4>3
      <4> QED BY <1>1, <3>3, <4>4 DEF Passed
    <3>4. CASE c # d
      BY <1>1, <2>1, <3>1, <3>4, DeviceNames DEF Passed
    <3> QED BY <3>3, <3>4
  <2> QED BY <1>1, <1>3, <2>1, NotedKept
<1>5. VerifiesThisLoad'
  BY <1>1, <1>3 DEF VerifiesThisLoad
<1>6. Running'
  BY <1>1, <1>2, <1>3, WrittenRuns DEF Stopped
<1> QED BY <1>4, <1>5, <1>6

LEMMA LoadImageVerify ==
  ASSUME VerifyInv, NEW d \in Devices, LoadImage(d)
  PROVE  Noted' /\ VerifiesThisLoad' /\ Running'
<1>1. /\ pc = Copying[d] /\ pc' = d /\ at' = First(d, at + 1)
      /\ UNCHANGED <<tables, type, kbc, running, done, seen>>
      /\ \E r : Written(d, r)
  BY DEF LoadImage
<1>2. Stopped(d) /\ at \in Nat /\ TypeOK
  BY <1>1, VerifyIs, MemoryIs DEF Position, TypeOK
<1>3. pc \in Loop /\ pc' \in Loop /\ pc' # "start" /\ type \subseteq Devices
  BY <1>1, <1>2, DeviceNames DEF Loop, TypeOK
<1>4. Noted'
  <2>1. ASSUME NEW c \in type, NEW i \in DOMAIN table[c],
               Driven(c), Verified(c, i), Passed(c, i)'
        PROVE  Passed(c, i)
    <3>1. c \in Devices /\ Wanted(c, i)
      BY <1>3, <2>1 DEF Verified
    <3>2. i \in Nat /\ i >= 1
      BY <1>2, <3>1, Typed
    <3>3. CASE c = d
      <4>1. i < at'
        BY <1>1, <2>1, <3>3, DeviceNames DEF Passed
      <4>2. ~(i >= at + 1)
        BY <1>1, <1>2, <2>1, <3>1, <3>3, <4>1, FirstIs
      <4>3. i <= at
        BY <1>2, <3>2, <4>2
      <4> QED BY <1>1, <3>3, <4>3 DEF Passed
    <3>4. CASE c # d
      BY <1>1, <2>1, <3>1, <3>4, DeviceNames DEF Passed
    <3> QED BY <3>3, <3>4
  <2> QED BY <1>1, <1>3, <2>1, NotedKept
<1>5. VerifiesThisLoad'
  BY <1>1, <1>3 DEF VerifiesThisLoad
<1>6. Running'
  BY <1>1, <1>2, <1>3, WrittenRuns DEF Stopped
<1> QED BY <1>4, <1>5, <1>6

\* Slots that are apart: the entry tells the index.
LEMMA ApartIs ==
  ASSUME SlotsApart, NEW c \in Devices, NEW i \in DOMAIN table[c],
         NEW d \in Devices, NEW j \in DOMAIN table[d], Verified(c, i), Verified(d, j),
         Slot(table[c][i].out) = Slot(table[d][j].out)
  PROVE  c = d /\ i = j
BY DEF SlotsApart

\* The slot that get_image_footer_byname fills replaces nothing of this load.
LEMMA DescribedIs ==
  ASSUME VerifyInv, pc \in Loop, NEW d \in Devices, NEW i \in DOMAIN table[d], Wanted(d, i),
         Plain(table[d][i]), "SECURE" \in table[d][i].flags, NEW read \in BOOLEAN,
         kbc' = Described(table[d][i], read), done' = done \cup {table[d][i]}
  PROVE  /\ \A s \in Filled(kbc') : s \in Slot(kbc'[s].entry.out)
         /\ SlotsApart =>
              {kbc'[s].entry : s \in Filled(kbc')} = {e \in done' : Slot(e.out) # {}}
<1> DEFINE e == table[d][i]
<1>1. e # Blank
  <2>1. Blank.flags = {}
    BY DEF Blank, Entry
  <2> QED BY <2>1
<1>2. /\ \A s \in Filled(kbc) : s \in Slot(kbc[s].entry.out)
      /\ SlotsApart => {kbc[s].entry : s \in Filled(kbc)} = {x \in done : Slot(x.out) # {}}
      /\ \A x \in done : \E c \in Devices : \E j \in DOMAIN table[c] :
           x = table[c][j] /\ Wanted(c, j) /\ Plain(x) /\ "SECURE" \in x.flags
  BY NotedIs
<1>3. \A s \in Slots : kbc'[s] = IF s \in Slot(e.out)
                                 THEN [entry |-> e, footer |-> read \/ kbc[s].footer] ELSE kbc[s]
  BY DEF Described
<1>4. \A s \in Slots : kbc'[s].entry = IF s \in Slot(e.out) THEN e ELSE kbc[s].entry
  <2> SUFFICES ASSUME NEW s \in Slots
               PROVE  kbc'[s].entry = IF s \in Slot(e.out) THEN e ELSE kbc[s].entry
    OBVIOUS
  <2> HIDE DEF e
  <2>1. CASE s \in Slot(e.out)
    <3> DEFINE f == read \/ kbc[s].footer
    <3>1. kbc'[s] = [entry |-> e, footer |-> f]
      BY <1>3, <2>1
    <3> HIDE DEF f
    <3> QED BY <2>1, <3>1
  <2>2. CASE s \notin Slot(e.out)
    <3>1. kbc'[s] = kbc[s]
      BY <1>3, <2>2
    <3> QED BY <2>2, <3>1
  <2> QED BY <2>1, <2>2
<1>5. Slot(e.out) \subseteq Slots
  BY SlotIs
<1>6. SlotsApart => \A s \in Filled(kbc) : s \in Slot(e.out) => kbc[s].entry = e
  <2> SUFFICES ASSUME SlotsApart, NEW s \in Filled(kbc), s \in Slot(e.out)
               PROVE  kbc[s].entry = e
    OBVIOUS
  <2> DEFINE x == kbc[s].entry
  <2>1. s \in Slot(x.out) /\ x \in done
    BY <1>2
  <2>2. PICK c \in Devices : \E j \in DOMAIN table[c] :
          x = table[c][j] /\ Wanted(c, j) /\ Plain(x) /\ "SECURE" \in x.flags
    BY <1>2, <2>1
  <2>3. PICK j \in DOMAIN table[c] :
          x = table[c][j] /\ Wanted(c, j) /\ Plain(x) /\ "SECURE" \in x.flags
    BY <2>2
  <2>4. Slot(x.out) = Slot(e.out)
    BY <2>1, SlotIs
  <2>5. Verified(c, j) /\ Verified(d, i)
    BY <2>1, <2>3, <2>4 DEF Verified
  <2> QED BY <2>3, <2>4, <2>5, ApartIs
<1> HIDE DEF e
<1>7. Filled(kbc') = Filled(kbc) \cup Slot(e.out)
  BY <1>1, <1>4, <1>5 DEF Filled
<1>8. \A s \in Filled(kbc') : s \in Slot(kbc'[s].entry.out)
  BY <1>2, <1>4, <1>5, <1>7 DEF Filled
<1>9. ASSUME SlotsApart
      PROVE  {kbc'[s].entry : s \in Filled(kbc')} = {x \in done \cup {e} : Slot(x.out) # {}}
  <2>1. \A s \in Filled(kbc) : kbc'[s].entry = kbc[s].entry
    BY <1>4, <1>6, <1>9 DEF Filled
  <2>2. {kbc'[s].entry : s \in Filled(kbc)} = {x \in done : Slot(x.out) # {}}
    BY <1>2, <1>9, <2>1
  <2>3. \A s \in Slot(e.out) : kbc'[s].entry = e
    BY <1>4, <1>5
  <2>4. {kbc'[s].entry : s \in Slot(e.out)} = {x \in {e} : Slot(x.out) # {}}
    BY <2>3
  <2>5. {kbc'[s].entry : s \in Filled(kbc')}
          = {kbc'[s].entry : s \in Filled(kbc)} \cup {kbc'[s].entry : s \in Slot(e.out)}
    BY <1>7
  <2>6. {x \in done \cup {e} : Slot(x.out) # {}}
          = {x \in done : Slot(x.out) # {}} \cup {x \in {e} : Slot(x.out) # {}}
    OBVIOUS
  <2> QED BY <2>2, <2>4, <2>5, <2>6, Zenon
<1> QED BY <1>8, <1>9 DEF e

LEMMA FillVerify ==
  ASSUME VerifyInv, NEW d \in Devices, FillVerifyTable(d)
  PROVE  Noted' /\ VerifiesThisLoad' /\ Running'
<1> DEFINE e == table[d][at]
<1>1. /\ pc = d /\ pc' = Copying[d] /\ Loading(d)
      /\ UNCHANGED <<tables, type, at, mem, running, seen>>
      /\ ~Flagged(d, {"CMDLINE", "NV", "CODE"})
  BY DEF FillVerifyTable, Loading
<1>2. Stopped(d) /\ Plain(e) /\ at \in Nat /\ TypeOK
  BY <1>1, VerifyIs, MemoryIs DEF Position, Flagged, Plain, TypeOK
<1>3. pc \in Loop /\ pc' \in Loop /\ pc' # "start" /\ type \subseteq Devices
  BY <1>1, <1>2, DeviceNames DEF Loop, TypeOK
<1>4. at \in DOMAIN table[d] /\ Wanted(d, at)
  BY <1>2 DEF Stopped
<1>5. \/ ~("SECURE" \in e.flags) /\ UNCHANGED <<kbc, done>>
      \/ /\ "SECURE" \in e.flags /\ done' = done \cup {e}
         /\ \E read \in BOOLEAN : kbc' = Described(e, read)
  BY DEF FillVerifyTable, Flagged
<1>6. ASSUME NEW c \in type, NEW i \in DOMAIN table[c],
             Driven(c), Verified(c, i), Passed(c, i)'
      PROVE  Passed(c, i) \/ (c = d /\ i = at)
  <2>1. c \in Devices
    BY <1>3
  <2>2. i \in Nat
    BY <1>2, <2>1, Typed
  <2>3. CASE c = d
    <3>1. i <= at
      BY <1>1, <1>6, <2>3, DevicePcs, DeviceNames DEF Passed
    <3>2. i < at \/ i = at
      BY <1>2, <2>2, <3>1
    <3> QED BY <1>1, <2>3, <3>2 DEF Passed
  <2>4. CASE c # d
    BY <1>1, <1>6, <2>1, <2>4, DeviceNames DEF Passed
  <2> QED BY <2>3, <2>4
<1>7. CASE ~("SECURE" \in e.flags) /\ UNCHANGED <<kbc, done>>
  <2>1. ~Verified(d, at)
    BY <1>7 DEF Verified
  <2>2. Noted'
    BY <1>1, <1>3, <1>6, <1>7, <2>1, NotedKept
  <2> QED BY <1>1, <1>3, <2>2, NotedIs, RunningKept DEF VerifiesThisLoad, LoadPcs, Loop
<1>8. CASE /\ "SECURE" \in e.flags /\ done' = done \cup {e}
           /\ \E read \in BOOLEAN : kbc' = Described(e, read)
  <2>1. /\ \A s \in Filled(kbc') : s \in Slot(kbc'[s].entry.out)
        /\ SlotsApart =>
             {kbc'[s].entry : s \in Filled(kbc')} = {x \in done' : Slot(x.out) # {}}
    BY <1>2, <1>3, <1>4, <1>8, DescribedIs
  <2>2. /\ table' = table /\ (SlotsApart' <=> SlotsApart)
        /\ \A c, i : (Wanted(c, i)' <=> Wanted(c, i)) /\ (Verified(c, i)' <=> Verified(c, i))
        /\ \A c : Driven(c)' <=> Driven(c)
    BY <1>1, StaticKept
  <2>3. \A x \in done' : \E c \in Devices : \E i \in DOMAIN table'[c] :
          x = table'[c][i] /\ Wanted(c, i)' /\ Plain(x) /\ "SECURE" \in x.flags
    <3> SUFFICES ASSUME NEW x \in done'
                 PROVE  \E c \in Devices : \E i \in DOMAIN table[c] :
                          x = table[c][i] /\ Wanted(c, i) /\ Plain(x) /\ "SECURE" \in x.flags
      BY <2>2
    <3>1. CASE x \in done
      BY <1>3, <3>1, NotedIs
    <3>2. CASE x = e
      BY <1>2, <1>4, <1>8, <3>2
    <3> QED BY <1>8, <3>1, <3>2
  <2>4. \A c \in type' : \A i \in DOMAIN table'[c] :
          Driven(c)' /\ Verified(c, i)' /\ Passed(c, i)' => table'[c][i] \in done'
    <3> SUFFICES ASSUME NEW c \in type, NEW i \in DOMAIN table[c],
                        Driven(c), Verified(c, i), Passed(c, i)'
                 PROVE  table[c][i] \in done'
      BY <1>1, <2>2
    <3>1. Passed(c, i) => table[c][i] \in done
      BY <1>3, NotedIs
    <3> QED BY <1>6, <1>8, <3>1
  <2>5. pc' \notin Starting \cup {"idle", "unlock", "stop", "start"}
    BY <1>3 DEF Loop, Starting
  <2>6. Noted'
    <3>1. \A s \in Filled(kbc)' : s \in Slot(kbc'[s].entry.out)
      BY <2>1
    <3>2. SlotsApart' => {kbc'[s].entry : s \in Filled(kbc)'} = {x \in done' : Slot(x.out) # {}}
      BY <2>1, <2>2
    <3> QED BY <2>3, <2>4, <2>5, <3>1, <3>2 DEF Noted
  <2> QED BY <1>1, <1>3, <2>6, NotedIs, RunningKept DEF VerifiesThisLoad, LoadPcs, Loop
<1> QED BY <1>5, <1>7, <1>8

LEMMA VerdictVerify ==
  ASSUME VerifyInv, VerifyAll PROVE Noted' /\ VerifiesThisLoad' /\ Running'
<1>1. /\ pc = "verify" /\ pc \in Loop /\ UNCHANGED <<tables, type, mem, running, done>>
      /\ type \subseteq Devices
  BY VerifyIs DEF VerifyAll, Loop, TypeOK
<1>2. /\ table' = table /\ (SlotsApart' <=> SlotsApart)
      /\ \A d, i : Verified(d, i)' <=> Verified(d, i)
      /\ \A d : Driven(d)' <=> Driven(d)
  BY <1>1, StaticKept
<1>3. CASE pc' = "hang" /\ kbc' = kbc /\ seen' = seen
  <2>1. Noted'
    <3>1. \A s \in Filled(kbc)' : s \in Slot(kbc'[s].entry.out)
      BY <1>1, <1>3, NotedIs DEF Filled
    <3> QED BY <1>3, <3>1 DEF Noted, Starting
  <2>2. Running'
    BY <1>1, <1>3, RunningKept DEF LoadPcs, Loop
  <2> QED BY <1>3, <2>1, <2>2 DEF VerifiesThisLoad
<1>4. CASE Accepts /\ pc' = "start" /\ kbc' = NoSlots /\ seen' = kbc
  <2>1. Noted'
    BY <1>4, NothingFilled DEF Noted, Filled, Starting
  <2>2. VerifiesThisLoad'
    <3>1. SlotsApart' => {seen'[s].entry : s \in Filled(seen')} = {e \in done' : Slot(e.out) # {}}
      BY <1>1, <1>2, <1>4, NotedIs
    <3> QED BY <3>1 DEF VerifiesThisLoad, Filled
  <2>3. ASSUME SlotsApart, NEW d \in type, Driven(d), NEW i \in DOMAIN table[d], Verified(d, i)
        PROVE  i \in DOMAIN mem[d] /\ mem[d][i].entry = table[d][i] /\ mem[d][i].whole
    <3> DEFINE e == table[d][i]
    <3>1. e \in done /\ Slot(e.out) # {} /\ d \in Devices
      BY <1>1, <2>3, NotedIs DEF Passed, Verified
    <3>2. e \in {kbc[s].entry : s \in Filled(kbc)}
      BY <1>1, <2>3, <3>1, NotedIs
    <3>3. Whole(e)
      BY <1>4, <3>2 DEF Accepts
    <3>4. PICK c \in Devices : \E j \in DOMAIN mem[c] : mem[c][j].entry = e /\ mem[c][j].whole
      BY <3>3 DEF Whole
    <3>5. PICK j \in DOMAIN mem[c] : mem[c][j].entry = e /\ mem[c][j].whole
      BY <3>4
    <3>6. mem[c][j] # Empty
      BY <3>5, EmptyIs
    <3>7. j \in DOMAIN table[c] /\ Wanted(c, j) /\ table[c][j] = e
      BY <3>5, <3>6, RegionIs, VerifyIs
    <3>8. Verified(c, j)
      BY <2>3, <3>7 DEF Verified
    <3>9. c = d /\ j = i
      BY <2>3, <3>1, <3>7, <3>8, ApartIs
    <3> QED BY <3>5, <3>9
  <2>4. Running'
    <3>1. \A d \in Devices : running'[d] = "on" /\ SlotsApart' => Intact(d)'
      <4> SUFFICES ASSUME NEW d \in Devices, running[d] = "on", SlotsApart PROVE Intact(d)'
        BY <1>1, <1>2
      <4>1. Intact(d)
        BY DEF VerifyInv, Running
      <4> QED BY <1>1, <1>2, <4>1 DEF Intact
    <3>2. SlotsApart' => \A d \in type' : Driven(d)' => Intact(d)'
      BY <1>1, <1>2, <2>3 DEF Intact
    <3>3. \A d \in type' : running'[d] # "on"
      BY <1>1, NotedIs
    <3> QED BY <1>4, <3>1, <3>2, <3>3 DEF Running, Starting
  <2> QED BY <2>1, <2>2, <2>4
<1> QED BY <1>3, <1>4 DEF VerifyAll

LEMMA StartLoadVerify ==
  ASSUME VerifyInv, Start PROVE Noted' /\ VerifiesThisLoad' /\ Running'
<1>1. /\ pc = "start" /\ pc' = "idle" /\ UNCHANGED <<tables, type, mem, kbc, done, seen>>
      /\ running' = [d \in Devices |-> IF d \in type /\ Driven(d) THEN "on" ELSE running[d]]
  BY DEF Start
<1>2. Noted'
  <2>1. kbc' = NoSlots /\ Filled(kbc') = {}
    BY <1>1, NothingFilled DEF VerifyInv, Noted
  <2> QED BY <1>1, <2>1 DEF Noted, Filled
<1>3. VerifiesThisLoad'
  BY <1>1 DEF VerifiesThisLoad
<1>4. Running'
  <2>1. ASSUME NEW d \in Devices, running'[d] = "on", SlotsApart' PROVE Intact(d)'
    <3>1. SlotsApart /\ table' = table /\ \A i : Verified(d, i)' <=> Verified(d, i)
      BY <1>1, <2>1, StaticKept
    <3>2. Intact(d)
      BY <1>1, <2>1, <3>1 DEF VerifyInv, Running
    <3> QED BY <1>1, <3>1, <3>2 DEF Intact
  <2> QED BY <1>1, <2>1 DEF Running, Starting
<1> QED BY <1>2, <1>3, <1>4

LEMMA StutterVerify ==
  ASSUME VerifyInv, UNCHANGED vars PROVE Noted' /\ VerifiesThisLoad' /\ Running'
<1>1. UNCHANGED <<tables, table, drv, ioctrl, pc, type, at, mem, kbc, running, done, seen>>
  BY DEF vars, tableVars, tables
<1>2. /\ (SlotsApart' <=> SlotsApart)
      /\ \A d, i : (Wanted(d, i)' <=> Wanted(d, i)) /\ (Verified(d, i)' <=> Verified(d, i))
      /\ \A d : Driven(d)' <=> Driven(d)
  BY <1>1, StaticKept
<1>3. /\ \A d, i : Passed(d, i)' <=> Passed(d, i)
      /\ Filled(kbc') = Filled(kbc) /\ Filled(seen') = Filled(seen)
  BY <1>1 DEF Passed
<1>4. Noted'
  <2>1. Noted /\ Filled(kbc)' = Filled(kbc)
    BY <1>1, VerifyIs DEF Filled
  <2>2. CASE pc \in Loop
    BY <1>1, <1>3, <2>2, NotedKept
  <2>3. CASE pc \notin Loop
    BY <1>1, <2>1, <2>3 DEF Noted, Loop
  <2> QED BY <2>2, <2>3
<1>5. VerifiesThisLoad'
  <2>1. VerifiesThisLoad /\ Filled(seen)' = Filled(seen)
    BY <1>1, VerifyIs DEF Filled
  <2> QED BY <1>1, <1>2, <2>1 DEF VerifiesThisLoad
<1>6. Running'
  <2>1. Running /\ \A d : Intact(d)' <=> Intact(d)
    BY <1>1, <1>2, VerifyIs DEF Intact
  <2> QED BY <1>1, <1>2, <2>1 DEF Running
<1> QED BY <1>4, <1>5, <1>6

LEMMA InitVerify == Init => VerifyInv
<1> SUFFICES ASSUME Init PROVE VerifyInv
  OBVIOUS
<1>1. /\ pc = "default" /\ kbc = NoSlots /\ seen = NoSlots
      /\ \A d \in Devices : running[d] # "on"
  BY DEF Init, TableInit
<1>2. Noted /\ VerifiesThisLoad /\ Running
  BY <1>1, NothingFilled DEF Noted, VerifiesThisLoad, Running, Starting
<1> QED BY <1>2, InitMemory DEF VerifyInv

LEMMA NextVerify == ASSUME VerifyInv, [Next]_vars PROVE VerifyInv'
<1>1. MemoryInv'
  BY NextMemory DEF VerifyInv
<1>2. CASE Startup
  BY <1>1, <1>2, StartupVerify DEF VerifyInv
<1>3. CASE BootModem \/ ReloadModem
  <2>1. PICK ty \in SUBSET Devices : Begin(ty)
    BY <1>3 DEF BootModem, ReloadModem, Devices
  <2> QED BY <1>1, <2>1, BeginVerify DEF VerifyInv
<1>4. CASE LoadModemImg
  BY <1>1, <1>4, UnlockVerify, StopVerify, VerdictVerify, StartLoadVerify, TableLoadedVerify,
     LoadDataVerify, FillVerify, LoadImageVerify DEF LoadModemImg, VerifyInv
<1>5. CASE UNCHANGED vars
  BY <1>1, <1>5, StutterVerify DEF VerifyInv
<1> QED BY <1>2, <1>3, <1>4, <1>5 DEF Next

LEMMA VerifyAlways == Spec => []VerifyInv
<1>1. Init => VerifyInv
  BY InitVerify
<1>2. VerifyInv /\ [Next]_vars => VerifyInv'
  BY NextVerify
<1> QED BY <1>1, <1>2, PTL DEF Spec

(***************************************************************************)
(* Copies fail unseen, but no device is started with an image that was not *)
(* copied whole, whatever loads there were before: what runs was found     *)
(* whole by secure_boot_verify_all, and only a load that stops it first    *)
(* writes to its regions again.                                            *)
(***************************************************************************)
THEOREM VerifiedBeforeItRuns == Spec => []RunsOnlyWhole
<1>1. ASSUME VerifyInv PROVE RunsOnlyWhole
  BY <1>1 DEF VerifyInv, Running, Intact, RunsOnlyWhole
<1> QED BY <1>1, VerifyAlways, PTL

(***************************************************************************)
(* What secure_boot_verify_all verifies is what this load put into         *)
(* kbc_table: nothing of it is missing and nothing is from an earlier load.*)
(***************************************************************************)
THEOREM WholeLoadIsVerified == Spec => []VerifiesThisLoad
<1>1. VerifyInv => VerifiesThisLoad
  BY DEF VerifyInv
<1> QED BY <1>1, VerifyAlways, PTL
=============================================================================
