---------------------------- MODULE MCSecureLoad ----------------------------
(* Boards for ImageTable and SecureLoad. *)
EXTENDS SecureLoad

AllNames == STRING

Both(v) == [d \in Devices |-> v]

NoHead == [readable |-> FALSE, magic |-> "other", regions |-> <<>>]
Heads == {NoHead, [NoHead EXCEPT !.readable = TRUE]} \cup
         [readable: {TRUE}, magic: {"old", "new"},
          regions: {<<>>, <<"modem">>, <<"ldsp", "modem", "bootcode", "fixnv">>}]

Scis == {<<>>} \cup [1..3 -> [bin: BOOLEAN, last: BOOLEAN]]

Old == [type |-> "LTE", gdsp |-> "gdsp", proc |-> Both(TRUE), ld |-> Both(Missing),
        doc |-> Both(<<>>), io |-> Both(FALSE), dst |-> Both(FALSE), head |-> NoHead,
        sci |-> <<>>]

\* boards without documents: every type, driver, ldinfo and head
NodesOfCp == {Missing, <<"modem", "ldsp">>, <<"dsp", "fixnv">>, <<"gdsp", "tgdsp">>}
OldBoards ==
  {[Old EXCEPT !.type = t, !.gdsp = g, !.proc["cp"] = p, !.ld = [sp |-> s, cp |-> c], !.head = h] :
     t \in {"TD", "LTE", "NR"}, g \in {"gdsp", "tgdsp"}, p \in BOOLEAN,
     s \in {Missing, <<"pm_sys">>}, c \in NodesOfCp,
     h \in {NoHead, [readable |-> TRUE, magic |-> "old", regions |-> <<"ldsp", "modem">>]}}

\* documents
Cnt(k) == [tag |-> "cnt", n |-> k]
Part(n, fs) == [tag |-> "partition", entry |-> Entry(n, n, fs, <<"xml", n>>)]
CpParts == <<Part("modem", {"SECURE", "MODEM"}), Part("bootcode", {"CODE", "MODEM"}),
             Part("ldsp", {"SECURE", "MODEM"}), Part("uboot", {"HEAD"})>>
SpParts == <<Part("pm_sys", {"SECURE", "SP"}), Part("cali_lib", {"CLR", "SP"})>>

CpDocs == {<<>>, <<Cnt(4)>> \o CpParts, <<Cnt(5)>> \o CpParts, <<Cnt(0)>> \o CpParts,
           <<Cnt(3)>> \o CpParts, <<Cnt(4), Cnt(0)>> \o CpParts,
           <<Cnt(2)>> \o SubSeq(CpParts, 1, 2) \o <<Cnt(2)>> \o SubSeq(CpParts, 3, 4),
           CpParts \o <<Cnt(4)>>}
SpDocs == {<<>>, <<Cnt(2)>> \o SpParts, <<Cnt(0)>> \o SpParts}

NewBoards ==
  {[Old EXCEPT !.proc = Both(p), !.doc = [cp |-> c, sp |-> s], !.dst = Both(TRUE),
               !.io = Both(i), !.head = h] :
     p \in BOOLEAN, c \in CpDocs, s \in SpDocs, i \in BOOLEAN, h \in Heads}

\* a modem partition in SCI format
SciBoards ==
  {[Old EXCEPT !.type = "TD", !.sci = hs,
               !.head = [readable |-> TRUE, magic |-> "new", regions |-> <<"modem">>]] :
     hs \in Scis}

AllBoards == OldBoards \cup NewBoards \cup SciBoards

Faults == [load |-> 2, copy |-> 1, footer |-> 1, refuse |-> 1]
=============================================================================
