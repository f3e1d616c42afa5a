------------------------- MODULE ClientTableProofs -------------------------
(***************************************************************************)
(* Proofs about ClientTable, for every size of the table, any number of    *)
(* connections and every budget of broadcasts, messages and hangups.       *)
(***************************************************************************)
EXTENDS ClientTable, Extrema, FiniteSetTheorems

LEMMA Sizes ==
  /\ N \in Nat /\ N >= 1 /\ MaxConns \in Nat /\ MaxConns >= 1
  /\ 1 \in Slots /\ N \in Slots
  /\ Fds = 1..MaxConns /\ Conns = 1..MaxConns /\ Slots = 1..N
  /\ NoFd \notin Fds /\ Closed \notin Conns
BY TableAssumption, ConnsAssumption DEF Slots, Fds, Conns, NoFd, Closed

(***************************************************************************)
(* Fewer connections than numbers: one of the numbers is free.             *)
(***************************************************************************)
LEMMA NumberIsFree ==
  ASSUME TypeOK, Numbering, accepted < MaxConns
  PROVE  LET n == Min({f \in Fds : file[f] = Closed}) IN n \in Fds /\ file[n] = Closed
<1>1. \E f \in Fds : file[f] = Closed
  <2> SUFFICES ASSUME \A f \in Fds : file[f] # Closed PROVE FALSE
    OBVIOUS
  <2>1. accepted \in Nat /\ MaxConns \in Nat /\ accepted \in Int /\ MaxConns \in Int /\ 1 \in Int
    BY Sizes DEF TypeOK
  <2>2. file \in [Fds -> 1..accepted]
    <3>1. ASSUME NEW f \in Fds PROVE file[f] \in 1..accepted
      <4>1. file[f] \in Conns /\ file[f] <= accepted
        BY DEF TypeOK, Numbering
      <4> QED BY <4>1, <2>1, Sizes
    <3> QED BY <3>1 DEF TypeOK
  <2>3. IsFiniteSet(Fds) /\ Cardinality(Fds) = MaxConns
    BY <2>1, Sizes, FS_Interval
  <2>4. IsFiniteSet(1..accepted) /\ Cardinality(1..accepted) = accepted
    BY <2>1, FS_Interval
  <2>5. Cardinality(1..accepted) < Cardinality(Fds)
    BY <2>1, <2>3, <2>4
  <2>6. \E f, g \in Fds : f # g /\ file[f] = file[g]
    BY <2>2, <2>3, <2>4, <2>5, FS_PigeonHole, Zenon
  <2> QED BY <2>6 DEF Numbering
<1> DEFINE S == {f \in Fds : file[f] = Closed}
<1>2. S \in SUBSET Nat /\ S # {}
  BY <1>1, Sizes
<1>3. Min(S) \in S
  <2> HIDE DEF S
  <2> QED BY <1>2, HasMin
<1> QED BY <1>3

LEMMA SpendsLeft ==
  ASSUME left \in [Events -> Nat], NEW e \in Events, Spend(e)
  PROVE  left' \in [Events -> Nat]
BY DEF Spend

\* Closing a file frees its number and changes nothing else.
LEMMA Closes ==
  ASSUME TypeOK, NEW f \in Fds \cup {NoFd}, Close(f)
  PROVE  /\ file' \in [Fds -> Conns \cup {Closed}]
         /\ \A g \in Fds : file'[g] \in {file[g], Closed}
         /\ f # NoFd => file'[f] = Closed
BY DEF TypeOK, Close, NoFd

LEMMA CloseKeepsNumbers ==
  ASSUME TypeOK, Numbering, accepted' = accepted, \A g \in Fds : file'[g] \in {file[g], Closed}
  PROVE  Numbering'
<1>1. Closed <= accepted
  BY DEF TypeOK, Closed
<1> QED BY <1>1 DEF Numbering

LEMMA DeliversType ==
  ASSUME TypeOK, NEW f \in Fds \cup {NoFd}, NEW s \in ModemStates, Delivers(f, s)
  PROVE  /\ file[f] \in Conns
         /\ heard' \in [Conns -> SUBSET ModemStates]
         /\ heard' = [heard EXCEPT ![file[f]] = @ \cup {s}]
         /\ last' \in [Conns -> ModemStates \cup {"nothing"}]
         /\ last' = [last EXCEPT ![file[f]] = s]
         /\ UNCHANGED overtaken
BY DEF TypeOK, Delivers, IsOpen

-----------------------------------------------------------------------------
(***************************************************************************)
(* TableInv is inductive.  What each thread's record may hold:             *)
(***************************************************************************)
AccType == [pc: {"accept", "scan", "greet", "write", "close", "fill"},
            n: Fds \cup {NoFd}, i: Slots, s: ModemStates]
BcType  == [pc: {"idle", "test", "write", "close", "clear"}, i: Slots, s: ModemStates]
RdType  == [pc: {"build", "select", "walk", "read", "close", "clear"},
            set: SUBSET (Fds \X Conns), ready: SUBSET Fds, num: Nat, i: 1..N + 1,
            nfd: Fds \cup {NoFd}]

LEMMA HeadsOfLoops == Waiting \in AccType /\ Idle \in BcType /\ Building \in RdType
<1>1. Waiting \in AccType
  BY Sizes DEF Waiting, AccType, ModemStates
<1>2. Idle \in BcType
  BY Sizes DEF Idle, BcType, ModemStates
<1>3. Building \in RdType
  <2>1. 1 \in 1..N + 1 /\ 0 \in Nat
    BY Sizes
  <2> QED BY <2>1 DEF Building, RdType
<1> QED BY <1>1, <1>2, <1>3

LEMMA ThreadTypes == TypeOK => acc \in AccType /\ bc \in BcType /\ rd \in RdType
BY DEF TypeOK, AccType, BcType, RdType

LEMMA NextSlotType == ASSUME TypeOK PROVE NextSlot \in BcType
<1>1. bc.i \in Slots /\ (bc.i # N => bc.i + 1 \in Slots)
  BY Sizes DEF TypeOK
<1> QED BY <1>1, HeadsOfLoops, ThreadTypes DEF NextSlot, BcType

LEMMA NextClientType == ASSUME TypeOK, rd.i \in Slots PROVE NextClient \in RdType
<1>1. rd.i + 1 \in 1..N + 1
  BY Sizes
<1> QED BY <1>1, ThreadTypes DEF NextClient, RdType

LEMMA TableInit == Init => TableInv
<1> SUFFICES ASSUME Init PROVE TableInv
  OBVIOUS
<1>1. acc = Waiting /\ bc = Idle /\ rd = Building
  BY DEF Init
<1>2. TypeOK
  <2>1. acc \in AccType /\ bc \in BcType /\ rd \in RdType
    BY <1>1, HeadsOfLoops
  <2>2. /\ table \in [Slots -> Fds \cup {NoFd}]
        /\ file \in [Fds -> Conns \cup {Closed}]
        /\ peer \in [Conns -> {"none", "up", "hungup"}]
        /\ heard \in [Conns -> SUBSET ModemStates]
        /\ last \in [Conns -> ModemStates \cup {"nothing"}]
        /\ unread \subseteq Conns /\ evictor \subseteq Conns
        /\ state \in ModemStates /\ left \in [Events -> Nat]
    BY BudgetAssumption DEF Init, Unheard, ModemStates
  <2>3. /\ overtaken \in BOOLEAN /\ blocked \in BOOLEAN /\ notified \in BOOLEAN
        /\ clash \in BOOLEAN /\ dead \in BOOLEAN
    BY Zenon DEF Init
  <2>4. accepted \in 0..MaxConns
    BY Sizes DEF Init
  <2> QED BY <2>1, <2>2, <2>3, <2>4 DEF TypeOK, AccType, BcType, RdType
<1>3. Numbering
  BY DEF Init, Numbering, Closed
<1>4. Accepting /\ Reading
  BY <1>1 DEF Accepting, Reading, Waiting, Building
<1> QED BY <1>2, <1>3, <1>4 DEF TableInv

LEMMA AcceptIs ==
  ASSUME TableInv, Accept
  PROVE  \E n \in Fds :
           /\ file[n] = Closed
           /\ acc.pc = "accept" /\ accepted' = accepted + 1 /\ accepted' \in Conns
           /\ file' = [file EXCEPT ![n] = accepted']
           /\ acc' = [acc EXCEPT !.pc = "scan", !.n = n, !.i = 1]
           /\ peer' = [peer EXCEPT ![accepted'] = "up"]
           /\ UNCHANGED <<table, unread, heard, last, overtaken, state, blocked, notified, bc,
                          rd, evictor, clash, dead, left>>
<1> DEFINE n == Min({f \in Fds : file[f] = Closed})
<1>0. TypeOK /\ Numbering
  BY DEF TableInv
<1>1. accepted < MaxConns /\ accepted' = accepted + 1
  BY DEF Accept
<1>2. n \in Fds /\ file[n] = Closed
  BY <1>0, <1>1, NumberIsFree
<1>3. accepted' \in Conns
  BY <1>0, <1>1, Sizes DEF TypeOK
<1>4. /\ acc.pc = "accept"
      /\ file' = [file EXCEPT ![n] = accepted']
      /\ acc' = [acc EXCEPT !.pc = "scan", !.n = n, !.i = 1]
      /\ peer' = [peer EXCEPT ![accepted'] = "up"]
      /\ UNCHANGED <<table, unread, heard, last, overtaken, state, blocked, notified, bc, rd,
                     evictor, clash, dead, left>>
  BY DEF Accept, At, told
<1> HIDE DEF n
<1> QED BY <1>1, <1>2, <1>3, <1>4

LEMMA AcceptKeeps == ASSUME TableInv, Accept PROVE TableInv'
<1>0. TypeOK /\ Numbering
  BY DEF TableInv
<1>1. PICK n \in Fds :
         /\ file[n] = Closed
         /\ acc.pc = "accept" /\ accepted' = accepted + 1 /\ accepted' \in Conns
         /\ file' = [file EXCEPT ![n] = accepted']
         /\ acc' = [acc EXCEPT !.pc = "scan", !.n = n, !.i = 1]
         /\ peer' = [peer EXCEPT ![accepted'] = "up"]
         /\ UNCHANGED <<table, unread, heard, last, overtaken, state, blocked, notified, bc, rd,
                        evictor, clash, dead, left>>
  BY AcceptIs
<1>4. TypeOK'
  <2>1. file' \in [Fds -> Conns \cup {Closed}] /\ peer' \in [Conns -> {"none", "up", "hungup"}]
    BY <1>0, <1>1 DEF TypeOK
  <2>2. acc' \in [pc: {"accept", "scan", "greet", "write", "close", "fill"},
                  n: Fds \cup {NoFd}, i: Slots, s: ModemStates]
    BY <1>0, <1>1, Sizes DEF TypeOK
  <2>3. accepted' \in 0..MaxConns
    BY <1>1, Sizes
  <2> QED BY <1>0, <1>1, <2>1, <2>2, <2>3 DEF TypeOK
<1>5. Numbering'
  <2>1. \A g \in Fds : file'[g] = IF g = n THEN accepted' ELSE file[g]
    BY <1>0, <1>1 DEF TypeOK
  <2>2. accepted \in Nat /\ accepted' = accepted + 1 /\ \A g \in Fds : file[g] \in Nat
    <3>1. accepted \in Nat /\ Closed \in Nat /\ \A c \in Conns : c \in Nat
      BY <1>0, Sizes DEF TypeOK, Closed
    <3>2. \A g \in Fds : file[g] \in Conns \cup {Closed}
      BY <1>0 DEF TypeOK
    <3> QED BY <1>1, <3>1, <3>2
  <2>3. \A g \in Fds : file[g] <= accepted /\ file[g] # accepted'
    BY <1>0, <2>2 DEF Numbering
  <2>4. \A f, g \in Fds : file'[f] # Closed /\ file'[f] = file'[g] => f = g
    BY <1>0, <2>1, <2>3 DEF Numbering
  <2>5. \A f \in Fds : file'[f] <= accepted'
    BY <2>1, <2>2, <2>3
  <2> QED BY <2>4, <2>5 DEF Numbering
<1>6. Accepting'
  <2>1. accepted' > 0
    BY <1>1, Sizes
  <2> QED BY <1>0, <1>1, <2>1 DEF TypeOK, Accepting
<1>7. Reading'
  BY <1>1 DEF TableInv, Reading
<1> QED BY <1>4, <1>5, <1>6, <1>7 DEF TableInv

(***************************************************************************)
(* Every other step opens no file, and acc does not leave its connection.  *)
(***************************************************************************)
LEMMA TableKept ==
  ASSUME TableInv, TypeOK', accepted' = accepted,
         \A g \in Fds : file'[g] \in {file[g], Closed},
         acc'.pc # "accept" => acc.pc # "accept" /\ acc'.n = acc.n,
         Reading'
  PROVE  TableInv'
<1>1. Numbering'
  BY CloseKeepsNumbers DEF TableInv
<1>2. Accepting'
  BY DEF TableInv, Accepting
<1> QED BY <1>1, <1>2 DEF TableInv

LEMMA ScanKeeps == ASSUME TableInv, Scan PROVE TableInv'
<1>0. TypeOK /\ Reading /\ acc.pc = "scan" /\ acc.n \in Fds /\ accepted > 0
  BY DEF TableInv, Scan, At, Accepting
<1>1. UNCHANGED <<file, peer, unread, heard, last, overtaken, state, blocked, notified, bc, rd,
                  accepted, clash, dead, left>>
  BY DEF Scan, clients, told
<1>2. table' \in [Slots -> Fds \cup {NoFd}]
  BY <1>0 DEF Scan, TypeOK
<1>3. /\ acc' \in [pc: {"accept", "scan", "greet", "write", "close", "fill"},
                   n: Fds \cup {NoFd}, i: Slots, s: ModemStates]
      /\ acc'.n = acc.n
  <2>1. acc.i \in Slots /\ (acc.i # N => acc.i + 1 \in Slots)
    BY <1>0, Sizes DEF TypeOK
  <2> QED BY <1>0, <2>1 DEF Scan, TypeOK
<1>4. evictor' \subseteq Conns
  <2>1. accepted \in Conns
    BY <1>0, Sizes DEF TypeOK
  <2> QED BY <1>0, <2>1 DEF Scan, TypeOK
<1>5. TypeOK'
  BY <1>0, <1>1, <1>2, <1>3, <1>4 DEF TypeOK
<1>6. Reading'
  BY <1>0, <1>1 DEF Reading
<1> QED BY <1>0, <1>1, <1>3, <1>5, <1>6, TableKept

LEMMA GreetKeeps == ASSUME TableInv, Greet PROVE TableInv'
<1>0. TypeOK /\ Reading /\ acc.pc = "greet"
  BY DEF TableInv, Greet, At
<1>1. /\ acc' = [acc EXCEPT !.pc = "write", !.s = state]
      /\ UNCHANGED <<table, file, peer, unread, heard, last, overtaken, state, blocked, bc, rd,
                     accepted, evictor, clash, dead, left>>
  BY DEF Greet, clients, told, history
<1>2. notified' \in BOOLEAN
  BY Zenon DEF Greet
<1>3. TypeOK' /\ acc'.n = acc.n
  BY <1>0, <1>1, <1>2 DEF TypeOK
<1>4. Reading'
  BY <1>0, <1>1 DEF Reading
<1> QED BY <1>0, <1>1, <1>3, <1>4, TableKept

LEMMA WriteStateKeeps == ASSUME TableInv, WriteState PROVE TableInv'
<1>0. TypeOK /\ Reading /\ acc.pc = "write" /\ acc.i \in Slots /\ acc.s \in ModemStates
  BY DEF TableInv, WriteState, At, TypeOK
<1>1. /\ acc' = Waiting
      /\ UNCHANGED <<table, file, peer, unread, state, blocked, notified, bc, rd, accepted,
                     evictor, clash, left>>
  BY DEF WriteState, clients, told, history
<1>2. /\ heard' \in [Conns -> SUBSET ModemStates] /\ dead' \in BOOLEAN
      /\ last' \in [Conns -> ModemStates \cup {"nothing"}] /\ UNCHANGED overtaken
  <2>0. table[acc.i] \in Fds \cup {NoFd} /\ acc.s \in ModemStates
    BY <1>0 DEF TypeOK
  <2>1. CASE Delivers(table[acc.i], acc.s) /\ UNCHANGED dead
    BY <1>0, <2>0, <2>1, DeliversType DEF TypeOK
  <2>2. CASE MayDie(table[acc.i]) /\ UNCHANGED <<heard, last, overtaken>>
    BY <1>0, <2>2 DEF TypeOK, MayDie
  <2> QED BY <2>1, <2>2 DEF WriteState, told
<1>3. acc' \in AccType
  BY <1>1, HeadsOfLoops
<1>4. TypeOK'
  BY <1>0, <1>1, <1>2, <1>3 DEF TypeOK, AccType
<1>5. Reading' /\ acc'.pc = "accept"
  BY <1>0, <1>1 DEF Reading, Waiting
<1> QED BY <1>0, <1>1, <1>4, <1>5, TableKept

LEMMA CloseLastKeeps == ASSUME TableInv, CloseLast PROVE TableInv'
<1>0. TypeOK /\ Reading /\ acc.pc = "close" /\ table[N] \in Fds \cup {NoFd}
  BY Sizes DEF TableInv, CloseLast, At, TypeOK
<1>1. /\ acc' = [acc EXCEPT !.pc = "fill"]
      /\ UNCHANGED <<table, peer, unread, heard, last, overtaken, state, blocked, notified, bc,
                     rd, accepted, evictor, clash, dead, left>>
  BY DEF CloseLast, clients, told, history
<1>2. file' \in [Fds -> Conns \cup {Closed}] /\ \A g \in Fds : file'[g] \in {file[g], Closed}
  BY <1>0, Closes DEF CloseLast
<1>3. TypeOK' /\ acc'.n = acc.n
  BY <1>0, <1>1, <1>2 DEF TypeOK
<1>4. Reading'
  BY <1>0, <1>1 DEF Reading
<1> QED BY <1>0, <1>1, <1>2, <1>3, <1>4, TableKept

LEMMA FillLastKeeps == ASSUME TableInv, FillLast PROVE TableInv'
<1>0. TypeOK /\ Reading
  BY DEF TableInv
<1>1. /\ acc' = Waiting /\ table' = [table EXCEPT ![N] = acc.n]
      /\ UNCHANGED <<file, peer, unread, heard, last, overtaken, state, blocked, bc, rd,
                     accepted, evictor, clash, dead, left>>
  BY DEF FillLast, clients, told, history
<1>2. notified' \in BOOLEAN
  BY Zenon DEF FillLast
<1>3. acc' \in AccType /\ table' \in [Slots -> Fds \cup {NoFd}]
  BY <1>0, <1>1, HeadsOfLoops DEF TypeOK
<1>4. TypeOK'
  BY <1>0, <1>1, <1>2, <1>3 DEF TypeOK, AccType
<1>5. Reading' /\ acc'.pc = "accept"
  BY <1>0, <1>1 DEF Reading, Waiting
<1> QED BY <1>0, <1>1, <1>4, <1>5, TableKept

-----------------------------------------------------------------------------
\* TableInv: the steps of bc and of the clients.
LEMMA OvertakenType == ASSUME NEW s, SetState(s) PROVE overtaken' \in BOOLEAN
BY Zenon DEF SetState, Overtakes

LEMMA BeginKeeps == ASSUME TableInv, NEW s \in {"ALIVE", "ASSERT"}, Begin(s) PROVE TableInv'
<1>0. TypeOK /\ Reading
  BY DEF TableInv
<1>1. /\ bc' = [pc |-> "test", i |-> 1, s |-> s] /\ state' = s /\ heard' = Unheard
      /\ UNCHANGED <<table, file, peer, unread, last, blocked, notified, acc, rd,
                     accepted, evictor, clash, dead>>
  BY DEF Begin, SetState, clients, history
<1>2. bc' \in BcType /\ state' \in ModemStates /\ heard' \in [Conns -> SUBSET ModemStates]
  BY <1>1, Sizes DEF BcType, ModemStates, Unheard
<1>3. left' \in [Events -> Nat] /\ overtaken' \in BOOLEAN
  BY <1>0, SpendsLeft, OvertakenType DEF Begin, Events, TypeOK
<1>4. TypeOK'
  BY <1>0, <1>1, <1>2, <1>3 DEF TypeOK, BcType
<1>5. Reading'
  BY <1>0, <1>1 DEF Reading
<1> QED BY <1>1, <1>4, <1>5, TableKept

LEMMA SetBlockedKeeps == ASSUME TableInv, SetBlocked PROVE TableInv'
<1>0. TypeOK /\ Reading
  BY DEF TableInv
<1>1. /\ state' = "ASSERT" /\ heard' = Unheard
      /\ UNCHANGED <<table, file, peer, unread, last, notified, acc, bc, rd, accepted,
                     evictor, clash, dead>>
  BY DEF SetBlocked, SetState, clients, history
<1>2. state' \in ModemStates /\ heard' \in [Conns -> SUBSET ModemStates]
  BY <1>1 DEF ModemStates, Unheard
<1>3. blocked' \in BOOLEAN
  BY Zenon DEF SetBlocked
<1>4. left' \in [Events -> Nat] /\ overtaken' \in BOOLEAN
  BY <1>0, SpendsLeft, OvertakenType DEF SetBlocked, Events, TypeOK
<1>5. TypeOK'
  BY <1>0, <1>1, <1>2, <1>3, <1>4 DEF TypeOK
<1>6. Reading'
  BY <1>0, <1>1 DEF Reading
<1> QED BY <1>1, <1>5, <1>6, TableKept

LEMMA InformBlockedKeeps == ASSUME TableInv, InformBlocked PROVE TableInv'
<1>0. TypeOK /\ Reading
  BY DEF TableInv
<1>1. /\ bc' = [pc |-> "test", i |-> 1, s |-> "ASSERT"]
      /\ UNCHANGED <<table, file, peer, unread, heard, last, overtaken, state, notified, acc,
                     rd, accepted, evictor, clash, dead, left>>
  BY DEF InformBlocked, clients, told, history
<1>2. bc' \in BcType
  BY <1>1, Sizes DEF BcType, ModemStates
<1>3. blocked' \in BOOLEAN
  BY Zenon DEF InformBlocked
<1>4. TypeOK'
  BY <1>0, <1>1, <1>2, <1>3 DEF TypeOK, BcType
<1>5. Reading'
  BY <1>0, <1>1 DEF Reading
<1> QED BY <1>1, <1>4, <1>5, TableKept

LEMMA TestSlotKeeps == ASSUME TableInv, TestSlot PROVE TableInv'
<1>0. TypeOK /\ Reading
  BY DEF TableInv
<1>1. UNCHANGED <<table, file, peer, unread, heard, last, overtaken, state, blocked, notified,
                  acc, rd, accepted, evictor, clash, dead, left>>
  BY DEF TestSlot, clients, told, history
<1>2. bc' \in BcType
  <2>1. [bc EXCEPT !.pc = "write"] \in BcType
    BY <1>0, ThreadTypes DEF BcType
  <2> QED BY <1>0, <2>1, NextSlotType DEF TestSlot
<1>3. TypeOK'
  BY <1>0, <1>1, <1>2 DEF TypeOK, BcType
<1>4. Reading'
  BY <1>0, <1>1 DEF Reading
<1> QED BY <1>1, <1>3, <1>4, TableKept

LEMMA WriteSlotKeeps == ASSUME TableInv, WriteSlot PROVE TableInv'
<1>0. TypeOK /\ Reading /\ bc.i \in Slots /\ bc.s \in ModemStates
  BY DEF TableInv, TypeOK
<1>1. UNCHANGED <<table, file, peer, unread, state, blocked, notified, acc, rd, accepted,
                  evictor, left>>
  BY DEF WriteSlot, clients, told
<1>2. /\ heard' \in [Conns -> SUBSET ModemStates] /\ bc' \in BcType
      /\ last' \in [Conns -> ModemStates \cup {"nothing"}] /\ UNCHANGED overtaken
      /\ dead' \in BOOLEAN /\ clash' \in BOOLEAN
  <2>0. table[bc.i] \in Fds \cup {NoFd} /\ bc.s \in ModemStates
    BY <1>0 DEF TypeOK
  <2>1. CASE Delivers(table[bc.i], bc.s) /\ bc' = NextSlot /\ UNCHANGED <<clash, dead>>
    <3>1. /\ heard' \in [Conns -> SUBSET ModemStates] /\ bc' \in BcType
          /\ last' \in [Conns -> ModemStates \cup {"nothing"}] /\ UNCHANGED overtaken
      BY <1>0, <2>0, <2>1, DeliversType, NextSlotType
    <3> QED BY <1>0, <2>1, <3>1 DEF TypeOK
  <2>2. CASE /\ MayDie(table[bc.i]) /\ bc' = [bc EXCEPT !.pc = "close"] /\ clash' = TRUE
             /\ UNCHANGED <<heard, last, overtaken>>
    <3>1. dead' \in BOOLEAN
      BY <2>2 DEF MayDie
    <3>2. bc' \in BcType
      BY <1>0, <2>2, ThreadTypes DEF BcType
    <3>3. clash' \in BOOLEAN
      BY <2>2, Zenon
    <3> QED BY <1>0, <2>2, <3>1, <3>2, <3>3 DEF TypeOK
  <2> QED BY <2>1, <2>2 DEF WriteSlot, told
<1>3. TypeOK'
  BY <1>0, <1>1, <1>2 DEF TypeOK, BcType
<1>4. Reading'
  BY <1>0, <1>1 DEF Reading
<1> QED BY <1>1, <1>3, <1>4, TableKept

LEMMA CloseSlotKeeps == ASSUME TableInv, CloseSlot PROVE TableInv'
<1>0. TypeOK /\ Reading /\ table[bc.i] \in Fds \cup {NoFd}
  BY DEF TableInv, TypeOK
<1>1. /\ bc' = [bc EXCEPT !.pc = "clear"]
      /\ UNCHANGED <<table, peer, unread, heard, last, overtaken, state, blocked, notified, acc,
                     rd, accepted, evictor, clash, dead, left>>
  BY DEF CloseSlot, clients, told, history
<1>2. file' \in [Fds -> Conns \cup {Closed}] /\ \A g \in Fds : file'[g] \in {file[g], Closed}
  BY <1>0, Closes DEF CloseSlot
<1>3. TypeOK'
  BY <1>0, <1>1, <1>2 DEF TypeOK
<1>4. Reading'
  BY <1>0, <1>1 DEF Reading
<1> QED BY <1>1, <1>2, <1>3, <1>4, TableKept

LEMMA ClearSlotKeeps == ASSUME TableInv, ClearSlot PROVE TableInv'
<1>0. TypeOK /\ Reading
  BY DEF TableInv
<1>1. /\ bc' = NextSlot /\ table' = [table EXCEPT ![bc.i] = NoFd]
      /\ UNCHANGED <<file, peer, unread, heard, last, overtaken, state, blocked, notified, acc,
                     rd, accepted, evictor, clash, dead, left>>
  BY DEF ClearSlot, clients, told, history
<1>2. bc' \in BcType /\ table' \in [Slots -> Fds \cup {NoFd}]
  BY <1>0, <1>1, NextSlotType DEF TypeOK
<1>3. TypeOK'
  BY <1>0, <1>1, <1>2 DEF TypeOK, BcType
<1>4. Reading'
  BY <1>0, <1>1 DEF Reading
<1> QED BY <1>1, <1>3, <1>4, TableKept

LEMMA SayKeeps == ASSUME TableInv, NEW c \in Conns, Say(c) PROVE TableInv'
<1>0. TypeOK /\ Reading
  BY DEF TableInv
<1>1. UNCHANGED <<table, file, peer, heard, last, overtaken, state, blocked, notified, acc, bc,
                  rd, accepted, evictor, clash, dead>> /\ unread' = unread \cup {c}
  BY DEF Say, Keep, told, history
<1>2. left' \in [Events -> Nat]
  BY <1>0, SpendsLeft DEF Say, Events, TypeOK
<1>3. TypeOK'
  BY <1>0, <1>1, <1>2 DEF TypeOK
<1>4. Reading'
  BY <1>0, <1>1 DEF Reading
<1> QED BY <1>1, <1>3, <1>4, TableKept

LEMMA HangupKeeps == ASSUME TableInv, NEW c \in Conns, Hangup(c) PROVE TableInv'
<1>0. TypeOK /\ Reading
  BY DEF TableInv
<1>1. /\ UNCHANGED <<table, file, unread, heard, last, overtaken, state, blocked, notified, acc,
                     bc, rd, accepted, evictor, clash, dead>>
      /\ peer' = [peer EXCEPT ![c] = "hungup"]
  BY DEF Hangup, Keep, told, history
<1>2. left' \in [Events -> Nat]
  BY <1>0, SpendsLeft DEF Hangup, Events, TypeOK
<1>3. TypeOK'
  BY <1>0, <1>1, <1>2 DEF TypeOK
<1>4. Reading'
  BY <1>0, <1>1 DEF Reading
<1> QED BY <1>1, <1>3, <1>4, TableKept

-----------------------------------------------------------------------------
\* TableInv: the steps of rd.
LEMMA BuildSetKeeps == ASSUME TableInv, BuildSet PROVE TableInv'
<1> DEFINE fs == {table[i] : i \in Slots} \ {NoFd}
<1>0. TypeOK
  BY DEF TableInv
<1>1. /\ rd' = [rd EXCEPT !.pc = "select", !.set = {<<f, file[f]>> : f \in fs}]
      /\ \A f \in fs : IsOpen(f)
      /\ UNCHANGED <<table, file, peer, unread, heard, last, overtaken, state, blocked,
                     notified, acc, bc, accepted, evictor, clash, dead, left>>
  BY DEF BuildSet, clients, told, history
<1>2. {<<f, file[f]>> : f \in fs} \in SUBSET (Fds \X Conns)
  <2>1. \A f \in fs : f \in Fds
    BY <1>0 DEF TypeOK
  <2>2. \A f \in fs : file[f] \in Conns
    BY <1>0, <1>1, <2>1 DEF TypeOK, IsOpen
  <2> HIDE DEF fs
  <2> QED BY <2>1, <2>2
<1> HIDE DEF fs
<1>3. rd' \in RdType /\ rd'.pc = "select"
  BY <1>0, <1>1, <1>2, ThreadTypes DEF RdType
<1>4. TypeOK'
  <2>1. UNCHANGED <<table, file, peer, unread, heard, last, overtaken, state, blocked,
                    notified, acc, bc, accepted, evictor, clash, dead, left>>
    BY <1>1
  <2>2. rd' \in RdType
    BY <1>3
  <2> QED BY <1>0, <2>1, <2>2 DEF TypeOK, RdType
<1>5. Reading'
  BY <1>3 DEF Reading
<1> QED BY <1>1, <1>4, <1>5, TableKept

LEMMA SelectKeeps == ASSUME TableInv, Select PROVE TableInv'
<1> DEFINE ready == {p[1] : p \in {q \in rd.set : Readable(q[2])}}
           woken == Cardinality(ready) + IF notified THEN 1 ELSE 0
<1>0. TypeOK
  BY DEF TableInv
<1>1. /\ rd' = IF ready = {} THEN Building
               ELSE [Building EXCEPT !.pc = "walk", !.ready = ready, !.num = woken]
      /\ UNCHANGED <<table, file, peer, unread, heard, last, overtaken, state, blocked, acc, bc,
                     accepted, evictor, clash, dead, left>>
  BY DEF Select, clients, told, history
<1>2. ready \subseteq Fds
  BY <1>0 DEF TypeOK
<1>3. woken \in Nat
  <2>1. IsFiniteSet(Fds)
    BY Sizes, FS_Interval
  <2>2. Cardinality(ready) \in Nat
    <3> HIDE DEF ready
    <3> QED BY <1>2, <2>1, FS_Subset, FS_CardinalityType
  <2> HIDE DEF ready
  <2> QED BY <2>2
<1> HIDE DEF ready, woken
<1>4. rd' \in RdType /\ rd'.pc \in {"build", "walk"}
  BY <1>1, <1>2, <1>3, HeadsOfLoops DEF RdType, Building
<1>5. notified' \in BOOLEAN
  BY Zenon DEF Select
<1>6. TypeOK'
  BY <1>0, <1>1, <1>4, <1>5 DEF TypeOK, RdType
<1>7. Reading'
  BY <1>4 DEF Reading
<1> QED BY <1>1, <1>6, <1>7, TableKept

LEMMA WalkIs ==
  ASSUME TypeOK, Walk
  PROVE  /\ UNCHANGED <<table, file, peer, unread, heard, last, overtaken, state, blocked,
                        notified, acc, bc, accepted, evictor, clash, dead, left>>
         /\ \/ rd' = Building
            \/ \E i \in Slots :
                 /\ table[i] \in Fds
                 /\ rd.num - 1 \in Nat
                 /\ rd' = [rd EXCEPT !.pc = "read", !.i = i, !.nfd = table[i], !.num = @ - 1]
<1> DEFINE todo == {i \in rd.i..N : table[i] \in rd.ready}
<1>1. /\ rd' = IF todo = {} \/ rd.num = 0 THEN Building
               ELSE [rd EXCEPT !.pc = "read", !.i = Min(todo), !.nfd = table[Min(todo)],
                               !.num = @ - 1]
      /\ UNCHANGED <<table, file, peer, unread, heard, last, overtaken, state, blocked,
                     notified, acc, bc, accepted, evictor, clash, dead, left>>
  BY DEF Walk, clients, told, history
<1>2. ASSUME todo # {}, rd.num # 0
      PROVE  \E i \in Slots :
               /\ table[i] \in Fds
               /\ rd.num - 1 \in Nat
               /\ rd' = [rd EXCEPT !.pc = "read", !.i = i, !.nfd = table[i], !.num = @ - 1]
  <2>1. rd.i \in 1..N + 1 /\ rd.ready \subseteq Fds /\ rd.num \in Nat
    BY DEF TypeOK
  <2>2. todo \in SUBSET Slots /\ todo \in SUBSET Nat
    BY <2>1, Sizes
  <2>3. Min(todo) \in todo
    <3> HIDE DEF todo
    <3> QED BY <1>2, <2>2, HasMin
  <2>4. Min(todo) \in Slots /\ table[Min(todo)] \in Fds
    BY <2>1, <2>2, <2>3
  <2>5. rd.num - 1 \in Nat
    BY <1>2, <2>1
  <2> HIDE DEF todo
  <2> QED BY <1>1, <1>2, <2>4, <2>5
<1> HIDE DEF todo
<1> QED BY <1>1, <1>2

LEMMA WalkTo ==
  ASSUME TypeOK, Walk
  PROVE  rd'.pc = "build" \/ (rd'.pc = "read" /\ table[rd'.i] \in Fds)
<1>1. CASE rd' = Building
  <2>1. Building.pc = "build"
    BY DEF Building
  <2> QED BY <1>1, <2>1
<1>2. CASE \E i \in Slots :
             /\ table[i] \in Fds
             /\ rd' = [rd EXCEPT !.pc = "read", !.i = i, !.nfd = table[i], !.num = @ - 1]
  <2>1. PICK i \in Slots :
             /\ table[i] \in Fds
             /\ rd' = [rd EXCEPT !.pc = "read", !.i = i, !.nfd = table[i], !.num = @ - 1]
    BY <1>2
  <2>2. rd'.pc = "read" /\ rd'.i = i
    BY <2>1, ThreadTypes DEF RdType
  <2> QED BY <2>1, <2>2
<1> QED BY <1>1, <1>2, WalkIs

LEMMA WalkKeeps == ASSUME TableInv, Walk PROVE TableInv'
<1>0. TypeOK
  BY DEF TableInv
<1>1. /\ UNCHANGED <<table, file, peer, unread, heard, last, overtaken, state, blocked,
                     notified, acc, bc, accepted, evictor, clash, dead, left>>
      /\ rd' \in RdType /\ Reading'
  <2>1. CASE rd' = Building
    BY <1>0, <2>1, WalkIs, HeadsOfLoops DEF Reading, Building
  <2>2. CASE \E i \in Slots :
                 /\ table[i] \in Fds
                 /\ rd.num - 1 \in Nat
                 /\ rd' = [rd EXCEPT !.pc = "read", !.i = i, !.nfd = table[i], !.num = @ - 1]
    <3>1. PICK i \in Slots :
                 /\ table[i] \in Fds
                 /\ rd.num - 1 \in Nat
                 /\ rd' = [rd EXCEPT !.pc = "read", !.i = i, !.nfd = table[i], !.num = @ - 1]
      BY <2>2
    <3>2. i \in 1..N + 1
      BY Sizes
    <3>3. rd' \in RdType /\ rd'.i = i
      BY <1>0, <3>1, <3>2, ThreadTypes DEF RdType
    <3> QED BY <1>0, <3>3, WalkIs DEF Reading
  <2> QED BY <1>0, <2>1, <2>2, WalkIs
<1>2. TypeOK'
  BY <1>0, <1>1 DEF TypeOK, RdType
<1> QED BY <1>1, <1>2, TableKept

LEMMA ReadKeeps == ASSUME TableInv, Read PROVE TableInv'
<1>0. TypeOK /\ rd.pc = "read" /\ rd.i \in Slots
  BY DEF TableInv, Read, At, Reading
<1>1. UNCHANGED <<table, file, peer, heard, last, overtaken, state, blocked, notified, acc, bc,
                  accepted, evictor, clash, dead, left>>
  BY DEF Read, told, history
<1>2. unread' \subseteq Conns
  BY <1>0 DEF Read, TypeOK
<1>3. rd' \in RdType /\ Reading'
  <2>1. CASE rd' = NextClient
    BY <1>0, <2>1, NextClientType, ThreadTypes DEF Reading, NextClient, RdType
  <2>2. CASE rd' = [rd EXCEPT !.pc = "close"]
    BY <1>0, <2>2, ThreadTypes DEF Reading, RdType
  <2> QED BY <2>1, <2>2 DEF Read
<1>4. TypeOK'
  BY <1>0, <1>1, <1>2, <1>3 DEF TypeOK, RdType
<1> QED BY <1>1, <1>3, <1>4, TableKept

LEMMA CloseReadKeeps == ASSUME TableInv, CloseRead PROVE TableInv'
<1>0. TypeOK /\ rd.pc = "close" /\ rd.i \in Slots /\ table[rd.i] \in Fds \cup {NoFd}
  BY DEF TableInv, CloseRead, At, Reading, TypeOK
<1>1. /\ rd' = [rd EXCEPT !.pc = "clear"]
      /\ UNCHANGED <<table, peer, unread, heard, last, overtaken, state, blocked, notified, acc,
                     bc, accepted, evictor, clash, dead, left>>
  BY DEF CloseRead, clients, told, history
<1>2. file' \in [Fds -> Conns \cup {Closed}] /\ \A g \in Fds : file'[g] \in {file[g], Closed}
  BY <1>0, Closes DEF CloseRead
<1>3. TypeOK' /\ Reading'
  BY <1>0, <1>1, <1>2 DEF TypeOK, Reading
<1> QED BY <1>1, <1>2, <1>3, TableKept

LEMMA ClearReadKeeps == ASSUME TableInv, ClearRead PROVE TableInv'
<1>0. TypeOK /\ rd.i \in Slots
  BY DEF TableInv, ClearRead, At, Reading
<1>1. /\ rd' = NextClient /\ table' = [table EXCEPT ![rd.i] = NoFd]
      /\ UNCHANGED <<file, peer, unread, heard, last, overtaken, state, blocked, notified, acc,
                     bc, accepted, evictor, clash, dead, left>>
  BY DEF ClearRead, clients, told, history
<1>2. rd' \in RdType /\ rd'.pc = "walk" /\ table' \in [Slots -> Fds \cup {NoFd}]
  BY <1>0, <1>1, NextClientType, ThreadTypes DEF TypeOK, NextClient, RdType
<1>3. TypeOK'
  BY <1>0, <1>1, <1>2 DEF TypeOK, RdType
<1>4. Reading'
  BY <1>2 DEF Reading
<1> QED BY <1>1, <1>3, <1>4, TableKept

LEMMA TableKeeps == TableInv /\ [Next]_vars => TableInv'
<1> SUFFICES ASSUME TableInv, [Next]_vars PROVE TableInv'
  OBVIOUS
<1>1. CASE SetupClientsConnect
  BY <1>1, AcceptKeeps, ScanKeeps, GreetKeeps, WriteStateKeeps, CloseLastKeeps, FillLastKeeps
  DEF SetupClientsConnect
<1>2. CASE \E s \in {"ALIVE", "ASSERT"} : Begin(s)
  BY <1>2, BeginKeeps
<1>3. CASE SetBlocked
  BY <1>3, SetBlockedKeeps
<1>4. CASE WriteDataToClients
  BY <1>4, InformBlockedKeeps, TestSlotKeeps, WriteSlotKeeps, CloseSlotKeeps, ClearSlotKeeps
  DEF WriteDataToClients
<1>5. CASE ReadThread
  BY <1>5, BuildSetKeeps, SelectKeeps, WalkKeeps, ReadKeeps, CloseReadKeeps, ClearReadKeeps
  DEF ReadThread
<1>6. CASE \E c \in Conns : Say(c) \/ Hangup(c)
  BY <1>6, SayKeeps, HangupKeeps
<1>7. CASE UNCHANGED vars
  BY <1>7 DEF vars, TableInv, TypeOK, Numbering, Accepting, Reading
<1> QED BY <1>1, <1>2, <1>3, <1>4, <1>5, <1>6, <1>7 DEF Next

(***************************************************************************)
(* The threads of modem_connect.c index s_clientFd only within the table   *)
(* and hold only what the types say, in every interleaving: the walks of   *)
(* modem_write_data_to_clients and of modem_ctrl_read_thread end at the    *)
(* last slot, and a connection that is accepted always finds a number.     *)
(***************************************************************************)
THEOREM TypeCorrect == Spec => []TypeOK
<1>1. TableInv => TypeOK
  BY DEF TableInv
<1> QED BY TableInit, TableKeeps, <1>1, PTL DEF Spec

-----------------------------------------------------------------------------
(***************************************************************************)
(* Watched is inductive.  A step that lets rd sleep on may only close      *)
(* files, clear slots and fill slots with the number of acc's connection.  *)
(***************************************************************************)
Unreported == {"scan", "greet", "close", "fill"}

LEMMA StillWatched ==
  ASSUME Watched, rd' = rd, notified' = notified,
         acc.pc \in Unreported => acc'.pc \in Unreported /\ acc'.n = acc.n,
         \A i \in Slots : IsOpen(table[i])' =>
           \/ IsOpen(table[i]) /\ table'[i] = table[i] /\ file'[table'[i]] = file[table[i]]
           \/ acc'.pc \in Unreported /\ table'[i] = acc'.n
  PROVE  Watched'
BY DEF Watched, Unreported

LEMMA WatchedSame ==
  ASSUME Watched, UNCHANGED <<table, file, acc, rd, notified>>
  PROVE  Watched'
BY DEF Watched, IsOpen

LEMMA WatchedAcc == ASSUME TableInv, Watched, SetupClientsConnect PROVE Watched'
<1>0. TypeOK
  BY DEF TableInv
<1>1. CASE Accept
  <2>1. PICK n \in Fds :
         /\ file[n] = Closed
         /\ acc.pc = "accept" /\ accepted' = accepted + 1 /\ accepted' \in Conns
         /\ file' = [file EXCEPT ![n] = accepted']
         /\ acc' = [acc EXCEPT !.pc = "scan", !.n = n, !.i = 1]
         /\ peer' = [peer EXCEPT ![accepted'] = "up"]
         /\ UNCHANGED <<table, unread, heard, last, overtaken, state, blocked, notified, bc, rd,
                        evictor, clash, dead, left>>
    BY <1>1, AcceptIs
  <2>2. acc'.pc = "scan" /\ acc'.n = n
    BY <1>0, <2>1 DEF TypeOK
  <2>3. \A g \in Fds : g # n => file'[g] = file[g]
    BY <1>0, <2>1 DEF TypeOK
  <2>4. \A i \in Slots : table[i] \in Fds \cup {NoFd}
    BY <1>0 DEF TypeOK
  <2>5. \A i \in Slots : IsOpen(table[i])' =>
           \/ IsOpen(table[i]) /\ table'[i] = table[i] /\ file'[table'[i]] = file[table[i]]
           \/ acc'.pc \in Unreported /\ table'[i] = acc'.n
    BY <2>1, <2>2, <2>3, <2>4 DEF IsOpen, Unreported
  <2> QED BY <2>1, <2>5, StillWatched DEF Unreported
<1>2. CASE Scan
  <2>1. acc.pc = "scan" /\ acc.i \in Slots /\ UNCHANGED <<file, rd, notified>>
    BY <1>0, <1>2 DEF Scan, At, TypeOK
  <2>2. acc'.pc \in Unreported /\ acc'.n = acc.n
    BY <1>0, <1>2 DEF Scan, At, TypeOK, Unreported
  <2>3. \A i \in Slots : table'[i] = table[i] \/ table'[i] = acc.n
    BY <1>0, <1>2 DEF Scan, TypeOK
  <2>4. \A i \in Slots : IsOpen(table[i])' =>
           \/ IsOpen(table[i]) /\ table'[i] = table[i] /\ file'[table'[i]] = file[table[i]]
           \/ acc'.pc \in Unreported /\ table'[i] = acc'.n
    BY <2>1, <2>2, <2>3 DEF IsOpen
  <2> QED BY <2>1, <2>2, <2>4, StillWatched
<1>3. CASE Greet \/ FillLast
  BY <1>3 DEF Greet, FillLast, Watched
<1>4. CASE WriteState
  <2>1. acc.pc = "write" /\ UNCHANGED <<table, file, rd, notified>>
    BY <1>4 DEF WriteState, At
  <2> QED BY <2>1, StillWatched DEF Unreported, IsOpen
<1>5. CASE CloseLast
  <2>1. acc.pc = "close" /\ UNCHANGED <<table, rd, notified>>
    BY <1>5 DEF CloseLast, At
  <2>2. acc'.pc \in Unreported /\ acc'.n = acc.n
    BY <1>0, <1>5 DEF CloseLast, TypeOK, Unreported
  <2>3. \A g \in Fds : file'[g] \in {file[g], Closed}
    BY <1>0, <1>5, Sizes, Closes DEF CloseLast, TypeOK
  <2>4. \A i \in Slots : table[i] \in Fds \cup {NoFd}
    BY <1>0 DEF TypeOK
  <2> QED BY <2>1, <2>2, <2>3, <2>4, StillWatched DEF IsOpen
<1> QED BY <1>1, <1>2, <1>3, <1>4, <1>5 DEF SetupClientsConnect

LEMMA WatchedBc == ASSUME TableInv, Watched, WriteDataToClients PROVE Watched'
<1>0. TypeOK
  BY DEF TableInv
<1>1. CASE InformBlocked \/ TestSlot \/ WriteSlot
  BY <1>1, WatchedSame DEF InformBlocked, TestSlot, WriteSlot
<1>2. CASE CloseSlot
  <2>1. UNCHANGED <<table, rd, notified, acc>>
    BY <1>2 DEF CloseSlot
  <2>2. bc.i \in Slots /\ \A i \in Slots : table[i] \in Fds \cup {NoFd}
    BY <1>0 DEF TypeOK
  <2>3. \A g \in Fds : file'[g] \in {file[g], Closed}
    BY <1>0, <1>2, <2>2, Closes DEF CloseSlot
  <2> QED BY <2>1, <2>2, <2>3, StillWatched DEF IsOpen
<1>3. CASE ClearSlot
  <2>1. UNCHANGED <<file, rd, notified, acc>>
    BY <1>3 DEF ClearSlot
  <2>2. \A i \in Slots : table'[i] \in {table[i], NoFd}
    BY <1>0, <1>3 DEF ClearSlot, TypeOK
  <2> QED BY <2>1, <2>2, StillWatched DEF IsOpen
<1> QED BY <1>1, <1>2, <1>3 DEF WriteDataToClients

LEMMA WatchedRd == ASSUME TableInv, Watched, ReadThread PROVE Watched'
<1>0. TypeOK
  BY DEF TableInv
<1>1. CASE BuildSet
  <2>1. /\ UNCHANGED <<table, file, notified, acc>>
        /\ rd'.set = {<<f, file[f]>> : f \in {table[i] : i \in Slots} \ {NoFd}}
    BY <1>0, <1>1 DEF BuildSet, TypeOK
  <2>2. \A i \in Slots : table[i] # NoFd => <<table[i], file[table[i]]>> \in rd'.set
    BY <2>1
  <2> QED BY <2>1, <2>2 DEF Watched, IsOpen
<1>2. CASE Select
  <2>1. rd'.pc \in {"build", "walk"}
    BY <1>2 DEF Select, Building
  <2> QED BY <2>1 DEF Watched
<1>3. CASE Walk
  <2>1. rd'.pc \in {"build", "read"}
    BY <1>0, <1>3, WalkTo
  <2> QED BY <2>1 DEF Watched
<1>4. CASE Read
  <2>1. rd'.pc \in {"walk", "close"}
    BY <1>0, <1>4 DEF Read, NextClient, TypeOK
  <2> QED BY <2>1 DEF Watched
<1>5. CASE CloseRead \/ ClearRead
  <2>1. rd'.pc \in {"walk", "clear"}
    BY <1>0, <1>5 DEF CloseRead, ClearRead, NextClient, TypeOK
  <2> QED BY <2>1 DEF Watched
<1> QED BY <1>1, <1>2, <1>3, <1>4, <1>5 DEF ReadThread

(***************************************************************************)
(* modem_ctrl_read_thread never sleeps in select past a client: whenever   *)
(* the notify pipe is empty and modem_setup_clients_connect is back in     *)
(* accept, the set select waits for holds every open connection of         *)
(* s_clientFd, through evictions and numbers that were closed and given to *)
(* another connection under the sleeping select.                           *)
(***************************************************************************)
THEOREM EveryClientIsHeard == Spec => []EveryClientIsWatched
<1>1. Init => TableInv /\ Watched
  <2>1. Init => Watched
    BY DEF Init, Watched, Building
  <2> QED BY <2>1, TableInit
<1>2. TableInv /\ Watched /\ [Next]_vars => (TableInv /\ Watched)'
  <2> SUFFICES ASSUME TableInv, Watched, [Next]_vars PROVE Watched'
    BY TableKeeps
  <2>1. CASE SetupClientsConnect
    BY <2>1, WatchedAcc
  <2>2. CASE WriteDataToClients
    BY <2>2, WatchedBc
  <2>3. CASE ReadThread
    BY <2>3, WatchedRd
  <2>4. CASE \/ \E s \in {"ALIVE", "ASSERT"} : Begin(s)
             \/ SetBlocked
             \/ \E c \in Conns : Say(c) \/ Hangup(c)
             \/ UNCHANGED vars
    <3>1. UNCHANGED <<table, file, acc, rd, notified>>
      BY <2>4 DEF Begin, SetBlocked, Say, Hangup, Keep, vars
    <3> QED BY <3>1, WatchedSame
  <2> QED BY <2>1, <2>2, <2>3, <2>4 DEF Next
<1>3. TableInv /\ Watched => EveryClientIsWatched
  BY DEF Watched, EveryClientIsWatched
<1> QED BY <1>1, <1>2, <1>3, PTL DEF Spec

-----------------------------------------------------------------------------
(***************************************************************************)
(* Slotted is inductive.                                                   *)
(***************************************************************************)
LEMMA SlottedSame ==
  ASSUME Slotted, UNCHANGED <<table, file, acc, rd, accepted, evictor, clash>>,
         ~clash => bc'.pc \notin {"close", "clear"}
  PROVE  Slotted'
BY DEF Slotted

LEMMA SlottedAcc == ASSUME TableInv, Slotted, SetupClientsConnect PROVE Slotted'
<1>0. TypeOK /\ Accepting /\ Reading
  BY DEF TableInv
<1> SUFFICES ASSUME ~clash' PROVE Slotted'
  BY DEF Slotted
<1>1. ~clash /\ bc' = bc /\ rd' = rd
  BY DEF SetupClientsConnect, Accept, Scan, Greet, WriteState, CloseLast, FillLast, history
<1>2. CASE Accept
  <2>1. acc'.pc = "scan" /\ table' = table
    BY <1>0, <1>2 DEF Accept, TypeOK
  <2> QED BY <1>1, <2>1 DEF Slotted
<1>3. CASE Scan
  <2>0. acc.pc = "scan" /\ acc.i \in Slots /\ acc.n \in Fds /\ acc.n # NoFd
    BY <1>0, <1>3, Sizes DEF Scan, At, TypeOK, Accepting
  <2>1. UNCHANGED <<file, accepted, rd>>
    BY <1>3 DEF Scan
  <2>2. CASE table[acc.i] = NoFd
    <3>1. acc'.pc = "greet" /\ acc'.i = acc.i /\ acc'.n = acc.n
      BY <1>0, <1>3, <2>2 DEF Scan, TypeOK
    <3>2. table'[acc.i] = acc.n /\ \A i \in Slots : table'[i] \in {table[i], acc.n}
      BY <1>0, <1>3, <2>0, <2>2 DEF Scan, TypeOK
    <3>3. rd.pc \in {"read", "close", "clear"} => table[rd.i] # NoFd /\ table'[rd.i] # NoFd
      BY <1>0, <1>1, <2>0, <3>2 DEF Slotted, Reading
    <3> QED BY <1>1, <2>1, <2>2, <3>1, <3>2, <3>3 DEF Slotted
  <2>3. CASE table[acc.i] # NoFd
    <3>1. /\ table' = table
          /\ \/ acc'.pc = "close" /\ accepted \in evictor'
             \/ acc'.pc = "scan"
      BY <1>0, <1>3, <2>0, <2>3 DEF Scan, TypeOK
    <3> QED BY <1>1, <2>1, <3>1 DEF Slotted
  <2> QED BY <2>2, <2>3
<1>4. CASE Greet
  <2>1. acc.pc = "greet" /\ UNCHANGED <<table, file, rd>>
    BY <1>4 DEF Greet, At
  <2>2. acc'.pc = "write" /\ acc'.i = acc.i /\ acc'.n = acc.n
    BY <1>0, <1>4 DEF Greet, TypeOK
  <2> QED BY <1>1, <2>1, <2>2 DEF Slotted
<1>5. CASE WriteState
  <2>1. acc'.pc = "accept" /\ UNCHANGED <<table, rd>>
    BY <1>5 DEF WriteState, Waiting
  <2> QED BY <1>1, <2>1 DEF Slotted
<1>6. CASE CloseLast
  <2>1. acc.pc = "close" /\ UNCHANGED <<table, rd, accepted, evictor>>
    BY <1>6 DEF CloseLast, At, history
  <2>2. acc'.pc = "fill"
    BY <1>0, <1>6 DEF CloseLast, TypeOK
  <2> QED BY <1>1, <2>1, <2>2 DEF Slotted
<1>7. CASE FillLast
  <2>1. acc.pc = "fill" /\ acc.n \in Fds /\ acc.n # NoFd
    BY <1>0, <1>7, Sizes DEF FillLast, At, Accepting
  <2>2. \A i \in Slots : table'[i] \in {table[i], acc.n}
    BY <1>0, <1>7 DEF FillLast, TypeOK
  <2>3. acc'.pc = "accept"
    BY <1>7 DEF FillLast, Waiting
  <2>4. rd.pc \in {"read", "close", "clear"} => table'[rd.i] # NoFd
    BY <1>0, <1>1, <2>1, <2>2 DEF Slotted, Reading
  <2> QED BY <1>1, <2>3, <2>4 DEF Slotted
<1> QED BY <1>2, <1>3, <1>4, <1>5, <1>6, <1>7 DEF SetupClientsConnect

LEMMA NextSlotPc == ASSUME TypeOK PROVE NextSlot.pc \in {"idle", "test"}
BY DEF NextSlot, Idle, TypeOK

LEMMA SlottedBc == ASSUME TableInv, Slotted, WriteDataToClients PROVE Slotted'
<1>0. TypeOK
  BY DEF TableInv
<1>1. CASE InformBlocked
  <2>1. /\ bc'.pc = "test"
        /\ UNCHANGED <<table, file, acc, rd, accepted, evictor, clash>>
    BY <1>1 DEF InformBlocked, history
  <2> QED BY <2>1, SlottedSame
<1>2. CASE TestSlot
  <2>1. /\ bc'.pc \in {"idle", "test", "write"}
        /\ UNCHANGED <<table, file, acc, rd, accepted, evictor, clash>>
    BY <1>0, <1>2, NextSlotPc DEF TestSlot, history, TypeOK
  <2> QED BY <2>1, SlottedSame
<1>3. CASE WriteSlot
  <2>1. CASE clash'
    BY <2>1 DEF Slotted
  <2>2. CASE ~clash'
    <3>1. /\ bc' = NextSlot
          /\ UNCHANGED <<table, file, acc, rd, accepted, evictor, clash>>
      BY <1>3, <2>2 DEF WriteSlot
    <3> QED BY <1>0, <3>1, NextSlotPc, SlottedSame
  <2> QED BY <2>1, <2>2
<1>4. CASE CloseSlot \/ ClearSlot
  BY <1>4 DEF CloseSlot, ClearSlot, At, Slotted, history
<1> QED BY <1>1, <1>2, <1>3, <1>4 DEF WriteDataToClients

LEMMA SlottedRd == ASSUME TableInv, Slotted, ReadThread PROVE Slotted'
<1>0. TypeOK /\ Reading /\ Accepting
  BY DEF TableInv
<1> SUFFICES ASSUME ~clash' PROVE Slotted'
  BY DEF Slotted
<1>1. ~clash /\ UNCHANGED <<bc, acc, accepted, evictor>>
  BY DEF ReadThread, BuildSet, Select, Walk, Read, CloseRead, ClearRead, history
<1>2. CASE BuildSet
  <2>1. rd'.pc = "select" /\ UNCHANGED <<table, file>>
    BY <1>0, <1>2 DEF BuildSet, TypeOK
  <2> QED BY <1>1, <2>1 DEF Slotted
<1>3. CASE Select
  <2>1. rd'.pc \in {"build", "walk"} /\ UNCHANGED <<table, file>>
    BY <1>3 DEF Select, Building
  <2> QED BY <1>1, <2>1 DEF Slotted
<1>4. CASE Walk
  <2>1. UNCHANGED <<table, file>>
    BY <1>4 DEF Walk
  <2>2. rd'.pc = "build" \/ (rd'.pc = "read" /\ table[rd'.i] # NoFd)
    BY <1>0, <1>4, WalkTo, Sizes
  <2> QED BY <1>1, <2>1, <2>2 DEF Slotted
<1>5. CASE Read
  <2>1. rd.pc = "read" /\ UNCHANGED <<table, file>>
    BY <1>5 DEF Read, At
  <2>2. rd'.pc = "walk" \/ (rd'.pc = "close" /\ rd'.i = rd.i)
    <3>1. rd' = NextClient \/ rd' = [rd EXCEPT !.pc = "close"]
      BY <1>5 DEF Read
    <3> QED BY <1>0, <3>1, ThreadTypes DEF NextClient, RdType
  <2> QED BY <1>1, <2>1, <2>2 DEF Slotted
<1>6. CASE CloseRead
  <2>1. rd.pc = "close" /\ rd.i \in Slots /\ table[rd.i] # NoFd /\ UNCHANGED table
    BY <1>0, <1>1, <1>6 DEF CloseRead, At, Reading, Slotted
  <2>2. rd'.pc = "clear" /\ rd'.i = rd.i
    BY <1>0, <1>6 DEF CloseRead, TypeOK
  <2>3. /\ file'[table[rd.i]] = Closed
        /\ \A g \in Fds : file'[g] \in {file[g], Closed}
    BY <1>0, <1>6, <2>1, Closes DEF CloseRead, TypeOK
  <2>4. acc.pc \in {"greet", "write"} =>
          /\ acc.n \in Fds
          /\ table[acc.i] = acc.n \/ file'[acc.n] = Closed
          /\ rd.i = acc.i => file'[acc.n] = Closed
    BY <1>0, <1>1, <2>3 DEF Slotted, Accepting
  <2> QED BY <1>1, <2>1, <2>2, <2>4 DEF Slotted
<1>7. CASE ClearRead
  <2>1. rd.pc = "clear" /\ rd.i \in Slots /\ UNCHANGED file
    BY <1>0, <1>7 DEF ClearRead, At, Reading
  <2>2. rd'.pc = "walk"
    BY <1>0, <1>7 DEF ClearRead, NextClient, TypeOK
  <2>3. \A i \in Slots : i # rd.i => table'[i] = table[i]
    BY <1>0, <1>7 DEF ClearRead, TypeOK
  <2>4. acc.i \in Slots
    BY <1>0 DEF TypeOK
  <2> QED BY <1>1, <2>1, <2>2, <2>3, <2>4 DEF Slotted
<1> QED BY <1>2, <1>3, <1>4, <1>5, <1>6, <1>7 DEF ReadThread

LEMMA SlottedKeeps == ASSUME TableInv, Slotted, [Next]_vars PROVE Slotted'
<1>1. CASE SetupClientsConnect
  BY <1>1, SlottedAcc
<1>2. CASE WriteDataToClients
  BY <1>2, SlottedBc
<1>3. CASE ReadThread
  BY <1>3, SlottedRd
<1>4. CASE \E s \in {"ALIVE", "ASSERT"} : Begin(s)
  <2>1. bc'.pc = "test" /\ UNCHANGED <<table, file, acc, rd, accepted, evictor, clash>>
    BY <1>4 DEF Begin, history
  <2> QED BY <2>1, SlottedSame
<1>5. CASE SetBlocked \/ (\E c \in Conns : Say(c) \/ Hangup(c)) \/ UNCHANGED vars
  <2>1. UNCHANGED <<bc, table, file, acc, rd, accepted, evictor, clash>>
    BY <1>5 DEF SetBlocked, Say, Hangup, Keep, told, history, vars
  <2>2. ~clash => bc'.pc \notin {"close", "clear"}
    BY <2>1 DEF Slotted
  <2> QED BY <2>1, <2>2, SlottedSame
<1> QED BY <1>1, <1>2, <1>3, <1>4, <1>5 DEF Next

-----------------------------------------------------------------------------
(***************************************************************************)
(* Told is inductive.  First the steps that tell nobody anything and only  *)
(* take clients away.                                                      *)
(***************************************************************************)
LEMMA NobodyNew ==
  ASSUME TypeOK, Told, UNCHANGED <<heard, last, overtaken, state, blocked, acc, bc, evictor,
                                   clash>>,
         \A c \in Conns : peer'[c] = "up" => peer[c] = "up",
         \A i \in Slots : IsOpen(table[i])' =>
           IsOpen(table[i]) /\ table'[i] = table[i] /\ file'[table'[i]] = file[table[i]]
  PROVE  Told'
<1> SUFFICES ASSUME ~clash', NEW i \in Slots, IsOpen(table[i])' PROVE ToldOrDue(i)'
  BY DEF Told
<1>1. /\ ToldOrDue(i)
      /\ table'[i] = table[i] /\ file'[table'[i]] = file[table[i]]
      /\ file[table[i]] \in Conns
  BY DEF Told, TypeOK, IsOpen
<1> QED BY <1>1 DEF ToldOrDue

LEMMA ToldAccept == ASSUME TableInv, Told, Accept PROVE Told'
<1>0. TypeOK /\ Numbering
  BY DEF TableInv
<1>1. PICK n \in Fds :
         /\ file[n] = Closed
         /\ acc.pc = "accept" /\ accepted' = accepted + 1 /\ accepted' \in Conns
         /\ file' = [file EXCEPT ![n] = accepted']
         /\ acc' = [acc EXCEPT !.pc = "scan", !.n = n, !.i = 1]
         /\ peer' = [peer EXCEPT ![accepted'] = "up"]
         /\ UNCHANGED <<table, unread, heard, last, overtaken, state, blocked, notified, bc, rd,
                        evictor, clash, dead, left>>
  BY AcceptIs
<1>2. acc'.pc = "scan" /\ acc'.n = n
  BY <1>0, <1>1 DEF TypeOK
<1> SUFFICES ASSUME ~clash', NEW i \in Slots, IsOpen(table[i])' PROVE ToldOrDue(i)'
  BY DEF Told
<1>3. CASE table[i] = n
  BY <1>1, <1>2, <1>3 DEF ToldOrDue
<1>4. CASE table[i] # n
  <2>1. table[i] \in Fds /\ file'[table[i]] = file[table[i]] /\ file[table[i]] \in Conns
    BY <1>0, <1>1, <1>4 DEF TypeOK, IsOpen
  <2>2. file[table[i]] # accepted'
    <3>1. file[table[i]] <= accepted /\ accepted \in Nat /\ file[table[i]] \in Nat
      BY <1>0, <2>1, Sizes DEF Numbering, TypeOK
    <3> QED BY <3>1, <1>1
  <2>3. peer'[file[table[i]]] = peer[file[table[i]]]
    BY <1>0, <1>1, <2>1, <2>2 DEF TypeOK
  <2>4. ToldOrDue(i)
    BY <1>1, <2>1, Sizes DEF Told, IsOpen
  <2> QED BY <1>1, <2>1, <2>3, <2>4 DEF ToldOrDue
<1> QED BY <1>3, <1>4

LEMMA ToldScan == ASSUME TableInv, Told, Scan PROVE Told'
<1>0. TypeOK /\ acc.pc = "scan"
  BY DEF TableInv, Scan, At
<1>1. UNCHANGED <<file, peer, heard, last, overtaken, state, blocked, bc, clash>>
  BY DEF Scan, clients, told
<1>2. acc'.pc \in Unreported /\ acc'.n = acc.n
  BY <1>0 DEF Scan, TypeOK, Unreported
<1>3. evictor \subseteq evictor' /\ \A i \in Slots : table'[i] \in {table[i], acc.n}
  BY <1>0 DEF Scan, TypeOK
<1> SUFFICES ASSUME ~clash', NEW i \in Slots, IsOpen(table[i])' PROVE ToldOrDue(i)'
  BY DEF Told
<1>4. CASE table'[i] = acc.n
  BY <1>2, <1>4 DEF ToldOrDue, Unreported
<1>5. CASE table'[i] = table[i]
  <2>1. ToldOrDue(i)
    BY <1>1, <1>5 DEF Told, IsOpen
  <2> QED BY <1>0, <1>1, <1>2, <1>3, <1>5, <2>1 DEF ToldOrDue, Unreported
<1> QED BY <1>3, <1>4, <1>5

LEMMA ToldGreet == ASSUME TableInv, Told, Greet PROVE Told'
<1>0. TypeOK /\ acc.pc = "greet"
  BY DEF TableInv, Greet, At
<1>1. UNCHANGED <<table, file, peer, heard, last, overtaken, state, blocked, bc, evictor, clash>>
  BY DEF Greet, clients, told, history
<1>2. acc'.pc = "write" /\ acc'.n = acc.n /\ acc'.s = state
  BY <1>0 DEF Greet, TypeOK
<1> SUFFICES ASSUME ~clash', NEW i \in Slots, IsOpen(table[i])' PROVE ToldOrDue(i)'
  BY DEF Told
<1>3. ToldOrDue(i)
  BY <1>1 DEF Told, IsOpen
<1> QED BY <1>0, <1>1, <1>2, <1>3 DEF ToldOrDue

\* write() reaches the client behind f, or that client hung up, or nobody is behind f
LEMMA ToldByWrite ==
  ASSUME TypeOK, NEW f \in Fds \cup {NoFd}, NEW s \in ModemStates,
         Delivers(f, s) \/ (WriteFails(f) /\ UNCHANGED <<heard, last, overtaken>>)
  PROVE  /\ \A c \in Conns : heard[c] \subseteq heard'[c]
         /\ IsOpen(f) => peer[file[f]] # "up" \/ s \in heard'[file[f]]
<1>1. CASE Delivers(f, s)
  <2>1. file[f] \in Conns /\ heard' = [heard EXCEPT ![file[f]] = @ \cup {s}]
    BY <1>1 DEF Delivers, IsOpen, TypeOK
  <2> QED BY <2>1 DEF TypeOK
<1>2. CASE WriteFails(f) /\ UNCHANGED <<heard, last, overtaken>>
  BY <1>2 DEF WriteFails
<1> QED BY <1>1, <1>2

LEMMA ToldWriteState == ASSUME TableInv, Slotted, Told, WriteState PROVE Told'
<1>0. TypeOK /\ acc.pc = "write" /\ acc.i \in Slots /\ acc.s \in ModemStates
  BY DEF TableInv, WriteState, At, TypeOK
<1>1. acc'.pc = "accept" /\ UNCHANGED <<table, file, peer, state, blocked, bc, evictor, clash>>
  BY DEF WriteState, Waiting, clients, told, history
<1>2. /\ \A c \in Conns : heard[c] \subseteq heard'[c]
      /\ IsOpen(table[acc.i]) =>
           peer[file[table[acc.i]]] # "up" \/ acc.s \in heard'[file[table[acc.i]]]
  <2>1. table[acc.i] \in Fds \cup {NoFd}
    BY <1>0 DEF TypeOK
  <2> QED BY <1>0, <2>1, ToldByWrite DEF WriteState, told
<1> SUFFICES ASSUME ~clash', NEW i \in Slots, IsOpen(table[i])' PROVE ToldOrDue(i)'
  BY DEF Told
<1>3. IsOpen(table[i]) /\ ToldOrDue(i) /\ file[table[i]] \in Conns
  BY <1>0, <1>1 DEF Told, IsOpen, TypeOK
<1>4. CASE table[i] = acc.n /\ acc.s = state
  <2>1. table[acc.i] = table[i]
    BY <1>0, <1>1, <1>3, <1>4 DEF Slotted, IsOpen
  <2> QED BY <1>1, <1>2, <1>3, <1>4, <2>1 DEF ToldOrDue
<1>5. CASE ~(table[i] = acc.n /\ acc.s = state)
  BY <1>0, <1>1, <1>2, <1>3, <1>5 DEF ToldOrDue
<1> QED BY <1>4, <1>5

LEMMA ToldCloseLast == ASSUME TableInv, Told, CloseLast PROVE Told'
<1>0. TypeOK /\ acc.pc = "close"
  BY DEF TableInv, CloseLast, At
<1>1. UNCHANGED <<table, peer, heard, last, overtaken, state, blocked, bc, evictor, clash>>
  BY DEF CloseLast, clients, told, history
<1>2. acc'.pc = "fill" /\ acc'.n = acc.n
  BY <1>0 DEF CloseLast, TypeOK
<1>3. \A g \in Fds : file'[g] \in {file[g], Closed}
  BY <1>0, Sizes, Closes DEF CloseLast, TypeOK
<1> SUFFICES ASSUME ~clash', NEW i \in Slots, IsOpen(table[i])' PROVE ToldOrDue(i)'
  BY DEF Told
<1>4. file'[table[i]] = file[table[i]] /\ IsOpen(table[i])
  BY <1>0, <1>1, <1>3 DEF IsOpen, TypeOK
<1>5. ToldOrDue(i)
  BY <1>1, <1>4 DEF Told
<1> QED BY <1>0, <1>1, <1>2, <1>4, <1>5 DEF ToldOrDue

LEMMA ToldFillLast == ASSUME TableInv, Slotted, Told, FillLast PROVE Told'
<1>0. TypeOK /\ Accepting /\ acc.pc = "fill"
  BY DEF TableInv, FillLast, At
<1>1. UNCHANGED <<file, peer, heard, last, overtaken, state, blocked, bc, evictor,
                  clash>> /\ acc'.pc = "accept"
  BY DEF FillLast, clients, told, history, Waiting
<1>2. \A i \in Slots : table'[i] \in {table[i], acc.n}
  BY <1>0 DEF FillLast, TypeOK
<1> SUFFICES ASSUME ~clash', NEW i \in Slots, IsOpen(table[i])' PROVE ToldOrDue(i)'
  BY DEF Told
<1>3. CASE table'[i] = acc.n
  <2>1. accepted \in evictor
    BY <1>0, <1>1 DEF Slotted
  <2>2. file[acc.n] = accepted
    BY <1>0, <1>1, <1>3 DEF Accepting, IsOpen
  <2> QED BY <1>1, <1>3, <2>1, <2>2 DEF ToldOrDue
<1>4. CASE table'[i] = table[i] /\ table[i] # acc.n
  <2>1. ToldOrDue(i)
    BY <1>1, <1>4 DEF Told, IsOpen
  <2> QED BY <1>0, <1>1, <1>4, <2>1 DEF ToldOrDue
<1> QED BY <1>2, <1>3, <1>4

LEMMA ToldBegin == ASSUME TableInv, Told, NEW s, Begin(s) PROVE Told'
<1>1. bc'.pc = "test" /\ bc'.i = 1 /\ bc'.s = s /\ state' = s
  BY DEF Begin, SetState
<1>2. \A i \in Slots : 1 <= i
  BY Sizes
<1> QED BY <1>1, <1>2 DEF Told, ToldOrDue

LEMMA ToldSetBlocked == ASSUME SetBlocked PROVE Told'
BY DEF SetBlocked, SetState, Told, ToldOrDue

LEMMA ToldInformBlocked == ASSUME TableInv, Told, InformBlocked PROVE Told'
<1>1. /\ bc.pc = "idle" /\ bc'.pc = "test" /\ bc'.i = 1 /\ bc'.s = "ASSERT"
      /\ UNCHANGED <<table, file, peer, heard, last, overtaken, state, acc, evictor, clash>>
  BY DEF InformBlocked, At, clients, told, history
<1>2. \A i \in Slots : 1 <= i
  BY Sizes
<1> SUFFICES ASSUME ~clash', NEW i \in Slots, IsOpen(table[i])' PROVE ToldOrDue(i)'
  BY DEF Told
<1>3. ToldOrDue(i)
  BY <1>1 DEF Told, IsOpen
<1> QED BY <1>1, <1>2, <1>3 DEF ToldOrDue

\* The walk of bc goes on: the slots behind bc.i are still to come.
LEMMA WalkGoesOn ==
  ASSUME TypeOK, NEW i \in Slots, bc.i <= i, i # bc.i
  PROVE  NextSlot.pc = "test" /\ NextSlot.i <= i /\ NextSlot.s = bc.s
<1>1. bc.i \in Nat /\ i \in Nat /\ bc.i # N /\ bc.i + 1 <= i
  BY Sizes DEF TypeOK
<1> QED BY <1>1 DEF NextSlot, TypeOK

LEMMA ToldTestSlot == ASSUME TableInv, Told, TestSlot PROVE Told'
<1>0. TypeOK /\ bc.pc = "test"
  BY DEF TableInv, TestSlot, At
<1>1. UNCHANGED <<table, file, peer, heard, last, overtaken, state, blocked, acc, evictor,
                  clash>>
  BY DEF TestSlot, clients, told, history
<1> SUFFICES ASSUME ~clash', NEW i \in Slots, IsOpen(table[i])' PROVE ToldOrDue(i)'
  BY DEF Told
<1>2. ToldOrDue(i) /\ table[i] # NoFd
  BY <1>1 DEF Told, IsOpen
<1>3. ASSUME bc.i <= i PROVE bc'.pc \in {"test", "write"} /\ bc'.i <= i /\ bc'.s = bc.s
  <2>1. CASE table[bc.i] # NoFd
    BY <1>0, <1>3, <2>1 DEF TestSlot, TypeOK
  <2>2. CASE table[bc.i] = NoFd
    <3>1. bc' = NextSlot
      BY <2>2 DEF TestSlot
    <3> QED BY <1>0, <1>2, <1>3, <2>2, <3>1, WalkGoesOn
  <2> QED BY <2>1, <2>2
<1> QED BY <1>1, <1>2, <1>3 DEF ToldOrDue

LEMMA ToldWriteSlot == ASSUME TableInv, Told, WriteSlot PROVE Told'
<1>0. TypeOK /\ bc.i \in Slots /\ bc.s \in ModemStates
  BY DEF TableInv, TypeOK
<1>1. UNCHANGED <<table, file, peer, state, blocked, acc, evictor>>
  BY DEF WriteSlot, clients, told
<1> SUFFICES ASSUME ~clash', NEW i \in Slots, IsOpen(table[i])' PROVE ToldOrDue(i)'
  BY DEF Told
<1>2. Delivers(table[bc.i], bc.s) /\ bc' = NextSlot /\ ~clash
  BY DEF WriteSlot
<1>3. /\ \A c \in Conns : heard[c] \subseteq heard'[c]
      /\ IsOpen(table[bc.i]) =>
           peer[file[table[bc.i]]] # "up" \/ bc.s \in heard'[file[table[bc.i]]]
  <2>1. table[bc.i] \in Fds \cup {NoFd}
    BY <1>0 DEF TypeOK
  <2> QED BY <1>0, <1>2, <2>1, ToldByWrite
<1>4. IsOpen(table[i]) /\ ToldOrDue(i) /\ file[table[i]] \in Conns
  BY <1>0, <1>1, <1>2 DEF Told, IsOpen, TypeOK
<1>5. CASE bc.i <= i /\ bc.s = state
  <2>1. CASE i = bc.i
    BY <1>1, <1>3, <1>4, <1>5, <2>1 DEF ToldOrDue
  <2>2. CASE i # bc.i
    <3>1. bc'.pc = "test" /\ bc'.i <= i /\ bc'.s = bc.s
      BY <1>0, <1>2, <1>5, <2>2, WalkGoesOn
    <3> QED BY <1>1, <1>5, <3>1 DEF ToldOrDue
  <2> QED BY <2>1, <2>2
<1>6. CASE ~(bc.i <= i /\ bc.s = state)
  BY <1>1, <1>3, <1>4, <1>6 DEF ToldOrDue
<1> QED BY <1>5, <1>6

LEMMA ToldRd == ASSUME TableInv, Told, ReadThread PROVE Told'
<1>0. TypeOK
  BY DEF TableInv
<1>1. UNCHANGED <<heard, last, overtaken, state, blocked, acc, bc, evictor, clash, peer>>
  BY DEF ReadThread, BuildSet, Select, Walk, Read, CloseRead, ClearRead, clients, told, history
<1>2. CASE BuildSet \/ Select \/ Walk \/ Read
  <2>1. UNCHANGED <<table, file>>
    BY <1>2 DEF BuildSet, Select, Walk, Read
  <2> QED BY <1>0, <1>1, <2>1, NobodyNew DEF IsOpen
<1>3. CASE CloseRead
  <2>1. rd.i \in Slots /\ UNCHANGED table /\ \A i \in Slots : table[i] \in Fds \cup {NoFd}
    BY <1>3 DEF CloseRead, At, TableInv, Reading, TypeOK
  <2>2. \A g \in Fds : file'[g] \in {file[g], Closed}
    BY <1>0, <1>3, <2>1, Closes DEF CloseRead
  <2>3. \A i \in Slots : IsOpen(table[i])' =>
          IsOpen(table[i]) /\ table'[i] = table[i] /\ file'[table'[i]] = file[table[i]]
    BY <2>1, <2>2 DEF IsOpen
  <2> QED BY <1>0, <1>1, <2>3, NobodyNew
<1>4. CASE ClearRead
  <2>1. UNCHANGED file /\ \A i \in Slots : table'[i] \in {table[i], NoFd}
    BY <1>0, <1>4 DEF ClearRead, TypeOK
  <2>2. \A i \in Slots : IsOpen(table[i])' =>
          IsOpen(table[i]) /\ table'[i] = table[i] /\ file'[table'[i]] = file[table[i]]
    BY <2>1 DEF IsOpen
  <2> QED BY <1>0, <1>1, <2>2, NobodyNew
<1> QED BY <1>2, <1>3, <1>4 DEF ReadThread

LEMMA ToldClients ==
  ASSUME TableInv, Told, (\E c \in Conns : Say(c) \/ Hangup(c)) \/ UNCHANGED vars
  PROVE  Told'
<1>0. TypeOK
  BY DEF TableInv
<1>1. UNCHANGED <<table, file, heard, last, overtaken, state, blocked, acc, bc, evictor, clash>>
  BY DEF Say, Hangup, Keep, told, vars, history
<1>2. \A d \in Conns : peer'[d] = "up" => peer[d] = "up"
  BY <1>0 DEF Say, Hangup, vars, TypeOK
<1> QED BY <1>0, <1>1, <1>2, NobodyNew DEF IsOpen

-----------------------------------------------------------------------------
(***************************************************************************)
(* Fresh and LastHeard are inductive: a state that is set makes everybody  *)
(* one who has not heard it, and until the next one is set only texts      *)
(* about this one are chosen.                                              *)
(***************************************************************************)
LEMMA FreshKept ==
  ASSUME Fresh, UNCHANGED <<state, overtaken>>,
         acc'.pc = "write" => acc'.s = state \/ acc' = acc,
         bc'.pc # "idle" => \/ bc.pc # "idle" /\ bc'.s = bc.s
                            \/ blocked /\ bc'.s = "ASSERT",
         blocked' => blocked
  PROVE  Fresh'
BY DEF Fresh

LEMMA FreshKeeps == ASSUME TypeOK, Fresh, [Next]_vars PROVE Fresh'
<1>1. CASE SetupClientsConnect
  <2>1. UNCHANGED <<state, bc, blocked>>
    BY <1>1 DEF SetupClientsConnect, Accept, Scan, Greet, WriteState, CloseLast, FillLast
  <2>2. UNCHANGED overtaken
    BY <1>1 DEF SetupClientsConnect, Accept, Scan, Greet, WriteState, CloseLast, FillLast,
                Delivers, told
  <2>3. acc'.pc = "write" => acc'.s = state
    <3>1. CASE Accept \/ Scan \/ CloseLast
      <4>1. acc'.pc # "write"
        BY <3>1 DEF Accept, Scan, CloseLast, At, TypeOK
      <4> QED BY <4>1
    <3>2. CASE Greet
      BY <3>2 DEF Greet, TypeOK
    <3>3. CASE WriteState \/ FillLast
      BY <3>3 DEF WriteState, FillLast, Waiting
    <3> QED BY <1>1, <3>1, <3>2, <3>3 DEF SetupClientsConnect
  <2> QED BY <2>1, <2>2, <2>3, FreshKept
<1>2. CASE WriteDataToClients
  <2>1. UNCHANGED <<state, acc>>
    BY <1>2 DEF WriteDataToClients, InformBlocked, TestSlot, WriteSlot, CloseSlot, ClearSlot
  <2>2. UNCHANGED overtaken
    BY <1>2 DEF WriteDataToClients, InformBlocked, TestSlot, WriteSlot, CloseSlot, ClearSlot,
                Delivers, told
  <2>3. blocked' => blocked
    BY <1>2, Zenon
    DEF WriteDataToClients, InformBlocked, TestSlot, WriteSlot, CloseSlot, ClearSlot
  <2>4. bc'.pc # "idle" => \/ bc.pc # "idle" /\ bc'.s = bc.s
                           \/ blocked /\ bc'.s = "ASSERT"
    <3>1. NextSlot.pc # "idle" => NextSlot.s = bc.s
      BY DEF NextSlot, Idle, TypeOK
    <3>2. CASE InformBlocked
      BY <3>2 DEF InformBlocked
    <3>3. CASE TestSlot \/ WriteSlot \/ CloseSlot \/ ClearSlot
      BY <3>1, <3>3 DEF TestSlot, WriteSlot, CloseSlot, ClearSlot, At, TypeOK
    <3> QED BY <1>2, <3>2, <3>3 DEF WriteDataToClients
  <2> QED BY <2>1, <2>2, <2>3, <2>4, FreshKept
<1>3. CASE ReadThread
  <2>1. UNCHANGED <<state, overtaken, acc, bc, blocked>>
    BY <1>3 DEF ReadThread, BuildSet, Select, Walk, Read, CloseRead, ClearRead, told
  <2> QED BY <2>1, FreshKept
<1>4. CASE \E s \in {"ALIVE", "ASSERT"} : Begin(s)
  <2>1. PICK s \in {"ALIVE", "ASSERT"} : Begin(s)
    BY <1>4
  <2>2. /\ state' = s /\ bc'.s = s /\ UNCHANGED <<acc, blocked>>
        /\ ~overtaken' => (acc.pc = "write" => acc.s = s) /\ (blocked => s = "ASSERT")
    BY <2>1 DEF Begin, SetState, Overtakes
  <2> QED BY <2>2 DEF Fresh
<1>5. CASE SetBlocked
  BY <1>5 DEF SetBlocked, SetState, Overtakes, Fresh, At
<1>6. CASE (\E c \in Conns : Say(c) \/ Hangup(c)) \/ UNCHANGED vars
  <2>1. UNCHANGED <<state, overtaken, acc, bc, blocked>>
    BY <1>6 DEF Say, Hangup, Keep, told, vars
  <2> QED BY <2>1, FreshKept
<1> QED BY <1>1, <1>2, <1>3, <1>4, <1>5, <1>6 DEF Next

LEMMA LastHeardKept ==
  ASSUME LastHeard, UNCHANGED <<state, overtaken, heard, last>> PROVE LastHeard'
BY DEF LastHeard

\* A text that is written while nothing was overtaken is the present state.
LEMMA LastHeardByWrite ==
  ASSUME TypeOK, LastHeard, UNCHANGED state, NEW f \in Fds \cup {NoFd}, NEW s \in ModemStates,
         ~overtaken => s = state,
         Delivers(f, s) \/ UNCHANGED told
  PROVE  LastHeard'
<1>1. CASE Delivers(f, s)
  <2>1. /\ file[f] \in Conns /\ UNCHANGED overtaken
        /\ heard' = [heard EXCEPT ![file[f]] = @ \cup {s}]
        /\ last' = [last EXCEPT ![file[f]] = s]
    BY <1>1, DeliversType
  <2> SUFFICES ASSUME ~overtaken, NEW c \in Conns, state \in heard'[c] PROVE last'[c] = state
    BY <2>1 DEF LastHeard
  <2>2. CASE c = file[f]
    BY <2>1, <2>2 DEF TypeOK
  <2>3. CASE c # file[f]
    BY <2>1, <2>3 DEF TypeOK, LastHeard
  <2> QED BY <2>2, <2>3
<1>2. CASE UNCHANGED told
  BY <1>2, LastHeardKept DEF told
<1> QED BY <1>1, <1>2

LEMMA LastHeardKeeps == ASSUME TypeOK, Fresh, LastHeard, [Next]_vars PROVE LastHeard'
<1>1. CASE WriteState
  <2>1. /\ table[acc.i] \in Fds \cup {NoFd} /\ acc.s \in ModemStates /\ UNCHANGED state
        /\ ~overtaken => acc.s = state
    BY <1>1 DEF WriteState, At, TypeOK, Fresh
  <2>2. Delivers(table[acc.i], acc.s) \/ UNCHANGED told
    BY <1>1 DEF WriteState
  <2> QED BY <2>1, <2>2, LastHeardByWrite
<1>2. CASE WriteSlot
  <2>1. /\ table[bc.i] \in Fds \cup {NoFd} /\ bc.s \in ModemStates /\ UNCHANGED state
        /\ ~overtaken => bc.s = state
    BY <1>2 DEF WriteSlot, At, TypeOK, Fresh
  <2>2. Delivers(table[bc.i], bc.s) \/ UNCHANGED told
    BY <1>2 DEF WriteSlot
  <2> QED BY <2>1, <2>2, LastHeardByWrite
<1>3. CASE (\E s \in {"ALIVE", "ASSERT"} : Begin(s)) \/ SetBlocked
  BY <1>3 DEF Begin, SetBlocked, SetState, Unheard, LastHeard
<1>4. CASE Accept \/ Scan \/ Greet \/ CloseLast \/ FillLast
  BY <1>4, LastHeardKept DEF Accept, Scan, Greet, CloseLast, FillLast, told
<1>5. CASE InformBlocked \/ TestSlot \/ CloseSlot \/ ClearSlot
  BY <1>5, LastHeardKept DEF InformBlocked, TestSlot, CloseSlot, ClearSlot, told
<1>6. CASE ReadThread
  BY <1>6, LastHeardKept
  DEF ReadThread, BuildSet, Select, Walk, Read, CloseRead, ClearRead, told
<1>7. CASE (\E c \in Conns : Say(c) \/ Hangup(c)) \/ UNCHANGED vars
  BY <1>7, LastHeardKept DEF Say, Hangup, Keep, told, vars
<1> QED BY <1>1, <1>2, <1>3, <1>4, <1>5, <1>6, <1>7
    DEF Next, SetupClientsConnect, WriteDataToClients

LEMMA StateKeeps == StateInv /\ [Next]_vars => StateInv'
<1> SUFFICES ASSUME StateInv, [Next]_vars PROVE StateInv'
  OBVIOUS
<1>0. TableInv /\ Slotted /\ Told /\ Fresh /\ LastHeard
  BY DEF StateInv
<1>1. TableInv' /\ Slotted'
  BY <1>0, TableKeeps, SlottedKeeps
<1>2. Told'
  <2>1. CASE SetupClientsConnect
    BY <1>0, <2>1, ToldAccept, ToldScan, ToldGreet, ToldWriteState, ToldCloseLast, ToldFillLast
    DEF SetupClientsConnect
  <2>2. CASE \E s \in {"ALIVE", "ASSERT"} : Begin(s)
    BY <1>0, <2>2, ToldBegin
  <2>3. CASE SetBlocked
    BY <2>3, ToldSetBlocked
  <2>4. CASE WriteDataToClients
    <3>1. CASE CloseSlot \/ ClearSlot
      BY <1>0, <3>1 DEF CloseSlot, ClearSlot, At, Slotted, Told, history
    <3> QED BY <1>0, <2>4, <3>1, ToldInformBlocked, ToldTestSlot, ToldWriteSlot
        DEF WriteDataToClients
  <2>5. CASE ReadThread
    BY <1>0, <2>5, ToldRd
  <2>6. CASE (\E c \in Conns : Say(c) \/ Hangup(c)) \/ UNCHANGED vars
    BY <1>0, <2>6, ToldClients
  <2> QED BY <2>1, <2>2, <2>3, <2>4, <2>5, <2>6 DEF Next
<1>3. Fresh' /\ LastHeard'
  BY <1>0, FreshKeeps, LastHeardKeeps DEF TableInv
<1> QED BY <1>1, <1>2, <1>3 DEF StateInv

(***************************************************************************)
(* A client that found a free slot has been told the state of the modem    *)
(* since it was set, whenever modem_setup_clients_connect and              *)
(* modem_write_data_to_clients are at rest: between the greeting, which    *)
(* reads s_modemState after the slot is filled, and the broadcast, which   *)
(* walks the slots after s_modemState is set, no order of the unlocked     *)
(* steps leaves a client out, as long as no broadcast has failed to write. *)
(* Nor is the client told an older state after it, unless the state was    *)
(* set while a greeting or "Modem Blocked" about another one was to be     *)
(* written.                                                                *)
(***************************************************************************)
THEOREM NoClientMissesTheState == Spec => []NoStateMissed
<1>1. Init => StateInv
  <2>1. Init => Slotted
    BY DEF Init, Slotted, Waiting, Idle, Building
  <2>2. Init => Told
    BY DEF Init, Told, IsOpen
  <2>3. Init => Fresh /\ LastHeard
    BY DEF Init, Fresh, LastHeard, Unheard, Waiting, Idle
  <2> QED BY <2>1, <2>2, <2>3, TableInit DEF StateInv
<1>2. StateInv => NoStateMissed
  <2> SUFFICES ASSUME StateInv, acc.pc = "accept", bc.pc = "idle", ~blocked, ~clash,
                      NEW c \in Conns \ evictor, InTable(c), peer[c] = "up"
               PROVE  state \in heard[c] /\ (last[c] = state \/ overtaken)
    BY DEF NoStateMissed
  <2>1. PICK i \in Slots : table[i] # NoFd /\ file[table[i]] = c
    BY DEF InTable
  <2>2. ToldOrDue(i)
    BY <2>1, Sizes DEF StateInv, Told, IsOpen
  <2>3. state \in heard[c]
    BY <2>1, <2>2 DEF ToldOrDue
  <2> QED BY <2>3 DEF StateInv, LastHeard
<1> QED BY <1>1, <1>2, StateKeeps, PTL DEF Spec
=============================================================================
