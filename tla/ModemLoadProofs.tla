--------------------------- MODULE ModemLoadProofs ---------------------------
(***************************************************************************)
(* Proofs about ModemLoad, for every table of images, any number of warm   *)
(* resets and every budget of failures.                                    *)
(***************************************************************************)
EXTENDS ModemLoad, Extrema

(***************************************************************************)
(* The order of the phases.                                                *)
(***************************************************************************)
LEMMA PhaseNames ==
  /\ DOMAIN Phases = 1..18
  /\ Phases[1] = "spStop" /\ Phases[2] = "sp" /\ Phases[3] = "spStart"
  /\ Phases[4] = "dpStop" /\ Phases[5] = "cpStop" /\ Phases[6] = "dp"
  /\ Phases[7] = "clear" /\ Phases[8] = "spl" /\ Phases[9] = "wait"
  /\ Phases[10] = "audio" /\ Phases[11] = "uboot" /\ Phases[12] = "boot"
  /\ Phases[13] = "head" /\ Phases[14] = "bar" /\ Phases[15] = "modem"
  /\ Phases[16] = "dpStart" /\ Phases[17] = "cpStart" /\ Phases[18] = "finish"
BY DEF Phases

LEMMA PhaseRange ==
  Range(Phases) = {"spStop", "sp", "spStart", "dpStop", "cpStop", "dp", "clear", "spl",
                   "wait", "audio", "uboot", "boot", "head", "bar", "modem", "dpStart",
                   "cpStart", "finish"}
BY PhaseNames DEF Range

LEMMA PlaceOf ==
  ASSUME NEW k \in 1..18
  PROVE  Place(Phases[k]) = k
<1>1. \A i \in 1..18 : Phases[i] = Phases[k] => i = k
  BY PhaseNames
<1> QED BY <1>1, PhaseNames DEF Place

LEMMA Placement ==
  /\ Place("spStop") = 1 /\ Place("sp") = 2 /\ Place("spStart") = 3
  /\ Place("dpStop") = 4 /\ Place("cpStop") = 5 /\ Place("dp") = 6
  /\ Place("clear") = 7 /\ Place("spl") = 8 /\ Place("wait") = 9
  /\ Place("audio") = 10 /\ Place("uboot") = 11 /\ Place("boot") = 12
  /\ Place("head") = 13 /\ Place("bar") = 14 /\ Place("modem") = 15
  /\ Place("dpStart") = 16 /\ Place("cpStart") = 17 /\ Place("finish") = 18
BY PlaceOf, PhaseNames

\* The next call is the first one that is needed.
LEMMA AfterIsFirst ==
  ASSUME NEW k \in 1..17, NEW ty, NEW st
  PROVE  \E n \in 1..18 :
           /\ n > k
           /\ After(Phases[k], ty, st) = Phases[n]
           /\ Needed(Phases[n], ty, st)
           /\ \A i \in 1..18 : k < i /\ i < n => ~Needed(Phases[i], ty, st)
<1> DEFINE S == {i \in DOMAIN Phases : i > Place(Phases[k]) /\ Needed(Phases[i], ty, st)}
<1>1. S = {i \in 1..18 : i > k /\ Needed(Phases[i], ty, st)}
  BY PlaceOf, PhaseNames
<1>2. 18 \in S
  BY <1>1, PhaseNames DEF Needed
<1>3. Min(S) \in S /\ \A y \in S : Min(S) <= y
  <2>1. S \in SUBSET Nat
    BY <1>1
  <2> HIDE DEF S
  <2> QED BY <1>2, <2>1, HasMin
<1>4. After(Phases[k], ty, st) = Phases[Min(S)]
  BY DEF After
<1> HIDE DEF S
<1> QED BY <1>1, <1>3, <1>4

\* Every load stops the modem, clears the flags and starts the modem, in this order.
LEMMA Milestones ==
  ASSUME NEW ty \in LoadTypes
  PROVE  LET st == ty \ {"SP"}
         IN  /\ Needed("cpStop", ty, st)
             /\ Needed("clear", ty, st)
             /\ Needed("cpStart", ty, st)
             /\ Needed("finish", ty, st)
             /\ ~Needed("wait", ty, st) /\ ~Needed("bar", ty, st)
             /\ "MINIAP" \in ty => Needed("spl", ty, st)
BY DEF LoadTypes, LOAD_ALL_IMG, LOADL_ALL_EXTERNAL_IMG, LOAD_MODEM_IMG, Types, Needed

\* So no call leads past one of them, and none leads to the wait or to the BAR.
LEMMA Route ==
  ASSUME NEW ty \in LoadTypes, NEW k \in 1..17
  PROVE  \E n \in 1..18 :
           /\ After(Phases[k], ty, ty \ {"SP"}) = Phases[n]
           /\ n > k
           /\ n # 9 /\ n # 14
           /\ k < 5 => n <= 5
           /\ k < 7 => n <= 7
           /\ k < 17 => n <= 17
           /\ k = 7 /\ "MINIAP" \in ty => n = 8
<1> DEFINE st == ty \ {"SP"}
<1>1. PICK n \in 1..18 :
        /\ n > k
        /\ After(Phases[k], ty, st) = Phases[n]
        /\ Needed(Phases[n], ty, st)
        /\ \A i \in 1..18 : k < i /\ i < n => ~Needed(Phases[i], ty, st)
  BY AfterIsFirst
<1>2. /\ Needed(Phases[5], ty, st) /\ Needed(Phases[7], ty, st)
      /\ Needed(Phases[17], ty, st)
      /\ ~Needed(Phases[9], ty, st) /\ ~Needed(Phases[14], ty, st)
      /\ "MINIAP" \in ty => Needed(Phases[8], ty, st)
  BY Milestones, PhaseNames
<1> HIDE DEF st
<1>3. n # 9 /\ n # 14
  BY <1>1, <1>2
<1>4. k < 5 => n <= 5
  BY <1>1, <1>2
<1>5. k < 7 => n <= 7
  BY <1>1, <1>2
<1>6. k < 17 => n <= 17
  BY <1>1, <1>2
<1>7. k = 7 /\ "MINIAP" \in ty => n = 8
  BY <1>1, <1>2
<1> QED BY <1>1, <1>3, <1>4, <1>5, <1>6, <1>7 DEF st

\* Once a load has given up, nothing follows but its end.
LEMMA GivenUp ==
  ASSUME NEW k \in 1..17
  PROVE  After(Phases[k], {}, {}) = "finish"
<1>1. PICK n \in 1..18 : /\ After(Phases[k], {}, {}) = Phases[n]
                         /\ Needed(Phases[n], {}, {})
  BY AfterIsFirst
<1>2. Phases[n] = "finish"
  BY <1>1, PhaseNames DEF Needed
<1> QED BY <1>1, <1>2

\* The same by name: what load_modem_img does next.
LEMMA Routes ==
  ASSUME NEW ty \in LoadTypes
  PROVE  LET next(p) == After(p, ty, ty \ {"SP"})
         IN  /\ next("spStop") \in {"sp", "spStart", "dpStop", "cpStop"}
             /\ next("sp") \in {"spStart", "dpStop", "cpStop"}
             /\ next("spStart") \in {"dpStop", "cpStop"}
             /\ next("dpStop") = "cpStop"
             /\ next("cpStop") \in {"dp", "clear"}
             /\ next("dp") = "clear"
             /\ next("cpStart") = "finish"
<1> DEFINE next(p) == After(p, ty, ty \ {"SP"})
<1>1. next(Phases[1]) \in {"sp", "spStart", "dpStop", "cpStop"}
  <2>1. PICK n \in 1..18 : next(Phases[1]) = Phases[n] /\ n > 1 /\ n <= 5
    BY Route
  <2> QED BY <2>1, PhaseNames
<1>2. next(Phases[2]) \in {"spStart", "dpStop", "cpStop"}
  <2>1. PICK n \in 1..18 : next(Phases[2]) = Phases[n] /\ n > 2 /\ n <= 5
    BY Route
  <2> QED BY <2>1, PhaseNames
<1>3. next(Phases[3]) \in {"dpStop", "cpStop"}
  <2>1. PICK n \in 1..18 : next(Phases[3]) = Phases[n] /\ n > 3 /\ n <= 5
    BY Route
  <2> QED BY <2>1, PhaseNames
<1>4. next(Phases[4]) = "cpStop"
  <2>1. PICK n \in 1..18 : next(Phases[4]) = Phases[n] /\ n > 4 /\ n <= 5
    BY Route
  <2> QED BY <2>1, PhaseNames
<1>5. next(Phases[5]) \in {"dp", "clear"}
  <2>1. PICK n \in 1..18 : next(Phases[5]) = Phases[n] /\ n > 5 /\ n <= 7
    BY Route
  <2> QED BY <2>1, PhaseNames
<1>6. next(Phases[6]) = "clear"
  <2>1. PICK n \in 1..18 : next(Phases[6]) = Phases[n] /\ n > 6 /\ n <= 7
    BY Route
  <2> QED BY <2>1, PhaseNames
<1>7. next(Phases[17]) = "finish"
  <2>1. PICK n \in 1..18 : next(Phases[17]) = Phases[n] /\ n > 17
    BY Route
  <2> QED BY <2>1, PhaseNames
<1> QED BY <1>1, <1>2, <1>3, <1>4, <1>5, <1>6, <1>7, PhaseNames

\* The phases in which flags are set, in their order.
Loading == Exclusive \ {"dp", "clear"}

\* Those that After leads to: to the wait and the BAR a load goes from a table.
Reached == Loading \ {"wait", "bar"}

LEMMA LoadingRoute ==
  ASSUME NEW ty \in LoadTypes, NEW p \in Exclusive \ {"dp", "cpStart"}
  PROVE  LET q == After(p, ty, ty \ {"SP"})
         IN  /\ q \in Reached
             /\ Place(q) \in Nat /\ Place(p) \in Nat
             /\ Place(p) < Place(q)
             /\ p = "clear" /\ "MINIAP" \in ty => q = "spl"
<1>1. PICK k \in 7..16 : p = Phases[k]
  BY PhaseNames DEF Exclusive
<1>2. PICK n \in 1..18 :
        /\ After(Phases[k], ty, ty \ {"SP"}) = Phases[n]
        /\ n > k
        /\ n # 9 /\ n # 14
        /\ k < 17 => n <= 17
        /\ k = 7 /\ "MINIAP" \in ty => n = 8
  BY Route
<1>3. n \in 8..17 /\ n # 9 /\ n # 14
  BY <1>2
<1>4. Phases[n] \in Reached
  BY <1>3, PhaseNames DEF Reached, Loading, Exclusive
<1>5. Place(Phases[k]) = k /\ Place(Phases[n]) = n
  BY PlaceOf, <1>3
<1>6. p = "clear" => k = 7
  BY <1>1, <1>5, Placement
<1> QED BY <1>1, <1>2, <1>3, <1>4, <1>5, <1>6, PhaseNames

-----------------------------------------------------------------------------
(***************************************************************************)
(* The walk over a table of the CP.                                        *)
(***************************************************************************)
LEMMA TableLength == Len(CpTable) \in Nat /\ Entries = 1..Len(CpTable)
BY TableAssumption DEF Entries

\* The walk goes to the next wanted entry, or behind the last.
LEMMA EntryIs ==
  ASSUME NEW p \in CpTables, NEW i \in Nat, i >= 1, i <= Len(CpTable) + 1
  PROVE  /\ Entry(p, i) \in i..Len(CpTable) + 1
         /\ Entry(p, i) \in Entries => Wanted(p, Entry(p, i))
         /\ \A j \in Entries : i <= j /\ j < Entry(p, i) => ~Wanted(p, j)
<1> DEFINE S == {j \in Entries : j >= i /\ Wanted(p, j)} \cup {Len(CpTable) + 1}
<1>1. S \in SUBSET Nat /\ S # {}
  BY TableLength
<1>2. Entry(p, i) = Min(S)
  BY DEF Entry, CpTables
<1>3. Min(S) \in S /\ \A y \in S : Min(S) <= y
  <2> HIDE DEF S
  <2> QED BY <1>1, HasMin
<1>4. Entry(p, i) \in Nat /\ i <= Entry(p, i) /\ Entry(p, i) <= Len(CpTable) + 1
  BY <1>2, <1>3, TableLength
<1>5. Entry(p, i) \in Entries => Wanted(p, Entry(p, i))
  BY <1>2, <1>3, TableLength
<1>6. \A j \in Entries : i <= j /\ j < Entry(p, i) => ~Wanted(p, j)
  BY <1>2, <1>3, TableLength
<1> QED BY <1>4, <1>5, <1>6, TableLength

\* What Enter does to the thread that goes on, and not to the others.
LEMMA Enters ==
  ASSUME TypeOK, NEW t \in Threads, NEW q \in Labels, Enter(t, q)
  PROVE  /\ pc' \in [Threads -> Labels]
         /\ at' \in [Threads -> Nat]
         /\ io' \in [Threads -> {"pick", "open", "copy"}]
         /\ err' \in [Threads -> BOOLEAN]
         /\ pc'[t] = q
         /\ at'[t] = (IF q \in Tables THEN Entry(q, 1) ELSE 1)
         /\ io'[t] = "pick"
         /\ err'[t] = FALSE
         /\ \A u \in Threads \ {t} : /\ pc'[u] = pc[u] /\ at'[u] = at[u]
                                     /\ io'[u] = io[u] /\ err'[u] = err[u]
<1>1. (IF q \in Tables THEN Entry(q, 1) ELSE 1) \in Nat
  <2>1. CASE q \in CpTables
    BY <2>1, EntryIs, TableLength
  <2>2. CASE q \in {"sp", "dp"}
    BY <2>2 DEF Entry
  <2> QED BY <2>1, <2>2 DEF CpTables
<1> QED BY <1>1 DEF Enter, TypeOK

\* What is left of the budget only falls, so no failure is forgotten,
\* nor that a load gave up.
Books == /\ left' \in Remaining
         /\ \A e \in Events : left'[e] <= left[e]
         /\ gaveup' \in BOOLEAN /\ (gaveup => gaveup')

LEMMA SpendsLeft ==
  ASSUME left \in Remaining, left' = left \/ \E e \in Events : Spend(e)
  PROVE  left' \in Remaining /\ \A e \in Events : left'[e] <= left[e]
<1>1. /\ left \in [Events -> Nat] /\ \A e \in Events : left[e] <= Budget[e]
      /\ \A e \in Events : Budget[e] \in Nat
  BY BudgetAssumption DEF Remaining
<1>2. CASE left' = left
  BY <1>1, <1>2
<1>3. ASSUME NEW e \in Events, Spend(e)
      PROVE  left' \in Remaining /\ \A f \in Events : left'[f] <= left[f]
  <2>1. left' \in [Events -> Nat] /\ \A f \in Events : left'[f] <= left[f]
    BY <1>1, <1>3 DEF Spend
  <2>2. \A f \in Events : left'[f] <= Budget[f]
    BY <1>1, <2>1
  <2> QED BY <2>1, <2>2 DEF Remaining
<1> QED BY <1>2, <1>3

\* The event that a step spends has happened from then on.
LEMMA SpentFailed ==
  ASSUME left \in Remaining, NEW e \in Events, Spend(e)
  PROVE  Failed(e)'
<1>1. left \in [Events -> Nat] /\ left[e] <= Budget[e] /\ Budget[e] \in Nat
  BY BudgetAssumption DEF Remaining
<1> QED BY <1>1 DEF Spend, Failed

\* A failure is not undone.
LEMMA FailedStays ==
  ASSUME left \in Remaining, Books, NEW e \in Events, Failed(e)
  PROVE  Failed(e)'
<1>1. left[e] \in Nat /\ left'[e] \in Nat /\ left'[e] <= left[e] /\ Budget[e] \in Nat
  BY BudgetAssumption DEF Remaining, Books
<1> QED BY <1>1 DEF Failed

LEMMA StepBooks ==
  ASSUME TypeOK, [Next]_vars
  PROVE  Books
<1>1. \A t \in Threads : LoadImages(t) =>
        gaveup' = gaveup /\ (left' = left \/ \E e \in Events : Spend(e))
  <2>1. {"region", "spl", "image"} \subseteq Events
    BY DEF Events
  <2> QED BY <2>1 DEF LoadImages, SelectRegion, CopyBegin, CopyEnd
<1>2. (gaveup' = gaveup \/ gaveup' = TRUE) /\ (left' = left \/ \E e \in Events : Spend(e))
  <2>1. Events = {"load", "warm", "image", "spl", "ddr", "region", "clear", "ioctl", "rescan"}
    BY DEF Events
  <2>2. CASE BootLoad \/ ReloadModem \/ RebootAllModem
    BY <2>1, <2>2 DEF BootLoad, ReloadModem, RebootAllModem
  <2>3. CASE LoadModemImg
    <3>1. ASSUME NEW p \in {"spStop", "dpStop", "cpStop"}, Stop(p)
          PROVE  gaveup' = gaveup /\ left' = left
      BY <3>1 DEF Stop
    <3>2. ASSUME NEW p \in {"spStart", "dpStart", "cpStart"}, Start(p)
          PROVE  gaveup' = gaveup /\ left' = left
      BY <3>2 DEF Start
    <3>3. ASSUME NEW p \in Tables, TableDone(p)
          PROVE  /\ gaveup' = gaveup \/ gaveup' = TRUE
                 /\ left' = left \/ \E e \in Events : Spend(e)
      BY <2>1, <3>3 DEF TableDone, GiveUp, GoOn, SetRemoteFlag
    <3>4. CASE ClearFlags \/ WaitRemote \/ RescanBar \/ Finish
      BY <2>1, <3>4
      DEF ClearFlags, SetRemoteFlag, WaitRemote, RescanBar, Finish, GiveUp, GoOn
    <3> QED BY <1>1, <2>3, <3>1, <3>2, <3>3, <3>4 DEF LoadModemImg, Threads
  <2>4. ASSUME NEW w \in Warms, WarmReset(w) \/ LoadSplImg(w)
        PROVE  /\ gaveup' = gaveup \/ gaveup' = TRUE
               /\ left' = left \/ \E e \in Events : Spend(e)
    BY <1>1, <2>1, <2>4
    DEF WarmReset, LoadSplImg, LockForSpl, ClearForSpl, SplLoaded, UnlockAfterSpl,
        SetRemoteFlag, Threads
  <2>5. CASE DdrReady
    BY <2>5 DEF DdrReady
  <2>6. CASE UNCHANGED vars
    BY <2>6 DEF vars
  <2> QED BY <2>2, <2>3, <2>4, <2>5, <2>6 DEF Next
<1>3. gaveup' \in BOOLEAN
  BY <1>2, Zenon DEF TypeOK
<1>4. gaveup => gaveup'
  BY <1>2, Zenon
<1> QED BY <1>2, <1>3, <1>4, SpendsLeft DEF TypeOK, Books

LEMMA EnterPositions ==
  ASSUME TypeOK, Positions, Books, NEW t \in Threads, NEW q \in Labels, Enter(t, q),
         region' = region
  PROVE  Positions'
<1>0. USE Enters
<1>1. ASSUME NEW u \in Threads, pc'[u] \in CpTables
      PROVE  at'[u] \in 1..Len(CpTable) + 1 /\ (at'[u] \in Entries => Wanted(pc'[u], at'[u]))
  <2>1. CASE u = t
    <3>1. q \in CpTables /\ at'[u] = Entry(q, 1) /\ pc'[u] = q
      BY <1>1, <2>1 DEF CpTables
    <3> QED BY <3>1, EntryIs, TableLength
  <2>2. CASE u # t
    BY <1>1, <2>2 DEF Positions
  <2> QED BY <2>1, <2>2
<1>2. ~Failed("region")' => ~Failed("region")
  BY FailedStays DEF TypeOK, Events
<1>3. ASSUME NEW u \in Threads, io'[u] # "pick"
      PROVE  Walking(u)' /\ (~Failed("region")' /\ OnCp(u)' => region' = at'[u])
  BY <1>2, <1>3 DEF Positions, Walking, OnCp
<1> QED BY <1>1, <1>3 DEF Positions

\* Only one thread at a time walks a table.
LEMMA Alone ==
  ASSUME LoadInv, NEW t \in Threads, NEW u \in Threads, pc[t] \in Tables, pc[u] \in Tables
  PROVE  t = u
BY WarmsAssumption
DEF LoadInv, Places, Owners, FirstLoad, Threads, Tables, Exclusive

-----------------------------------------------------------------------------
(***************************************************************************)
(* LoadInv is inductive.                                                   *)
(***************************************************************************)
LEMMA LoadInit == Init => LoadInv
<1> SUFFICES ASSUME Init PROVE LoadInv
  OBVIOUS
<1>1. TypeOK
  <2>1. PICK on \in BOOLEAN :
          /\ pc = [t \in Threads |-> IF t = "ld" /\ ~on THEN "boot!" ELSE "idle"]
          /\ mem = [i \in Entries |-> IF on THEN i ELSE 0]
          /\ ddr = on
          /\ running = on
    BY DEF Init
  <2>2. pc \in [Threads -> Labels]
    BY <2>1 DEF Labels
  <2>3. mem \in [Entries -> {0} \cup Entries]
    BY <2>1
  <2>4. left \in Remaining
    BY BudgetAssumption DEF Init, Remaining
  <2>5. ddr \in BOOLEAN /\ running \in BOOLEAN /\ warm \in BOOLEAN /\ bus \in BOOLEAN
        /\ wake \in BOOLEAN /\ gaveup \in BOOLEAN
    BY <2>1, Zenon DEF Init
  <2> QED BY <2>2, <2>3, <2>4, <2>5 DEF Init, TypeOK, Threads
<1>2. Places /\ Jobs /\ Owners /\ FirstLoad
  BY WarmsAssumption, PhaseRange
  DEF Init, Threads, Places, Jobs, Owners, FirstLoad, Exclusive
<1>3. Positions
  BY DEF Init, Positions, CpTables, Tables
<1> QED BY <1>1, <1>2, <1>3 DEF LoadInv

\* What is common to the steps of load_modem_img ...
LEMMA LdEnters ==
  ASSUME LoadInv, Books, NEW q \in Range(Phases) \cup {"idle"}, Enter("ld", q), region' = region
  PROVE  /\ pc' \in [Threads -> Labels]
         /\ at' \in [Threads -> Nat]
         /\ io' \in [Threads -> {"pick", "open", "copy"}]
         /\ err' \in [Threads -> BOOLEAN]
         /\ pc'["ld"] = q
         /\ \A w \in Warms : pc'[w] = pc[w]
         /\ Places'
         /\ Positions'
<1>1. "ld" \in Threads /\ q \in Labels /\ \A w \in Warms : w \in Threads \ {"ld"}
  BY WarmsAssumption DEF Threads, Labels
<1>2. /\ pc' \in [Threads -> Labels]
      /\ at' \in [Threads -> Nat]
      /\ io' \in [Threads -> {"pick", "open", "copy"}]
      /\ err' \in [Threads -> BOOLEAN]
      /\ pc'["ld"] = q
      /\ \A u \in Threads \ {"ld"} : pc'[u] = pc[u]
  BY <1>1, Enters DEF LoadInv
<1>3. Positions'
  BY <1>1, EnterPositions DEF LoadInv
<1>4. Places'
  BY <1>1, <1>2 DEF LoadInv, Places
<1> QED BY <1>1, <1>2, <1>3, <1>4

\* ... and to those of load_spl_img.
LEMMA WarmEnters ==
  ASSUME LoadInv, Books, NEW w \in Warms,
         NEW q \in {"idle", "lock", "clear", "spl", "relock", "unlock"},
         Enter(w, q), region' = region
  PROVE  /\ pc' \in [Threads -> Labels]
         /\ at' \in [Threads -> Nat]
         /\ io' \in [Threads -> {"pick", "open", "copy"}]
         /\ err' \in [Threads -> BOOLEAN]
         /\ pc'[w] = q
         /\ \A u \in Threads \ {w} : pc'[u] = pc[u]
         /\ pc'["ld"] = pc["ld"]
         /\ Places'
         /\ Positions'
<1>1. w \in Threads /\ q \in Labels /\ "ld" \in Threads \ {w} /\ Warms \subseteq Threads
  BY WarmsAssumption, PhaseRange DEF Threads, Labels
<1>2. /\ pc' \in [Threads -> Labels]
      /\ at' \in [Threads -> Nat]
      /\ io' \in [Threads -> {"pick", "open", "copy"}]
      /\ err' \in [Threads -> BOOLEAN]
      /\ pc'[w] = q
      /\ \A u \in Threads \ {w} : pc'[u] = pc[u]
  BY <1>1, Enters DEF LoadInv
<1>3. Positions'
  BY <1>1, EnterPositions DEF LoadInv
<1>4. Places'
  BY <1>1, <1>2 DEF LoadInv, Places
<1> QED BY <1>1, <1>2, <1>3, <1>4

\* The entry of load_modem_img; the SP is loaded only when main boots the modem.
LEMMA BeginKeeps ==
  ASSUME LoadInv, NEW ty \in LoadTypes, pc["ld"] \in {"idle", "boot!"},
         "SP" \in ty => pc["ld"] = "boot!", Begin(ty), lock' = lock, region' = region,
         mem' \in [Entries -> {0} \cup Entries], flags' \in SUBSET Flags,
         warm' = warm, ddr' \in BOOLEAN, running' \in {running, FALSE}, bus' = bus,
         Books
  PROVE  LoadInv' /\ pc'["ld"] \in {"spStop", "dpStop", "cpStop"}
                  /\ \A w \in Warms : pc'[w] = pc[w]
<1> DEFINE q == IF "SP" \in ty THEN "spStop" ELSE After("spStart", ty, ty)
<1>1. q \in {"spStop", "dpStop", "cpStop"} /\ (q = "spStop" => "SP" \in ty)
  <2>1. "SP" \notin ty => ty \ {"SP"} = ty
    BY DEF LoadTypes, LOAD_ALL_IMG, LOADL_ALL_EXTERNAL_IMG, LOAD_MODEM_IMG
  <2> QED BY <2>1, Routes
<1>2. Enter("ld", q) /\ q \in Range(Phases)
  BY <1>1, PhaseRange DEF Begin
<1> HIDE DEF q
<1>3. /\ pc' \in [Threads -> Labels]
      /\ at' \in [Threads -> Nat]
      /\ io' \in [Threads -> {"pick", "open", "copy"}]
      /\ err' \in [Threads -> BOOLEAN]
      /\ pc'["ld"] = q
      /\ \A w \in Warms : pc'[w] = pc[w]
      /\ Places'
      /\ Positions'
  BY <1>2, LdEnters
<1>4. TypeOK'
  <2>1. ty \subseteq Types
    BY DEF LoadTypes, LOAD_ALL_IMG, LOADL_ALL_EXTERNAL_IMG, LOAD_MODEM_IMG, Types
  <2>2. /\ warm' \in BOOLEAN /\ running' \in BOOLEAN /\ bus' \in BOOLEAN
        /\ wake' \in BOOLEAN
    BY Zenon DEF LoadInv, TypeOK, Begin
  <2>3. type' \in SUBSET Types /\ start' \in SUBSET Types
    BY <2>1 DEF Begin
  <2>4. lock' \in [Devices -> Threads \cup {"free"}] /\ region' \in {0} \cup Entries
    BY DEF LoadInv, TypeOK
  <2>5. state' \in {"other", "LOADING", "BOOTING"}
    BY DEF Begin
  <2> QED BY <1>3, <2>2, <2>3, <2>4, <2>5 DEF TypeOK, Books
<1>5. Jobs'
  BY DEF Begin, Jobs
<1>6. Owners'
  BY <1>1, <1>3 DEF LoadInv, Owners, Exclusive
<1>7. FirstLoad'
  <2>1. ~running => ~running'
    BY Zenon
  <2>2. pc'["ld"] = "spStop" => ~running /\ \A w \in Warms : pc[w] = "idle"
    BY <1>1, <1>3 DEF LoadInv, FirstLoad
  <2>3. pc'["ld"] \in {"boot!", "spStop", "sp", "spStart"} => pc'["ld"] = "spStop"
    BY <1>1, <1>3
  <2> QED BY <1>3, <2>1, <2>2, <2>3, Zenon DEF FirstLoad
<1> QED BY <1>1, <1>3, <1>4, <1>5, <1>6, <1>7 DEF LoadInv

LEMMA JobsRun ==
  ASSUME LoadInv, NEW p \in Range(Phases) \ {"finish"}, pc["ld"] = p
  PROVE  type \in LoadTypes /\ start = type \ {"SP"}
BY DEF LoadInv, Jobs

LEMMA StopKeeps ==
  ASSUME LoadInv, Books, NEW p \in {"spStop", "dpStop", "cpStop"}, Stop(p)
  PROVE  LoadInv'
<1> DEFINE q == After(p, type, start)
<1>1. type \in LoadTypes /\ start = type \ {"SP"} /\ pc["ld"] = p
  BY JobsRun, PhaseRange DEF Stop
<1>2. /\ q \in {"sp", "spStart", "dpStop", "cpStop", "dp", "clear"}
      /\ q \in {"sp", "spStart"} => p = "spStop"
      /\ q \in {"dp", "clear"} => p = "cpStop"
  BY <1>1, Routes
<1>3. Enter("ld", q) /\ q \in Range(Phases) /\ region' = region
  BY <1>2, PhaseRange DEF Stop
<1> HIDE DEF q
<1>4. /\ pc' \in [Threads -> Labels]
      /\ at' \in [Threads -> Nat]
      /\ io' \in [Threads -> {"pick", "open", "copy"}]
      /\ err' \in [Threads -> BOOLEAN]
      /\ pc'["ld"] = q
      /\ \A w \in Warms : pc'[w] = pc[w]
      /\ Places'
      /\ Positions'
  BY <1>3, LdEnters
<1>5. Device(p) \in Devices /\ (Device(p) = "cp" <=> p = "cpStop")
  BY DEF Device, Devices
<1>6. lock' = [lock EXCEPT ![Device(p)] = "ld"] /\ lock[Device(p)] = "free"
  BY DEF Stop, LockWrite
<1>7. lock' \in [Devices -> Threads \cup {"free"}]
  BY <1>5, <1>6 DEF LoadInv, TypeOK, Threads
<1>8. running' = (running /\ p # "cpStop") /\ running' \in BOOLEAN
  BY Zenon DEF Stop, LoadInv, TypeOK
<1>9. TypeOK'
  BY <1>4, <1>7, <1>8 DEF LoadInv, TypeOK, Stop, Books
<1>10. Jobs'
  BY <1>1 DEF Jobs, Stop
<1>11. Owners'
  <2>1. q \in {"dp", "clear"} => lock'["cp"] = "ld"
    BY <1>2, <1>5, <1>6 DEF LoadInv, TypeOK
  <2>2. q \in {"dp", "clear"} => ~running'
    BY <1>2, <1>8, Zenon
  <2>3. q \in Exclusive => q \in {"dp", "clear"}
    BY <1>2 DEF Exclusive
  <2>4. ASSUME NEW w \in Warms, pc'[w] \in {"clear", "spl", "relock", "unlock"}
        PROVE  lock'["cp"] = w
    <3>1. lock["cp"] = w /\ w # "free"
      BY <1>4, <2>4, WarmsAssumption DEF LoadInv, Owners
    <3> QED BY <1>5, <1>6, <3>1 DEF LoadInv, TypeOK, Devices
  <2> QED BY <1>4, <2>1, <2>2, <2>3, <2>4 DEF Owners
<1>12. FirstLoad'
  <2>1. q \in {"boot!", "spStop", "sp", "spStart"} => p = "spStop"
    BY <1>2
  <2>2. ~running => ~running'
    BY <1>8, Zenon
  <2> QED BY <1>1, <1>4, <2>1, <2>2 DEF LoadInv, FirstLoad
<1> QED BY <1>4, <1>9, <1>10, <1>11, <1>12 DEF LoadInv

LEMMA StartKeeps ==
  ASSUME LoadInv, Books, NEW p \in {"spStart", "dpStart", "cpStart"}, Start(p)
  PROVE  LoadInv'
<1> DEFINE q == After(p, type, start)
<1>1. type \in LoadTypes /\ start = type \ {"SP"} /\ pc["ld"] = p
  BY JobsRun, PhaseRange DEF Start
<1>2. /\ p = "spStart" => q \in {"dpStop", "cpStop"}
      /\ p = "dpStart" => q \in Loading
      /\ p = "cpStart" => q = "finish"
  BY <1>1, Routes, LoadingRoute DEF Exclusive, Reached
<1>3. Enter("ld", q) /\ q \in Range(Phases) /\ region' = region
  BY <1>2, PhaseRange DEF Start, Reached, Loading, Exclusive
<1> HIDE DEF q
<1>4. /\ pc' \in [Threads -> Labels]
      /\ at' \in [Threads -> Nat]
      /\ io' \in [Threads -> {"pick", "open", "copy"}]
      /\ err' \in [Threads -> BOOLEAN]
      /\ pc'["ld"] = q
      /\ \A w \in Warms : pc'[w] = pc[w]
      /\ Places'
      /\ Positions'
  BY <1>3, LdEnters
<1>5. Device(p) \in Devices /\ (Device(p) = "cp" <=> p = "cpStart")
  BY DEF Device, Devices
<1>6. lock' = [lock EXCEPT ![Device(p)] = "free"]
  BY DEF Start, UnlockWrite
<1>7. lock' \in [Devices -> Threads \cup {"free"}]
  BY <1>5, <1>6 DEF LoadInv, TypeOK
<1>8. running' = (running \/ p = "cpStart") /\ running' \in BOOLEAN
  BY Zenon DEF Start, LoadInv, TypeOK
<1>9. TypeOK'
  BY <1>4, <1>7, <1>8 DEF LoadInv, TypeOK, Start, Books
<1>10. Jobs'
  BY <1>1 DEF Jobs, Start
<1>11. Owners'
  <2>1. q \in Exclusive => p = "dpStart" /\ lock["cp"] = "ld" /\ ~running
    BY <1>1, <1>2 DEF LoadInv, Owners, Exclusive
  <2>2. q \in Exclusive => lock'["cp"] = "ld"
    BY <2>1, <1>5, <1>6 DEF LoadInv, TypeOK
  <2>3. q \in Exclusive => ~running'
    BY <2>1, <1>8, Zenon
  <2>4. ASSUME NEW w \in Warms, pc'[w] \in {"clear", "spl", "relock", "unlock"}
        PROVE  lock'["cp"] = w
    <3>1. lock["cp"] = w
      BY <1>4, <2>4 DEF LoadInv, Owners
    <3>2. p # "cpStart"
      BY <1>1, <3>1, WarmsAssumption DEF LoadInv, Owners, Exclusive
    <3> QED BY <1>5, <1>6, <3>1, <3>2 DEF LoadInv, TypeOK, Devices
  <2> QED BY <1>4, <2>2, <2>3, <2>4 DEF Owners
<1>12. FirstLoad'
  BY <1>2, <1>4 DEF FirstLoad, Loading, Exclusive
<1> QED BY <1>4, <1>9, <1>10, <1>11, <1>12 DEF LoadInv

\* The other steps of load_modem_img leave the locks and the modem as they are.
LEMMA LdGoesOn ==
  ASSUME LoadInv, Books, NEW q \in Range(Phases) \cup {"idle"}, Enter("ld", q),
         q \in Exclusive => pc["ld"] \in Exclusive,
         q \in {"spStop", "sp", "spStart"} => pc["ld"] \in {"spStop", "sp", "spStart"},
         UNCHANGED <<lock, region, mem, ddr, running, bus>>,
         flags' \in SUBSET Flags, warm' \in BOOLEAN, wake' \in BOOLEAN,
         type' \in SUBSET Types, start' \in SUBSET Types,
         q \notin {"idle", "finish"} => type' \in LoadTypes /\ start' = type' \ {"SP"},
         state' \in {"other", "LOADING", "BOOTING"}
  PROVE  LoadInv' /\ pc'["ld"] = q /\ \A w \in Warms : pc'[w] = pc[w]
<1>1. /\ pc' \in [Threads -> Labels]
      /\ at' \in [Threads -> Nat]
      /\ io' \in [Threads -> {"pick", "open", "copy"}]
      /\ err' \in [Threads -> BOOLEAN]
      /\ pc'["ld"] = q
      /\ \A w \in Warms : pc'[w] = pc[w]
      /\ Places'
      /\ Positions'
  BY LdEnters
<1>2. TypeOK'
  <2>1. ddr' \in BOOLEAN /\ running' \in BOOLEAN /\ bus' \in BOOLEAN
    BY Zenon DEF LoadInv, TypeOK
  <2> QED BY <1>1, <2>1 DEF LoadInv, TypeOK, Books
<1>3. Jobs'
  BY <1>1, PhaseRange DEF Jobs
<1>4. Owners'
  BY <1>1 DEF LoadInv, Owners
<1>5. FirstLoad'
  BY <1>1, PhaseRange DEF LoadInv, FirstLoad
<1> QED BY <1>1, <1>2, <1>3, <1>4, <1>5 DEF LoadInv

\* The word of flags is set, or the ioctl has failed.
LEMMA SetsFlags ==
  ASSUME TypeOK, NEW fs \in SUBSET Flags, SetRemoteFlag(fs)
  PROVE  /\ flags' \in SUBSET Flags
         /\ flags' \subseteq flags \cup fs
         /\ fs = {} => flags' = {} \/ (Failed("clear")' /\ flags' = flags)
<1>1. flags \in SUBSET Flags /\ left \in Remaining
  BY DEF TypeOK
<1>2. CASE flags' \in (IF fs = {} THEN {{}} ELSE {fs, flags \cup fs})
  BY <1>1, <1>2
<1>3. CASE Spend(IF fs = {} THEN "clear" ELSE "ioctl") /\ UNCHANGED flags
  <2>1. fs = {} => Failed("clear")'
    BY <1>1, <1>3, SpentFailed DEF Events
  <2> QED BY <1>1, <1>3, <2>1
<1> QED BY <1>2, <1>3 DEF SetRemoteFlag

LEMMA ClearKeeps ==
  ASSUME LoadInv, Books, ClearFlags
  PROVE  LoadInv' /\ pc'["ld"] \in Reached
                  /\ ("MINIAP" \in type => pc'["ld"] = "spl")
                  /\ (~Failed("clear")' => flags' = {}) /\ \A w \in Warms : pc'[w] = pc[w]
<1> DEFINE q == After("clear", type, start)
<1>1. type \in LoadTypes /\ start = type \ {"SP"} /\ pc["ld"] = "clear"
  BY JobsRun, PhaseRange DEF ClearFlags
<1>2. q \in Reached /\ ("MINIAP" \in type => q = "spl")
  BY <1>1, LoadingRoute DEF Exclusive
<1>3. q \in Range(Phases) /\ q \notin {"spStop", "sp", "spStart"}
  BY <1>2, PhaseRange DEF Reached, Loading, Exclusive
<1>4. Enter("ld", q)
  BY DEF ClearFlags
<1>5. (~Failed("clear")' => flags' = {}) /\ flags' \in SUBSET Flags
  BY SetsFlags DEF ClearFlags, LoadInv
<1>6. /\ UNCHANGED <<lock, region, mem, ddr, running, bus, type, start>>
      /\ warm' \in BOOLEAN /\ wake' \in BOOLEAN
      /\ state' \in {"other", "LOADING", "BOOTING"}
  BY Zenon DEF ClearFlags, LoadInv, TypeOK
<1>7. type' \in SUBSET Types /\ start' \in SUBSET Types
  BY <1>6 DEF LoadInv, TypeOK
<1> HIDE DEF q
<1>8. LoadInv' /\ pc'["ld"] = q /\ \A w \in Warms : pc'[w] = pc[w]
  BY <1>1, <1>2, <1>3, <1>4, <1>5, <1>6, <1>7, LdGoesOn DEF Exclusive
<1> QED BY <1>2, <1>5, <1>8

\* Where a load goes after a table.
LEMMA TableRoute ==
  ASSUME LoadInv, NEW p \in Tables, TableDone(p)
  PROVE  LET q == Then(p)
         IN  /\ pc["ld"] = p
             /\ type' \in SUBSET Types /\ start' \in SUBSET Types
             /\ Enter("ld", q)
             /\ p = "sp" => q \in {"spStart", "dpStop", "cpStop"}
             /\ p = "dp" => q = "clear"
             /\ p \in CpTables => q \in Loading \cup {"finish"}
             /\ p = "spl" => q \in {"wait", "finish"}
             /\ q = "wait" => p = "spl"
             /\ q \in Loading => p \in CpTables /\ Place(p) < Place(q)
             /\ q = "finish" => gaveup'
             /\ q # "finish" => /\ type' = type /\ type' \in LoadTypes
                                /\ start' = type' \ {"SP"}
                                /\ gaveup' = gaveup
<1> DEFINE q == Then(p)
<1>1. pc["ld"] = p /\ Enter("ld", q)
  BY DEF TableDone, TableWalked
<1>2. type \in LoadTypes /\ start = type \ {"SP"}
  BY <1>1, JobsRun, PhaseRange DEF Tables
<1>3. CASE p = "spl" /\ err["ld"]
  <2>1. type' = {} /\ start' = {} /\ gaveup'
    BY <1>3 DEF TableDone, GiveUp
  <2>2. After(Phases[8], {}, {}) = "finish"
    BY GivenUp
  <2>3. q = "finish"
    BY <1>3, <2>1, <2>2, PhaseNames DEF Then
  <2> HIDE DEF q
  <2> QED BY <1>1, <1>3, <2>1, <2>3 DEF CpTables, Loading, Exclusive, q
<1>4. CASE ~(p = "spl" /\ err["ld"])
  <2>1. type' = type /\ start' = start /\ gaveup' = gaveup
    BY <1>4 DEF TableDone, GoOn
  <2>2. CASE p = "spl"
    <3>1. q = "wait" /\ Place("spl") < Place("wait")
      BY <1>4, <2>2, Placement DEF Then
    <3> HIDE DEF q
    <3> QED
      BY <1>1, <1>2, <2>1, <2>2, <3>1
      DEF CpTables, Tables, Loading, Exclusive, LoadInv, TypeOK, q
  <2>3. CASE p \in {"sp", "dp"}
    <3>1. q = After(p, type, type \ {"SP"})
      BY <1>2, <2>1, <2>3 DEF Then
    <3>2. /\ p = "sp" => q \in {"spStart", "dpStop", "cpStop"}
          /\ p = "dp" => q = "clear"
      BY <1>2, <3>1, Routes
    <3> HIDE DEF q
    <3>3. q \notin Loading /\ q # "finish" /\ q # "wait"
      BY <2>3, <3>2 DEF Loading, Exclusive
    <3> QED BY <1>1, <1>2, <2>1, <2>3, <3>2, <3>3 DEF CpTables, LoadInv, TypeOK, q
  <2>4. CASE p = "head" /\ ~err["ld"]
    <3>1. q = "bar" /\ Place("head") < Place("bar")
      BY <2>4, Placement DEF Then
    <3> HIDE DEF q
    <3> QED
      BY <1>1, <1>2, <2>1, <2>4, <3>1
      DEF CpTables, Tables, Loading, Exclusive, LoadInv, TypeOK, q
  <2>5. CASE p \in CpTables \ {"spl"} /\ ~(p = "head" /\ ~err["ld"])
    <3>1. q = After(p, type, type \ {"SP"})
      BY <1>2, <2>1, <2>5 DEF Then
    <3>2. q \in Reached /\ Place(p) < Place(q)
      BY <1>2, <2>5, <3>1, LoadingRoute DEF CpTables, Tables, Exclusive
    <3> HIDE DEF q
    <3>3. q \in Loading /\ q # "finish" /\ q # "wait"
      BY <3>2 DEF Reached, Loading, Exclusive
    <3> QED BY <1>1, <1>2, <2>1, <2>5, <3>2, <3>3 DEF CpTables, LoadInv, TypeOK, q
  <2> QED BY <2>2, <2>3, <2>4, <2>5 DEF CpTables
<1> QED BY <1>3, <1>4

LEMMA TableFlags ==
  ASSUME LoadInv, NEW p \in Tables, TableDone(p)
  PROVE  /\ flags' \in SUBSET Flags
         /\ flags' \subseteq flags \cup DoneFlag(p)
         /\ err["ld"] => flags' = flags
         /\ UNCHANGED <<lock, region, mem, warm, ddr, running, bus, wake, state>>
<1>1. DoneFlag(p) \in SUBSET Flags
  BY DEF DoneFlag, Flags
<1>2. CASE err["ld"] \/ DoneFlag(p) = {}
  BY <1>2 DEF TableDone, LoadInv, TypeOK
<1>3. CASE ~(err["ld"] \/ DoneFlag(p) = {})
  BY <1>1, <1>3, SetsFlags DEF TableDone, LoadInv
<1> QED BY <1>2, <1>3

LEMMA TableDoneKeeps ==
  ASSUME LoadInv, Books, NEW p \in Tables, TableDone(p)
  PROVE  LoadInv' /\ \A w \in Warms : pc'[w] = pc[w]
<1> DEFINE q == Then(p)
<1>1. /\ pc["ld"] = p
      /\ type' \in SUBSET Types /\ start' \in SUBSET Types
      /\ Enter("ld", q)
      /\ p = "sp" => q \in {"spStart", "dpStop", "cpStop"}
      /\ p = "dp" => q = "clear"
      /\ p \in CpTables => q \in Loading \cup {"finish"}
      /\ q # "finish" => type' \in LoadTypes /\ start' = type' \ {"SP"}
  BY TableRoute
<1> HIDE DEF q
<1>2. /\ q \in Range(Phases)
      /\ q \in Exclusive => p \in Exclusive
      /\ q \in {"spStop", "sp", "spStart"} => p \in {"spStop", "sp", "spStart"}
  BY <1>1, PhaseRange DEF Loading, Exclusive, CpTables, Tables
<1>3. /\ UNCHANGED <<lock, region, mem, ddr, running, bus>>
      /\ flags' \in SUBSET Flags
      /\ warm' = warm /\ wake' = wake /\ state' = state
  BY TableFlags
<1>4. /\ warm' \in BOOLEAN /\ wake' \in BOOLEAN
      /\ state' \in {"other", "LOADING", "BOOTING"}
  BY <1>3, Zenon DEF LoadInv, TypeOK
<1> QED BY <1>1, <1>2, <1>3, <1>4, LdGoesOn

\* Where a load goes after the wait and after the rescan of the bus.
LEMMA WaitRoute ==
  ASSUME LoadInv, NEW p \in {"wait", "bar"}, p = "wait" => WaitRemote, p = "bar" => RescanBar
  PROVE  LET q == After(p, type', start')
         IN  /\ pc["ld"] = p
             /\ type' \in SUBSET Types /\ start' \in SUBSET Types
             /\ Enter("ld", q)
             /\ q \in Reached \cup {"finish"}
             /\ q = "finish" => gaveup'
             /\ q # "finish" =>
                  /\ type' = type /\ type' \in LoadTypes /\ start' = type' \ {"SP"}
                  /\ gaveup' = gaveup
                  /\ Place(p) < Place(q)
                  /\ p = "wait" => "DDR" \in flags \/ Failed("ioctl")'
<1> DEFINE q == After(p, type', start')
<1>1. pc["ld"] = p /\ Enter("ld", q)
  BY DEF WaitRemote, RescanBar
<1>2. type \in LoadTypes /\ start = type \ {"SP"}
  BY <1>1, JobsRun, PhaseRange
<1>3. CASE GiveUp
  <2>1. After(Phases[9], {}, {}) = "finish" /\ After(Phases[14], {}, {}) = "finish"
    BY GivenUp
  <2>2. q = "finish"
    BY <1>3, <2>1, PhaseNames DEF GiveUp
  <2> HIDE DEF q
  <2> QED BY <1>1, <1>3, <2>2 DEF GiveUp, q
<1>4. CASE GoOn /\ (p = "wait" => "DDR" \in flags \/ Spend("ioctl"))
  <2>1. q \in Reached /\ Place(p) < Place(q)
    BY <1>2, <1>4, LoadingRoute DEF Exclusive, GoOn
  <2>2. p = "wait" => "DDR" \in flags \/ Failed("ioctl")'
    BY <1>4, SpentFailed DEF Events, LoadInv, TypeOK
  <2> HIDE DEF q
  <2>3. q # "finish"
    BY <2>1 DEF Reached, Loading, Exclusive
  <2> QED BY <1>1, <1>2, <1>4, <2>1, <2>2, <2>3 DEF LoadInv, TypeOK, GoOn, q
<1> QED BY <1>3, <1>4 DEF WaitRemote, RescanBar

LEMMA WaitKeeps ==
  ASSUME LoadInv, Books, WaitRemote \/ RescanBar
  PROVE  LoadInv' /\ \A w \in Warms : pc'[w] = pc[w]
<1>1. PICK p \in {"wait", "bar"} : (p = "wait" => WaitRemote) /\ (p = "bar" => RescanBar)
  OBVIOUS
<1> DEFINE q == After(p, type', start')
<1>2. /\ pc["ld"] = p
      /\ type' \in SUBSET Types /\ start' \in SUBSET Types
      /\ Enter("ld", q)
      /\ q \in Reached \cup {"finish"}
      /\ q # "finish" => type' \in LoadTypes /\ start' = type' \ {"SP"}
  BY <1>1, WaitRoute
<1> HIDE DEF q
<1>3. /\ q \in Range(Phases)
      /\ q \in Exclusive => pc["ld"] \in Exclusive
      /\ q \notin {"spStop", "sp", "spStart"}
  BY <1>2, PhaseRange DEF Reached, Loading, Exclusive
<1>4. UNCHANGED <<lock, region, mem, remote, bus, wake, state>>
  BY DEF WaitRemote, RescanBar
<1>5. /\ UNCHANGED <<lock, region, mem, ddr, running, bus>>
      /\ flags' \in SUBSET Flags /\ warm' \in BOOLEAN /\ wake' \in BOOLEAN
      /\ state' \in {"other", "LOADING", "BOOTING"}
  BY <1>4, Zenon DEF LoadInv, TypeOK, remote
<1> QED BY <1>2, <1>3, <1>5, LdGoesOn

LEMMA FinishKeeps ==
  ASSUME LoadInv, Books, Finish
  PROVE  LoadInv' /\ pc'["ld"] = "idle" /\ \A w \in Warms : pc'[w] = pc[w]
<1>1. pc["ld"] = "finish" /\ Enter("ld", "idle") /\ wake' = FALSE /\ state' = "BOOTING"
      /\ UNCHANGED <<type, start, lock, region, mem, remote, bus>>
  BY DEF Finish
<1>2. /\ UNCHANGED <<lock, region, mem, ddr, running, bus>>
      /\ flags' \in SUBSET Flags /\ warm' \in BOOLEAN /\ wake' \in BOOLEAN
      /\ state' \in {"other", "LOADING", "BOOTING"}
      /\ type' \in SUBSET Types /\ start' \in SUBSET Types
  BY <1>1, Zenon DEF LoadInv, TypeOK, remote
<1>3. "idle" \notin Exclusive
  BY DEF Exclusive
<1> QED BY <1>1, <1>2, <1>3, LdGoesOn

\* A thread that walks a table of the CP stands at an entry that is wanted.
LEMMA AtEntry ==
  ASSUME LoadInv, NEW t \in Threads, Walking(t), OnCp(t)
  PROVE  pc[t] \in CpTables /\ at[t] \in Entries /\ Wanted(pc[t], at[t])
<1>1. pc[t] \in CpTables /\ at[t] < Len(CpTable) + 1
  BY DEF Walking, OnCp, CpTables, End
<1>2. at[t] \in 1..Len(CpTable) + 1
  BY <1>1 DEF LoadInv, Positions
<1>3. at[t] \in Entries
  BY <1>1, <1>2, TableLength
<1> QED BY <1>1, <1>3 DEF LoadInv, Positions

LEMMA SelectKeeps ==
  ASSUME LoadInv, Books, NEW t \in Threads, SelectRegion(t)
  PROVE  LoadInv'
<1>1. /\ Walking(t) /\ io[t] = "pick"
      /\ io' = [io EXCEPT ![t] = "open"]
      /\ OnCp(t) => region' = at[t] \/ (region' = region /\ Failed("region")')
      /\ ~OnCp(t) => region' = region
      /\ UNCHANGED <<pc, type, start, at, err, lock, mem, flags, warm, ddr, running, bus, wake,
                     state>>
  BY SpentFailed DEF SelectRegion, remote, Events, LoadInv, TypeOK
<1>2. OnCp(t) => at[t] \in Entries
  BY <1>1, AtEntry
<1>3. TypeOK'
  <2>1. io' \in [Threads -> {"pick", "open", "copy"}]
    BY <1>1 DEF LoadInv, TypeOK
  <2>2. region' \in {0} \cup Entries
    BY <1>1, <1>2 DEF LoadInv, TypeOK
  <2> QED BY <1>1, <2>1, <2>2, Zenon DEF LoadInv, TypeOK, Books
<1>4. Places' /\ Jobs' /\ Owners' /\ FirstLoad'
  BY <1>1, Zenon DEF LoadInv, Places, Jobs, Owners, FirstLoad
<1>5. Positions'
  <2>1. ASSUME NEW u \in Threads, io'[u] # "pick"
        PROVE  Walking(u)' /\ (~Failed("region")' /\ OnCp(u)' => region' = at'[u])
    <3>1. Walking(u)
      BY <1>1, <2>1 DEF LoadInv, TypeOK, Positions
    <3>2. u = t
      BY <1>1, <3>1, Alone DEF Walking
    <3> QED BY <1>1, <3>1, <3>2 DEF Walking, OnCp
  <2> QED BY <1>1, <2>1 DEF LoadInv, Positions
<1> QED BY <1>3, <1>4, <1>5 DEF LoadInv

LEMMA CopyBeginKeeps ==
  ASSUME LoadInv, Books, NEW t \in Threads, CopyBegin(t)
  PROVE  LoadInv'
<1>1. /\ Walking(t) /\ io[t] = "open"
      /\ io' = [io EXCEPT ![t] = "copy"]
      /\ bus' = (bus /\ ~Guarded(t))
      /\ mem' = IF ToMem(t) THEN [mem EXCEPT ![region] = 0] ELSE mem
      /\ UNCHANGED <<pc, type, start, at, err, lock, region, flags, warm, ddr, running, wake,
                     state, gaveup, left>>
  BY DEF CopyBegin, remote
<1>2. TypeOK'
  <2>1. io' \in [Threads -> {"pick", "open", "copy"}]
    BY <1>1 DEF LoadInv, TypeOK
  <2>2. mem' \in [Entries -> {0} \cup Entries]
    BY <1>1 DEF LoadInv, TypeOK
  <2>3. bus' \in BOOLEAN
    BY <1>1, Zenon
  <2> QED BY <1>1, <2>1, <2>2, <2>3, Zenon DEF LoadInv, TypeOK
<1>3. Places' /\ Jobs' /\ Owners' /\ FirstLoad'
  BY <1>1, Zenon DEF LoadInv, Places, Jobs, Owners, FirstLoad
<1>4. Positions'
  BY <1>1 DEF LoadInv, TypeOK, Positions, Walking, OnCp, Failed
<1> QED BY <1>2, <1>3, <1>4 DEF LoadInv

LEMMA CopyEndKeeps ==
  ASSUME LoadInv, Books, NEW t \in Threads, CopyEnd(t)
  PROVE  LoadInv'
<1>1. /\ Walking(t) /\ io[t] = "copy"
      /\ io' = [io EXCEPT ![t] = "pick"]
      /\ at' = [at EXCEPT ![t] = Entry(pc[t], at[t] + 1)]
      /\ bus' = (bus \/ Guarded(t))
      /\ UNCHANGED <<pc, type, start, lock, region, flags, warm, ddr, running, wake, state>>
  BY DEF CopyEnd, remote
<1>2. pc[t] \in CpTables => /\ Entry(pc[t], at[t] + 1) \in 1..Len(CpTable) + 1
                            /\ Entry(pc[t], at[t] + 1) \in Entries =>
                                 Wanted(pc[t], Entry(pc[t], at[t] + 1))
  <2> SUFFICES ASSUME pc[t] \in CpTables
               PROVE  /\ Entry(pc[t], at[t] + 1) \in 1..Len(CpTable) + 1
                      /\ Entry(pc[t], at[t] + 1) \in Entries =>
                           Wanted(pc[t], Entry(pc[t], at[t] + 1))
    OBVIOUS
  <2>1. at[t] \in Entries
    BY <1>1, AtEntry DEF CpTables, OnCp
  <2>2. at[t] + 1 \in Nat /\ at[t] + 1 >= 1 /\ at[t] + 1 <= Len(CpTable) + 1
    BY <2>1, TableLength
  <2> QED BY <2>2, EntryIs, TableLength
<1>3. Entry(pc[t], at[t] + 1) \in Nat
  <2>1. CASE pc[t] \in CpTables
    BY <1>2, <2>1, TableLength
  <2>2. CASE pc[t] \in {"sp", "dp"}
    BY <2>2 DEF Entry, LoadInv, TypeOK
  <2> QED BY <1>1, <2>1, <2>2 DEF Walking, CpTables
<1>4. TypeOK'
  <2>1. io' \in [Threads -> {"pick", "open", "copy"}] /\ at' \in [Threads -> Nat]
    BY <1>1, <1>3 DEF LoadInv, TypeOK
  <2>2. bus' \in BOOLEAN
    BY <1>1, Zenon
  <2>3. mem' \in [Entries -> {0} \cup Entries]
    <3>1. OnCp(t) => at[t] \in Entries
      BY <1>1, AtEntry
    <3> QED BY <3>1 DEF CopyEnd, LoadInv, TypeOK, ToMem
  <2>4. err' \in [Threads -> BOOLEAN]
    BY DEF CopyEnd, LoadInv, TypeOK
  <2> QED BY <1>1, <2>1, <2>2, <2>3, <2>4, Zenon DEF LoadInv, TypeOK, Books
<1>5. Places' /\ Jobs' /\ Owners' /\ FirstLoad'
  BY <1>1, Zenon DEF LoadInv, Places, Jobs, Owners, FirstLoad
<1>6. Positions'
  <2>1. ASSUME NEW u \in Threads, pc'[u] \in CpTables
        PROVE  /\ at'[u] \in 1..Len(CpTable) + 1
               /\ at'[u] \in Entries => Wanted(pc'[u], at'[u])
    <3>1. CASE u = t
      BY <1>1, <1>2, <2>1, <3>1 DEF LoadInv, TypeOK
    <3>2. CASE u # t
      BY <1>1, <2>1, <3>2 DEF LoadInv, TypeOK, Positions
    <3> QED BY <3>1, <3>2
  <2>2. ASSUME NEW u \in Threads, io'[u] # "pick"
        PROVE  Walking(u)' /\ (~Failed("region")' /\ OnCp(u)' => region' = at'[u])
    <3>1. ~Failed("region")' => ~Failed("region")
      BY FailedStays DEF LoadInv, TypeOK, Events
    <3> QED BY <1>1, <2>2, <3>1 DEF LoadInv, TypeOK, Positions, Walking, OnCp
  <2> QED BY <2>1, <2>2 DEF Positions
<1> QED BY <1>4, <1>5, <1>6 DEF LoadInv

\* The steps of load_spl_img; who has the lock keeps it, and only a free lock is taken.
LEMMA WarmGoesOn ==
  ASSUME LoadInv, Books, NEW w \in Warms,
         NEW q \in {"idle", "lock", "clear", "spl", "relock", "unlock"}, Enter(w, q),
         \/ q \in {"idle", "lock"} /\ lock' = lock
         \/ q \in {"clear", "spl", "relock", "unlock"} /\ lock' = lock /\ lock["cp"] = w
         \/ /\ q \in {"clear", "spl", "relock", "unlock"}
            /\ LockWrite(w, "cp")
         \/ q = "idle" /\ lock["cp"] = w /\ UnlockWrite("cp"),
         q # "idle" => pc["ld"] \notin {"boot!", "spStop", "sp", "spStart"},
         UNCHANGED <<type, start, region, mem, running, bus, wake, state>>,
         flags' \in SUBSET Flags, warm' \in BOOLEAN, ddr' \in BOOLEAN
  PROVE  LoadInv' /\ pc'["ld"] = pc["ld"] /\ \A v \in Warms \ {w} : pc'[v] = pc[v]
<1>1. /\ pc' \in [Threads -> Labels]
      /\ at' \in [Threads -> Nat]
      /\ io' \in [Threads -> {"pick", "open", "copy"}]
      /\ err' \in [Threads -> BOOLEAN]
      /\ pc'[w] = q
      /\ \A u \in Threads \ {w} : pc'[u] = pc[u]
      /\ pc'["ld"] = pc["ld"]
      /\ Places'
      /\ Positions'
  BY WarmEnters
<1>2. /\ lock' \in [Devices -> Threads \cup {"free"}]
      /\ lock'["cp"] \in {lock["cp"], w, "free"}
      /\ lock'["cp"] # lock["cp"] => lock["cp"] \in {w, "free"}
      /\ q \in {"clear", "spl", "relock", "unlock"} => lock'["cp"] = w
  BY DEF LoadInv, TypeOK, LockWrite, UnlockWrite, Devices, Threads
<1>3. TypeOK'
  BY <1>1, <1>2, Zenon DEF LoadInv, TypeOK, Books
<1>4. Jobs'
  BY <1>1 DEF LoadInv, Jobs
<1>5. Owners'
  <2>1. pc'["ld"] \in Exclusive => lock'["cp"] = "ld" /\ ~running'
    BY <1>1, <1>2, WarmsAssumption DEF LoadInv, Owners
  <2>2. ASSUME NEW v \in Warms, pc'[v] \in {"clear", "spl", "relock", "unlock"}
        PROVE  lock'["cp"] = v
    <3>1. CASE v = w
      BY <1>1, <1>2, <2>2, <3>1
    <3>2. CASE v # w
      BY <1>1, <1>2, <2>2, <3>2, WarmsAssumption DEF LoadInv, Owners, Threads
    <3> QED BY <3>1, <3>2
  <2> QED BY <2>1, <2>2 DEF Owners
<1>6. FirstLoad'
  BY <1>1 DEF LoadInv, FirstLoad, Threads
<1> QED BY <1>1, <1>3, <1>4, <1>5, <1>6 DEF LoadInv, Threads

LEMMA WarmStepKeeps ==
  ASSUME LoadInv, Books, NEW w \in Warms,
         \/ WarmReset(w) \/ LockForSpl(w) \/ ClearForSpl(w) \/ SplLoaded(w)
         \/ UnlockAfterSpl(w)
  PROVE  LoadInv' /\ pc'["ld"] = pc["ld"] /\ (\A v \in Warms \ {w} : pc'[v] = pc[v])
         /\ flags' \in SUBSET Flags
<1>1. CASE WarmReset(w)
  <2>1. ddr' \in BOOLEAN
    BY <1>1 DEF WarmReset
  <2>2. pc["ld"] \notin {"boot!", "spStop", "sp", "spStart"}
    BY <1>1 DEF WarmReset, LoadInv, FirstLoad
  <2>3. /\ Enter(w, "lock") /\ lock' = lock
        /\ UNCHANGED <<type, start, region, mem, flags, warm, running, bus, wake, state>>
    BY <1>1 DEF WarmReset
  <2>4. flags' \in SUBSET Flags /\ warm' \in BOOLEAN
    BY <2>3, Zenon DEF LoadInv, TypeOK
  <2> QED BY <2>1, <2>2, <2>3, <2>4, WarmGoesOn
<1>2. CASE LockForSpl(w)
  <2>1. pc["ld"] \notin {"boot!", "spStop", "sp", "spStart"}
    BY <1>2 DEF LockForSpl, LoadInv, FirstLoad
  <2>2. /\ Enter(w, "clear") /\ LockWrite(w, "cp")
        /\ UNCHANGED <<type, start, region, mem, running, bus, wake, state>>
    BY <1>2 DEF LockForSpl, remote
  <2>3. flags' \in SUBSET Flags /\ warm' \in BOOLEAN /\ ddr' \in BOOLEAN
    BY <1>2, Zenon DEF LoadInv, TypeOK, LockForSpl, remote
  <2> QED BY <2>1, <2>2, <2>3, WarmGoesOn
<1>3. CASE ClearForSpl(w)
  <2>1. pc["ld"] \notin {"boot!", "spStop", "sp", "spStart"} /\ lock["cp"] = w
    BY <1>3 DEF ClearForSpl, LoadInv, FirstLoad, Owners
  <2>2. /\ Enter(w, "spl") /\ lock' = lock
        /\ UNCHANGED <<type, start, region, mem, running, bus, wake, state>>
    BY <1>3 DEF ClearForSpl
  <2>3. warm' \in BOOLEAN /\ ddr' \in BOOLEAN
    BY <1>3, Zenon DEF LoadInv, TypeOK, ClearForSpl
  <2>4. flags' \in SUBSET Flags
    BY <1>3, SetsFlags DEF ClearForSpl, LoadInv
  <2> QED BY <2>1, <2>2, <2>3, <2>4, WarmGoesOn
<1>4. CASE SplLoaded(w)
  <2>1. pc["ld"] \notin {"boot!", "spStop", "sp", "spStart"} /\ lock["cp"] = w
    BY <1>4 DEF SplLoaded, TableWalked, LoadInv, FirstLoad, Owners
  <2>2. /\ Enter(w, IF err[w] THEN "relock" ELSE "unlock") /\ lock' = lock
        /\ UNCHANGED <<type, start, region, mem, running, bus, wake, state>>
    BY <1>4 DEF SplLoaded
  <2>3. warm' \in BOOLEAN /\ ddr' \in BOOLEAN
    BY <1>4, Zenon DEF LoadInv, TypeOK, SplLoaded
  <2>4. flags' \in SUBSET Flags
    <3>1. {"SPL", "BIT1"} \in SUBSET Flags
      BY DEF Flags
    <3> QED BY <1>4, <3>1, SetsFlags DEF SplLoaded, LoadInv, TypeOK
  <2>5. CASE err[w]
    BY <2>1, <2>2, <2>3, <2>4, <2>5, WarmGoesOn
  <2>6. CASE ~err[w]
    BY <2>1, <2>2, <2>3, <2>4, <2>6, WarmGoesOn
  <2> QED BY <2>5, <2>6
<1>5. CASE UnlockAfterSpl(w)
  <2>1. lock["cp"] = w
    BY <1>5 DEF UnlockAfterSpl, LoadInv, Owners
  <2>2. /\ Enter(w, "idle") /\ UnlockWrite("cp")
        /\ UNCHANGED <<type, start, region, mem, running, bus, wake, state>>
    BY <1>5 DEF UnlockAfterSpl, remote
  <2>3. flags' \in SUBSET Flags /\ warm' \in BOOLEAN /\ ddr' \in BOOLEAN
    BY <1>5, Zenon DEF LoadInv, TypeOK, UnlockAfterSpl, remote
  <2> QED BY <2>1, <2>2, <2>3, WarmGoesOn
<1> QED BY <1>1, <1>2, <1>3, <1>4, <1>5

LEMMA DdrReadyKeeps ==
  ASSUME LoadInv, Books, DdrReady
  PROVE  LoadInv'
<1>1. /\ flags' = flags \cup {"DDR"} /\ ddr' = TRUE
      /\ UNCHANGED <<pc, type, start, at, io, err, lock, region, mem, warm, running, bus, wake,
                     state, gaveup, left>>
  BY DEF DdrReady, loop
<1>2. flags' \in SUBSET Flags
  BY <1>1 DEF LoadInv, TypeOK, Flags
<1>3. TypeOK'
  BY <1>1, <1>2, Zenon DEF LoadInv, TypeOK
<1>4. Places' /\ Jobs' /\ Owners' /\ FirstLoad' /\ Positions'
  BY <1>1, Zenon
  DEF LoadInv, Places, Jobs, Owners, FirstLoad, Positions, Walking, OnCp, Failed
<1> QED BY <1>3, <1>4 DEF LoadInv

LEMMA StutterKeeps ==
  ASSUME LoadInv, UNCHANGED vars
  PROVE  LoadInv'
<1>1. UNCHANGED <<pc, type, start, at, io, err, lock, region, mem, flags, warm, ddr, running,
                  bus, wake, state, gaveup, left>>
  BY DEF vars
<1>2. TypeOK'
  BY <1>1, Zenon DEF LoadInv, TypeOK
<1>3. Places' /\ Jobs' /\ Owners' /\ FirstLoad'
  BY <1>1, Zenon DEF LoadInv, Places, Jobs, Owners, FirstLoad
<1>4. Positions'
  BY <1>1, Zenon DEF LoadInv, Positions, Walking, OnCp, Failed
<1> QED BY <1>2, <1>3, <1>4 DEF LoadInv

LEMMA BootKeeps ==
  ASSUME LoadInv, Books, BootLoad \/ ReloadModem \/ RebootAllModem
  PROVE  LoadInv' /\ pc'["ld"] \in {"spStop", "dpStop", "cpStop"}
                  /\ \A w \in Warms : pc'[w] = pc[w]
<1>1. LOAD_ALL_IMG \in LoadTypes /\ LOADL_ALL_EXTERNAL_IMG \in LoadTypes
      /\ LOAD_MODEM_IMG \in LoadTypes
  BY DEF LoadTypes
<1>2. "SP" \notin LOADL_ALL_EXTERNAL_IMG /\ "SP" \notin LOAD_MODEM_IMG
  BY DEF LOADL_ALL_EXTERNAL_IMG, LOAD_MODEM_IMG
<1>3. CASE BootLoad
  <2>1. /\ pc["ld"] = "boot!" /\ Begin(LOAD_ALL_IMG)
        /\ UNCHANGED <<lock, region, mem, flags, warm, ddr, running, bus>>
    BY <1>3 DEF BootLoad, remote
  <2>2. mem' \in [Entries -> {0} \cup Entries] /\ flags' \in SUBSET Flags
        /\ ddr' \in BOOLEAN /\ running' \in {running, FALSE}
    BY <2>1, Zenon DEF LoadInv, TypeOK
  <2> QED BY <1>1, <2>1, <2>2, BeginKeeps
<1>4. CASE ReloadModem
  <2>1. /\ pc["ld"] = "idle" /\ Begin(LOAD_MODEM_IMG) /\ Spend("load")
        /\ UNCHANGED <<lock, region, mem, flags, warm, ddr, running, bus>>
    BY <1>4 DEF ReloadModem, remote
  <2>2. mem' \in [Entries -> {0} \cup Entries] /\ flags' \in SUBSET Flags
        /\ ddr' \in BOOLEAN /\ running' \in {running, FALSE}
    BY <2>1, Zenon DEF LoadInv, TypeOK
  <2> QED BY <1>1, <1>2, <2>1, <2>2, BeginKeeps
<1>5. CASE RebootAllModem
  <2>1. /\ pc["ld"] = "idle" /\ Begin(LOADL_ALL_EXTERNAL_IMG) /\ Spend("load")
        /\ ddr' = FALSE /\ running' = FALSE /\ flags' \in {flags, {}}
        /\ mem' = [i \in Entries |-> 0] /\ UNCHANGED <<lock, region, warm, bus>>
    BY <1>5 DEF RebootAllModem
  <2>2. mem' \in [Entries -> {0} \cup Entries]
    BY <2>1
  <2>3. flags' \in SUBSET Flags
    BY <2>1 DEF LoadInv, TypeOK
  <2>4. ddr' \in BOOLEAN /\ running' \in {running, FALSE}
    BY <2>1, Zenon
  <2> QED BY <1>1, <1>2, <2>1, <2>2, <2>3, <2>4, BeginKeeps
<1> QED BY <1>3, <1>4, <1>5

LEMMA LoadStep == LoadInv /\ [Next]_vars => LoadInv'
<1> SUFFICES ASSUME LoadInv, [Next]_vars PROVE LoadInv'
  OBVIOUS
<1>0. Books
  BY StepBooks DEF LoadInv
<1>1. CASE BootLoad \/ ReloadModem \/ RebootAllModem
  BY <1>0, <1>1, BootKeeps
<1>2. ASSUME NEW t \in Threads, LoadImages(t) PROVE LoadInv'
  BY <1>0, <1>2, SelectKeeps, CopyBeginKeeps, CopyEndKeeps DEF LoadImages
<1>3. CASE LoadModemImg
  BY <1>0, <1>2, <1>3, StopKeeps, StartKeeps, ClearKeeps, TableDoneKeeps, WaitKeeps,
     FinishKeeps
  DEF LoadModemImg, Threads
<1>4. ASSUME NEW w \in Warms, WarmReset(w) \/ LoadSplImg(w) PROVE LoadInv'
  BY <1>0, <1>2, <1>4, WarmStepKeeps DEF LoadSplImg, Threads
<1>5. CASE DdrReady
  BY <1>0, <1>5, DdrReadyKeeps
<1>6. CASE UNCHANGED vars
  BY <1>6, StutterKeeps
<1> QED BY <1>1, <1>3, <1>4, <1>5, <1>6 DEF Next

LEMMA LoadInvariant == Spec => []LoadInv
BY LoadInit, LoadStep, PTL DEF Spec

(***************************************************************************)
(* The state of both loaders, the locks, the flags and the bounded         *)
(* environment keep their types.                                           *)
(***************************************************************************)
THEOREM TypeCorrect == Spec => []TypeOK
<1>1. LoadInv => TypeOK
  BY DEF LoadInv
<1> QED BY <1>1, LoadInvariant, PTL

-----------------------------------------------------------------------------
(***************************************************************************)
(* The regions and the bus monitor.                                        *)
(***************************************************************************)
\* A step moves one thread on, or works on an image, or does neither.
LEMMA StepKinds ==
  ASSUME LoadInv, Next
  PROVE  \/ /\ \E t \in Threads : \E q \in Labels : Enter(t, q)
            /\ bus' = bus
            /\ mem' = mem \/ mem' = [i \in Entries |-> 0]
         \/ \E t \in Threads : LoadImages(t)
         \/ UNCHANGED <<pc, at, io, bus, mem>>
<1>1. LoadInv' /\ "ld" \in Threads /\ Warms \subseteq Threads
  BY LoadStep DEF Threads
<1>2. ASSUME NEW t \in Threads, NEW q, Enter(t, q) PROVE q \in Labels
  BY <1>1, <1>2 DEF Enter, LoadInv, TypeOK
<1>3. CASE BootLoad \/ ReloadModem \/ RebootAllModem
  BY <1>1, <1>2, <1>3 DEF BootLoad, ReloadModem, RebootAllModem, Begin
<1>4. CASE LoadModemImg
  BY <1>1, <1>2, <1>4
  DEF LoadModemImg, Stop, Start, ClearFlags, TableDone, WaitRemote, RescanBar, Finish
<1>5. ASSUME NEW w \in Warms, WarmReset(w) \/ LoadSplImg(w)
      PROVE  \/ /\ \E t \in Threads : \E q \in Labels : Enter(t, q)
                /\ bus' = bus
                /\ mem' = mem
             \/ \E t \in Threads : LoadImages(t)
  BY <1>1, <1>2, <1>5
  DEF LoadSplImg, WarmReset, LockForSpl, ClearForSpl, SplLoaded, UnlockAfterSpl
<1>6. CASE DdrReady
  BY <1>6 DEF DdrReady, loop
<1> QED BY <1>3, <1>4, <1>5, <1>6 DEF Next

\* While t copies, the region that the kernel writes to is that of t's entry.
LEMMA RegionStep ==
  ASSUME LoadInv, ImageInItsRegion, [Next]_vars
  PROVE  ImageInItsRegion'
<1>0. Books /\ (~Failed("region")' => ~Failed("region"))
  BY StepBooks, FailedStays DEF LoadInv, TypeOK, Events
<1>1. ASSUME NEW t \in Threads, LoadImages(t) PROVE ImageInItsRegion'
  <2>1. CASE SelectRegion(t)
    BY <1>0, <2>1 DEF SelectRegion, ImageInItsRegion
  <2>2. CASE CopyBegin(t)
    BY <1>0, <2>2 DEF CopyBegin, ImageInItsRegion, LoadInv, TypeOK
  <2>3. CASE CopyEnd(t)
    <3>1. ~Failed("region") /\ OnCp(t) => region = at[t]
      BY <2>3 DEF CopyEnd, LoadInv, Positions
    <3> QED BY <1>0, <2>3, <3>1 DEF CopyEnd, ImageInItsRegion, LoadInv, TypeOK, ToMem
  <2> QED BY <1>1, <2>1, <2>2, <2>3 DEF LoadImages
<1>2. CASE mem' = mem \/ mem' = [i \in Entries |-> 0]
  BY <1>0, <1>2 DEF ImageInItsRegion
<1>3. CASE Next
  BY <1>1, <1>2, <1>3, StepKinds
<1>4. CASE UNCHANGED vars
  BY <1>2, <1>4 DEF vars
<1> QED BY <1>3, <1>4

(***************************************************************************)
(* modem_set_write_region and the write that follows it: under every       *)
(* interleaving of load_modem_img with any number of SPL reloads, no image *)
(* gets into the region of another one, until modem_set_write_region fails *)
(* for the first time.                                                     *)
(***************************************************************************)
THEOREM RegionsAreSafe == Spec => []ImageInItsRegion
<1>1. Init => ImageInItsRegion
  BY DEF Init, ImageInItsRegion
<1>2. LoadInv /\ ImageInItsRegion /\ [Next]_vars => ImageInItsRegion'
  BY RegionStep
<1> QED BY <1>1, <1>2, LoadInvariant, PTL DEF Spec

LEMMA BusStep ==
  ASSUME LoadInv, BusQuietWhileCopying, [Next]_vars
  PROVE  BusQuietWhileCopying'
<1>1. ASSUME NEW t \in Threads, LoadImages(t) PROVE BusQuietWhileCopying'
  <2>1. Walking(t) /\ pc' = pc
    BY <1>1 DEF LoadImages, SelectRegion, CopyBegin, CopyEnd
  <2>2. ASSUME NEW u \in Threads, Walking(u)' PROVE u = t
    BY <2>1, <2>2, Alone DEF Walking
  <2>3. CASE SelectRegion(t)
    BY <2>2, <2>3 DEF SelectRegion, BusQuietWhileCopying, LoadInv, TypeOK
  <2>4. CASE CopyBegin(t)
    <3>1. Guarded(t)' = Guarded(t)
      BY <2>4 DEF CopyBegin, Guarded, OnCp
    <3>2. Guarded(t) => ~bus'
      BY <2>4, Zenon DEF CopyBegin
    <3> QED BY <2>2, <3>1, <3>2 DEF BusQuietWhileCopying
  <2>5. CASE CopyEnd(t)
    BY <2>2, <2>5 DEF CopyEnd, BusQuietWhileCopying, LoadInv, TypeOK
  <2> QED BY <1>1, <2>3, <2>4, <2>5 DEF LoadImages
<1>2. ASSUME NEW t \in Threads, NEW q \in Labels, Enter(t, q), bus' = bus
      PROVE  BusQuietWhileCopying'
  <2>1. io'[t] = "pick" /\ \A u \in Threads \ {t} :
                            pc'[u] = pc[u] /\ at'[u] = at[u] /\ io'[u] = io[u]
    BY <1>2, Enters DEF LoadInv
  <2> QED BY <1>2, <2>1 DEF BusQuietWhileCopying, Walking, Guarded, OnCp
<1>3. CASE UNCHANGED <<pc, at, io, bus, mem>>
  BY <1>3 DEF BusQuietWhileCopying, Walking, Guarded, OnCp
<1>4. CASE Next
  BY <1>1, <1>2, <1>3, <1>4, StepKinds
<1>5. CASE UNCHANGED vars
  BY <1>3, <1>5 DEF vars
<1> QED BY <1>4, <1>5

(***************************************************************************)
(* The bus monitor that modem_load_image switches off is never switched on *)
(* again by the other loader before the copy has ended.                    *)
(***************************************************************************)
THEOREM BusStaysQuiet == Spec => []BusQuietWhileCopying
<1>1. Init => BusQuietWhileCopying
  BY DEF Init, BusQuietWhileCopying
<1>2. LoadInv /\ BusQuietWhileCopying /\ [Next]_vars => BusQuietWhileCopying'
  BY BusStep
<1> QED BY <1>1, <1>2, LoadInvariant, PTL DEF Spec

-----------------------------------------------------------------------------
(***************************************************************************)
(* The flags.                                                              *)
(***************************************************************************)
Told == {"spl", "uboot", "boot", "head", "modem"}

LEMMA DoneFlags ==
  /\ DoneFlag("spl") = {"SPL"} /\ DoneFlag("uboot") = {"UBOOT"} /\ DoneFlag("boot") = {"BOOT"}
  /\ DoneFlag("head") = {"HEAD"} /\ DoneFlag("modem") = {"BIT1"}
  /\ DoneFlag("audio") = {} /\ DoneFlag("sp") = {} /\ DoneFlag("dp") = {}
BY DEF DoneFlag

LEMMA PlaceNat == ASSUME NEW p \in Range(Phases) PROVE Place(p) \in Nat
BY Placement, PhaseRange

\* Nothing that is wanted lies before the entry at which a walk begins.
LEMMA NothingBefore ==
  ASSUME NEW p \in CpTables, NEW i \in Entries, i < Entry(p, 1)
  PROVE  ~Wanted(p, i)
<1>1. \A j \in Entries : 1 <= j /\ j < Entry(p, 1) => ~Wanted(p, j)
  BY EntryIs, TableLength
<1> QED BY <1>1, TableLength

\* A thread that goes on has walked nothing, and the others are where they were.
LEMMA EnterWalked ==
  ASSUME LoadInv, Walked, NEW t \in Threads, NEW q \in Labels, Enter(t, q), mem' = mem,
         Preparing => Preparing'
  PROVE  Walked'
<1> SUFFICES ASSUME NEW u \in Threads, pc'[u] \in CpTables, ~err'[u],
                    u = "ld" \/ ~Preparing',
                    NEW i \in Entries, i < at'[u], Wanted(pc'[u], i),
                    CpTable[i].kind = "image"
             PROVE  mem'[i] = i
  BY DEF Walked
<1>1. CASE u = t
  <2>1. pc'[u] = q /\ at'[u] = (IF q \in Tables THEN Entry(q, 1) ELSE 1)
    BY <1>1, Enters DEF LoadInv
  <2>2. q \in CpTables /\ at'[u] = Entry(q, 1)
    BY <2>1 DEF CpTables
  <2> QED BY <2>1, <2>2, NothingBefore
<1>2. CASE u # t
  <2>1. pc'[u] = pc[u] /\ at'[u] = at[u] /\ err'[u] = err[u]
    BY <1>2, Enters DEF LoadInv
  <2> QED BY <2>1 DEF Walked
<1> QED BY <1>1, <1>2

\* Until the flags are cleared, only the flags of an SPL reload matter.
LEMMA PrepareMove ==
  ASSUME FlagInv, LoadInv', NEW q, Preparing', pc'["ld"] = q,
         \A w \in Warms : pc'[w] = pc[w], flags' = flags \/ flags' = {}
  PROVE  Walked' /\ Announced' /\ TrueFlags'
<1>1. pc'["ld"] \notin CpTables /\ pc'["ld"] \notin Exclusive \ {"dp", "clear"}
  BY DEF Preparing, CpTables, Tables, Exclusive
<1>2. Walked'
  BY <1>1 DEF Walked
<1>3. Announced'
  BY <1>1 DEF FlagInv, Announced
<1> QED BY <1>2, <1>3 DEF TrueFlags

\* Afterwards a load may go on if it touches neither memory nor flags.
LEMMA LoadingMove ==
  ASSUME FlagInv, Books, NEW q \in Range(Phases) \cup {"idle"}, Enter("ld", q),
         region' = region,
         UNCHANGED <<mem, flags, warm>>, ~Preparing, ~Preparing',
         q \in Loading => pc["ld"] \in Loading /\ Place(pc["ld"]) < Place(q)
  PROVE  Walked' /\ Announced' /\ TrueFlags'
<1>1. pc'["ld"] = q /\ \A w \in Warms : pc'[w] = pc[w]
  BY LdEnters DEF FlagInv
<1>2. Walked'
  BY EnterWalked DEF FlagInv, Threads, Labels
<1>3. Announced'
  <2>1. ASSUME q \in Loading, NEW p \in Told, DoneFlag(p) \subseteq flags'
        PROVE  Place(p) < Place(q)
    <3>1. Place(p) < Place(pc["ld"]) /\ Place(pc["ld"]) < Place(q)
      BY <2>1 DEF FlagInv, Announced, Loading, Told
    <3>2. Place(p) \in Nat /\ Place(q) \in Nat /\ Place(pc["ld"]) \in Nat
      BY <2>1, PlaceNat, PhaseRange DEF Loading, Exclusive, Told
    <3> QED BY <3>1, <3>2
  <2> QED BY <1>1, <2>1 DEF FlagInv, Announced, Loading, Told
<1>4. TrueFlags'
  BY DEF FlagInv, TrueFlags
<1> QED BY <1>2, <1>3, <1>4

LEMMA BootTells ==
  ASSUME FlagInv, LoadInv', Books, BootLoad \/ ReloadModem \/ RebootAllModem
  PROVE  Walked' /\ Announced' /\ TrueFlags'
<1>1. pc'["ld"] \in {"spStop", "dpStop", "cpStop"} /\ \A w \in Warms : pc'[w] = pc[w]
  BY BootKeeps DEF FlagInv
<1>2. flags' = flags \/ flags' = {}
  BY DEF BootLoad, ReloadModem, RebootAllModem, remote
<1> QED BY <1>1, <1>2, PrepareMove DEF Preparing

LEMMA StopTells ==
  ASSUME FlagInv, LoadInv', Books, NEW p \in {"spStop", "dpStop", "cpStop"}, Stop(p)
  PROVE  Walked' /\ Announced' /\ TrueFlags'
<1> DEFINE q == After(p, type, start)
<1>1. type \in LoadTypes /\ start = type \ {"SP"}
  BY JobsRun, PhaseRange DEF Stop, FlagInv
<1>2. q \in {"sp", "spStart", "dpStop", "cpStop", "dp", "clear"}
  BY <1>1, Routes
<1>3. Enter("ld", q) /\ flags' = flags /\ region' = region
  BY DEF Stop
<1>4. q \in Range(Phases)
  BY <1>2, PhaseRange
<1> HIDE DEF q
<1>5. pc'["ld"] = q /\ \A w \in Warms : pc'[w] = pc[w]
  BY <1>3, <1>4, LdEnters DEF FlagInv
<1> QED BY <1>2, <1>3, <1>5, PrepareMove DEF Preparing

LEMMA StartTells ==
  ASSUME FlagInv, LoadInv', Books, NEW p \in {"spStart", "dpStart", "cpStart"}, Start(p)
  PROVE  Walked' /\ Announced' /\ TrueFlags'
<1> DEFINE q == After(p, type, start)
<1>1. type \in LoadTypes /\ start = type \ {"SP"} /\ pc["ld"] = p
  BY JobsRun, PhaseRange DEF Start, FlagInv
<1>2. /\ p = "spStart" => q \in {"dpStop", "cpStop"}
      /\ p = "dpStart" => q \in Loading /\ Place(p) < Place(q)
      /\ p = "cpStart" => q = "finish"
  BY <1>1, Routes, LoadingRoute DEF Exclusive, Reached
<1>3. Enter("ld", q) /\ flags' = flags /\ mem' = mem /\ warm' = warm /\ region' = region
  BY DEF Start
<1>4. q \in Range(Phases)
  BY <1>2, PhaseRange DEF Loading, Exclusive
<1> HIDE DEF q
<1>5. pc'["ld"] = q /\ \A w \in Warms : pc'[w] = pc[w]
  BY <1>3, <1>4, LdEnters DEF FlagInv
<1>6. CASE p = "spStart"
  BY <1>2, <1>3, <1>5, <1>6, PrepareMove DEF Preparing
<1>7. CASE p # "spStart"
  <2>1. ~Preparing /\ ~Preparing'
    BY <1>1, <1>2, <1>5, <1>7 DEF Preparing, Loading, Exclusive
  <2>2. q \in Loading => pc["ld"] \in Loading /\ Place(pc["ld"]) < Place(q)
    BY <1>1, <1>2, <1>7 DEF Loading, Exclusive
  <2> QED BY <1>3, <1>4, <2>1, <2>2, LoadingMove
<1> QED BY <1>6, <1>7

\* With the flags cleared, nothing is told.
LEMMA ClearTells ==
  ASSUME FlagInv, LoadInv', Books, ~Failed("clear")', ClearFlags
  PROVE  Walked' /\ Announced' /\ TrueFlags'
<1>1. /\ pc'["ld"] \in Loading /\ flags' = {}
      /\ \A w \in Warms : pc'[w] = pc[w]
  BY ClearKeeps DEF FlagInv, Reached
<1>2. \A p \in Told : ~(DoneFlag(p) \subseteq flags')
  BY <1>1, DoneFlags DEF Told
<1>3. \A w \in Warms : pc[w] # "spl"
  BY WarmsAssumption DEF FlagInv, LoadInv, Owners, ClearFlags, Exclusive
<1>4. Walked'
  <2> SUFFICES ASSUME NEW u \in Threads, pc'[u] \in CpTables,
                      NEW i \in Entries, i < at'[u], Wanted(pc'[u], i)
               PROVE  FALSE
    BY DEF Walked
  <2>1. u = "ld"
    BY <1>1, <1>3 DEF Threads, FlagInv, LoadInv, Places, CpTables, Tables
  <2>2. Enter("ld", pc'["ld"]) /\ pc'["ld"] \in Labels
    BY <1>1, PhaseRange DEF ClearFlags, Enter, FlagInv, LoadInv, TypeOK, Threads, Loading,
       Exclusive, Labels
  <2>3. at'["ld"] = (IF pc'["ld"] \in Tables THEN Entry(pc'["ld"], 1) ELSE 1)
    BY <2>2, Enters DEF FlagInv, LoadInv, Threads
  <2> QED BY <2>1, <2>3, NothingBefore DEF CpTables
<1>5. Announced'
  BY <1>1, <1>2 DEF Announced, Told
<1>6. TrueFlags'
  BY <1>2 DEF TrueFlags, Told
<1> QED BY <1>4, <1>5, <1>6

\* A table that was walked to its end without an error is in memory.
LEMMA WalkedWhole ==
  ASSUME FlagInv, NEW t \in Threads, NEW p \in CpTables, TableWalked(t, p), ~err[t],
         t = "ld" \/ ~Preparing,
         NEW i \in Entries, Wanted(p, i), CpTable[i].kind = "image"
  PROVE  mem[i] = i
<1>1. pc[t] = p /\ ~(at[t] < Len(CpTable) + 1)
  BY DEF TableWalked, Walking, End, CpTables
<1>2. at[t] \in Nat /\ i <= Len(CpTable) /\ i \in Nat
  BY TableLength DEF FlagInv, LoadInv, TypeOK
<1>3. i < at[t]
  BY <1>1, <1>2, TableLength
<1> QED BY <1>1, <1>3 DEF FlagInv, Walked

\* A done flag is set for the table that has just been walked, and for no other.
LEMMA TableTells ==
  ASSUME FlagInv, LoadInv', Books, NEW p \in Tables, TableDone(p)
  PROVE  Walked' /\ Announced' /\ TrueFlags'
<1> DEFINE q == Then(p)
<1>0. LoadInv
  BY DEF FlagInv
<1>1. /\ pc["ld"] = p
      /\ Enter("ld", q)
      /\ p = "sp" => q \in {"spStart", "dpStop", "cpStop"}
      /\ p = "dp" => q = "clear"
      /\ p \in CpTables => q \in Loading \cup {"finish"}
      /\ q \in Loading => Place(p) < Place(q)
  BY <1>0, TableRoute
<1> HIDE DEF q
<1>2. /\ flags' \subseteq flags \cup DoneFlag(p)
      /\ err["ld"] => flags' = flags
      /\ mem' = mem /\ warm' = warm /\ region' = region
  BY <1>0, TableFlags
<1>3. q \in Range(Phases) /\ q \in Labels
  BY <1>1, PhaseRange DEF Loading, Exclusive, CpTables, Labels
<1>4. pc'["ld"] = q /\ \A w \in Warms : pc'[w] = pc[w]
  BY <1>0, <1>1, <1>2, <1>3, LdEnters
<1>5. CASE p \in {"sp", "dp"}
  <2>1. Preparing'
    BY <1>1, <1>4, <1>5 DEF Preparing
  <2>2. flags' = flags
    BY <1>5, DoneFlags DEF TableDone
  <2> QED BY <1>4, <2>1, <2>2, PrepareMove
<1>6. CASE p \in CpTables
  <2>1. ~Preparing /\ ~Preparing'
    BY <1>1, <1>4, <1>6 DEF Preparing, Loading, Exclusive, CpTables, Tables
  <2>2. Walked'
    BY <1>0, <1>1, <1>2, <1>3, <2>1, EnterWalked DEF FlagInv, Threads
  <2>3. \A w \in Warms : pc'[w] # "spl"
    BY <1>1, <1>4, <1>6, WarmsAssumption
    DEF FlagInv, LoadInv, Owners, CpTables, Tables, Exclusive
  <2>4. ASSUME NEW r \in Told, DoneFlag(r) \subseteq flags', ~(DoneFlag(r) \subseteq flags)
        PROVE  r = p /\ ~err["ld"]
    <3>1. ~err["ld"]
      BY <1>2, <2>4
    <3>2. r = p
      BY <1>2, <1>6, <2>4, DoneFlags DEF Told, CpTables, Tables
    <3> QED BY <3>1, <3>2
  <2>5. Announced'
    <3>1. ASSUME q \in Loading, NEW r \in Told, DoneFlag(r) \subseteq flags'
          PROVE  Place(r) < Place(q)
      <4>1. p \in Exclusive \ {"dp", "clear"}
        BY <1>6 DEF CpTables, Tables, Exclusive
      <4>2. r = p \/ Place(r) < Place(p)
        BY <1>1, <2>4, <3>1, <4>1 DEF FlagInv, Announced, Told
      <4>3. Place(r) \in Nat /\ Place(q) \in Nat /\ Place(p) \in Nat
        BY <1>6, <3>1, PlaceNat, PhaseRange DEF Loading, Exclusive, Told, CpTables, Tables
      <4> QED BY <1>1, <3>1, <4>2, <4>3
    <3> QED BY <1>4, <2>3, <3>1 DEF Announced, Loading, Told
  <2>6. TrueFlags'
    <3> SUFFICES ASSUME NEW r \in Told, DoneFlag(r) \subseteq flags', ~(r = "modem" /\ warm'),
                        NEW i \in Entries, Only(r, i), CpTable[i].kind = "image"
                 PROVE  mem'[i] = i
      BY DEF TrueFlags, Told
    <3>1. CASE DoneFlag(r) \subseteq flags
      BY <1>2, <2>1, <3>1 DEF FlagInv, TrueFlags, Told
    <3>2. CASE ~(DoneFlag(r) \subseteq flags)
      <4>1. r = p /\ ~err["ld"] /\ TableWalked("ld", p)
        BY <2>4, <3>2 DEF TableDone
      <4> QED BY <1>2, <1>6, <4>1, WalkedWhole DEF Threads, Only
    <3> QED BY <3>1, <3>2
  <2> QED BY <2>2, <2>5, <2>6
<1> QED BY <1>5, <1>6 DEF CpTables

LEMMA WaitTells ==
  ASSUME FlagInv, LoadInv', Books, WaitRemote \/ RescanBar
  PROVE  Walked' /\ Announced' /\ TrueFlags'
<1>0. PICK p \in {"wait", "bar"} : (p = "wait" => WaitRemote) /\ (p = "bar" => RescanBar)
  OBVIOUS
<1> DEFINE q == After(p, type', start')
<1>1. /\ pc["ld"] = p
      /\ Enter("ld", q)
      /\ q \in Reached \cup {"finish"}
      /\ q # "finish" => Place(p) < Place(q)
  BY <1>0, WaitRoute DEF FlagInv
<1> HIDE DEF q
<1>2. /\ q \in Range(Phases) /\ q \in Loading \cup {"finish"}
      /\ "finish" \notin Loading /\ p \in Loading
  BY <1>1, PhaseRange DEF Reached, Loading, Exclusive
<1>3. UNCHANGED <<mem, flags, warm, region>>
  BY DEF WaitRemote, RescanBar, remote
<1>4. pc'["ld"] = q
  BY <1>1, <1>2, <1>3, LdEnters DEF FlagInv
<1>5. ~Preparing /\ ~Preparing'
  BY <1>1, <1>2, <1>4 DEF Preparing, Loading, Exclusive
<1>6. q \in Loading => pc["ld"] \in Loading /\ Place(pc["ld"]) < Place(q)
  BY <1>1, <1>2
<1> QED BY <1>1, <1>2, <1>3, <1>5, <1>6, LoadingMove

LEMMA FinishTells ==
  ASSUME FlagInv, LoadInv', Books, Finish
  PROVE  Walked' /\ Announced' /\ TrueFlags'
<1>1. pc["ld"] = "finish" /\ Enter("ld", "idle") /\ UNCHANGED <<mem, flags, warm, region>>
  BY DEF Finish, remote
<1>2. pc'["ld"] = "idle"
  BY FinishKeeps DEF FlagInv
<1>3. ~Preparing /\ ~Preparing' /\ "idle" \notin Loading
  BY <1>1, <1>2 DEF Preparing, Loading, Exclusive
<1> QED BY <1>1, <1>3, LoadingMove

\* What is being overwritten has not been announced, by a flag of its own.
LEMMA NotAnnounced ==
  ASSUME FlagInv, NEW t \in Threads, Walking(t), OnCp(t), NEW r \in Told,
         DoneFlag(r) \subseteq flags
  PROVE  ~Only(r, at[t])
<1>1. pc[t] \in CpTables /\ at[t] \in Entries /\ Wanted(pc[t], at[t])
  BY AtEntry DEF FlagInv
<1>2. pc[t] # r
  <2>1. CASE t = "ld"
    <3>1. pc["ld"] \in Exclusive \ {"dp", "clear"}
      BY <1>1, <2>1 DEF CpTables, Tables, Exclusive
    <3>2. Place(r) < Place(pc["ld"]) /\ Place(r) \in Nat
      BY <3>1, PlaceNat, PhaseRange DEF FlagInv, Announced, Told
    <3> QED BY <2>1, <3>2
  <2>2. CASE t \in Warms
    <3>1. pc[t] = "spl"
      BY <1>1, <2>2 DEF FlagInv, LoadInv, Places, CpTables, Tables
    <3>2. flags = {}
      BY <2>2, <3>1 DEF FlagInv, Announced
    <3> QED BY <3>2, DoneFlags DEF Told
  <2> QED BY <2>1, <2>2 DEF Threads
<1> QED BY <1>1, <1>2 DEF Only

LEMMA CopyBeginTells ==
  ASSUME FlagInv, NEW t \in Threads, CopyBegin(t)
  PROVE  Walked' /\ Announced' /\ TrueFlags'
<1>0. LoadInv
  BY DEF FlagInv
<1>1. /\ Walking(t) /\ io[t] = "open"
      /\ mem' = IF ToMem(t) THEN [mem EXCEPT ![region] = 0] ELSE mem
      /\ UNCHANGED <<pc, at, err, flags, warm>>
  BY DEF CopyBegin, remote
<1>2. OnCp(t) => region = at[t]
  BY <1>0, <1>1 DEF FlagInv, Reliable, LoadInv, Positions
<1>3. \A i \in Entries : mem'[i] = mem[i] \/ (OnCp(t) /\ i = at[t])
  BY <1>0, <1>1, <1>2 DEF LoadInv, TypeOK, ToMem
<1>4. Walked'
  <2> SUFFICES ASSUME NEW u \in Threads, pc[u] \in CpTables, ~err[u], u = "ld" \/ ~Preparing,
                      NEW i \in Entries, i < at[u], Wanted(pc[u], i),
                      CpTable[i].kind = "image"
               PROVE  mem'[i] = i
    BY <1>1 DEF Walked, Preparing
  <2>1. u = t
    BY <1>0, <1>1, Alone DEF Walking, CpTables
  <2>2. i # at[t]
    BY <1>0, <2>1, TableLength DEF LoadInv, TypeOK
  <2> QED BY <1>3, <2>2 DEF FlagInv, Walked
<1>5. Announced'
  BY <1>1 DEF FlagInv, Announced
<1>6. TrueFlags'
  <2> SUFFICES ASSUME ~Preparing, NEW r \in Told, DoneFlag(r) \subseteq flags,
                      ~(r = "modem" /\ warm),
                      NEW i \in Entries, Only(r, i), CpTable[i].kind = "image"
               PROVE  mem'[i] = i
    BY <1>1 DEF TrueFlags, Told, Preparing
  <2>1. mem[i] = i
    BY DEF FlagInv, TrueFlags, Told
  <2>2. ~(OnCp(t) /\ i = at[t])
    BY <1>1, NotAnnounced
  <2> QED BY <1>3, <2>1, <2>2
<1> QED BY <1>4, <1>5, <1>6

LEMMA CopyEndTells ==
  ASSUME FlagInv, NEW t \in Threads, CopyEnd(t)
  PROVE  Walked' /\ Announced' /\ TrueFlags'
<1>0. LoadInv
  BY DEF FlagInv
<1>1. /\ Walking(t) /\ io[t] = "copy"
      /\ at' = [at EXCEPT ![t] = Entry(pc[t], at[t] + 1)]
      /\ UNCHANGED <<pc, flags, warm>>
  BY DEF CopyEnd, remote
<1>2. OnCp(t) => /\ region = at[t] /\ pc[t] \in CpTables /\ at[t] \in Entries
                 /\ ToMem(t)
  BY <1>0, <1>1, AtEntry, TableLength DEF FlagInv, Reliable, LoadInv, Positions, ToMem
<1>3. \A i \in Entries : mem'[i] = mem[i] \/ mem'[i] = i
  BY <1>0, <1>2 DEF CopyEnd, LoadInv, TypeOK, ToMem
<1>4. \/ err' = err /\ (OnCp(t) => mem'[at[t]] = at[t])
      \/ err' = [err EXCEPT ![t] = @ \/ Checked(t)]
  BY <1>0, <1>2 DEF CopyEnd, LoadInv, TypeOK
<1>5. Walked'
  <2> SUFFICES ASSUME NEW u \in Threads, pc[u] \in CpTables, ~err'[u], u = "ld" \/ ~Preparing,
                      NEW i \in Entries, i < at'[u], Wanted(pc[u], i),
                      CpTable[i].kind = "image"
               PROVE  mem'[i] = i
    BY <1>1 DEF Walked, Preparing
  <2>1. u = t
    BY <1>0, <1>1, Alone DEF Walking, CpTables
  <2>2. OnCp(t) /\ at[t] \in Entries
    BY <1>2, <2>1 DEF OnCp, CpTables
  <2>3. at'[t] = Entry(pc[t], at[t] + 1)
    BY <1>0, <1>1 DEF LoadInv, TypeOK
  <2>4. \A j \in Entries : at[t] + 1 <= j /\ j < Entry(pc[t], at[t] + 1) => ~Wanted(pc[t], j)
    <3>1. at[t] + 1 \in Nat /\ at[t] + 1 >= 1 /\ at[t] + 1 <= Len(CpTable) + 1
      BY <2>2, TableLength
    <3> QED BY <2>1, <3>1, EntryIs
  <2>5. i <= at[t]
    BY <2>1, <2>2, <2>3, <2>4, TableLength
  <2>6. CASE i = at[t]
    <3>1. CASE err' = err /\ (OnCp(t) => mem'[at[t]] = at[t])
      BY <2>2, <2>6, <3>1
    <3>2. CASE err' = [err EXCEPT ![t] = @ \/ Checked(t)]
      <4>1. Checked(t)
        BY <2>2, <2>6 DEF Checked
      <4>2. err'[t] = TRUE
        BY <1>0, <3>2, <4>1, Zenon DEF LoadInv, TypeOK
      <4> QED BY <2>1, <4>2
    <3> QED BY <1>4, <3>1, <3>2
  <2>7. CASE i # at[t]
    <3>1. i < at[t]
      BY <2>2, <2>5, <2>7, TableLength
    <3>2. ~err[t]
      <4>1. CASE err' = err
        BY <2>1, <4>1
      <4>2. CASE err' = [err EXCEPT ![t] = @ \/ Checked(t)]
        <5>1. err'[t] = (err[t] \/ Checked(t))
          BY <1>0, <4>2, Zenon DEF LoadInv, TypeOK
        <5> QED BY <2>1, <5>1, Zenon
      <4> QED BY <1>4, <4>1, <4>2
    <3> QED BY <1>3, <2>1, <3>1, <3>2 DEF FlagInv, Walked
  <2> QED BY <2>6, <2>7
<1>6. Announced'
  BY <1>1 DEF FlagInv, Announced
<1>7. TrueFlags'
  BY <1>1, <1>3 DEF FlagInv, TrueFlags, Preparing
<1> QED BY <1>5, <1>6, <1>7

\* An SPL reload begins without flags, and ends with those of a warm reset.
LEMMA WarmTells ==
  ASSUME FlagInv, LoadInv', Books, ~Failed("clear")', NEW w \in Warms,
         \/ WarmReset(w) \/ LockForSpl(w) \/ ClearForSpl(w) \/ SplLoaded(w)
         \/ UnlockAfterSpl(w)
  PROVE  Walked' /\ Announced' /\ TrueFlags'
<1>0. LoadInv
  BY DEF FlagInv
<1>1. pc'["ld"] = pc["ld"] /\ \A v \in Warms \ {w} : pc'[v] = pc[v]
  BY <1>0, WarmStepKeeps
<1>2. Preparing' = Preparing
  BY <1>1 DEF Preparing
<1>3. \E q : Enter(w, q) /\ mem' = mem
  BY DEF WarmReset, LockForSpl, ClearForSpl, SplLoaded, UnlockAfterSpl
<1>4. PICK q \in Labels : Enter(w, q) /\ mem' = mem /\ q = pc'[w]
  <2>1. PICK q : Enter(w, q) /\ mem' = mem
    BY <1>3
  <2>2. pc'[w] = q /\ pc'[w] \in Labels
    BY <1>0, <2>1 DEF LoadInv, TypeOK, Enter, Threads
  <2> QED BY <2>1, <2>2
<1>5. Walked'
  BY <1>0, <1>2, <1>4, EnterWalked DEF FlagInv, Threads
<1>6. CASE flags' = flags /\ warm' = warm /\ pc'[w] # "spl"
  BY <1>1, <1>2, <1>4, <1>5, <1>6 DEF FlagInv, Announced, TrueFlags
<1>7. CASE flags' = {}
  <2>1. \A p \in Told : ~(DoneFlag(p) \subseteq flags')
    BY <1>7, DoneFlags DEF Told
  <2> QED BY <1>5, <1>7, <2>1 DEF Announced, TrueFlags, Told
<1>8. CASE SplLoaded(w) /\ ~err[w] /\ flags' # {}
  <2>0. TableWalked(w, "spl") /\ flags' = {"SPL", "BIT1"} /\ Enter(w, "unlock")
    BY <1>8 DEF SplLoaded, TableWalked, SetRemoteFlag, FlagInv, Announced
  <2>1. TableWalked(w, "spl") /\ flags' = {"SPL", "BIT1"} /\ warm' /\ Enter(w, "unlock")
    BY <1>8, <2>0 DEF SplLoaded
  <2>2. pc'[w] = "unlock"
    BY <1>0, <2>1, Enters DEF LoadInv, Threads, Labels
  <2>3. lock["cp"] = w
    BY <1>0, <2>1 DEF LoadInv, Owners, TableWalked
  <2>4. pc["ld"] \notin Exclusive /\ \A v \in Warms : pc'[v] # "spl"
    BY <1>0, <1>1, <2>2, <2>3, WarmsAssumption DEF LoadInv, Owners
  <2>5. Announced'
    BY <1>1, <2>4 DEF Announced
  <2>6. TrueFlags'
    <3> SUFFICES ASSUME ~Preparing, NEW r \in Told, DoneFlag(r) \subseteq flags',
                        ~(r = "modem" /\ warm'),
                        NEW i \in Entries, Only(r, i), CpTable[i].kind = "image"
                 PROVE  mem'[i] = i
      BY <1>2 DEF TrueFlags, Told
    <3>1. r = "spl"
      BY <2>1, DoneFlags DEF Told
    <3> QED BY <1>4, <1>8, <2>1, <3>1, WalkedWhole DEF Threads, CpTables, Tables, Only
  <2> QED BY <1>5, <2>5, <2>6
<1>9. CASE ClearForSpl(w)
  BY <1>0, <1>7, <1>9, SetsFlags DEF ClearForSpl, LoadInv
<1>10. CASE WarmReset(w) \/ LockForSpl(w) \/ UnlockAfterSpl(w) \/ (SplLoaded(w) /\ err[w])
  <2>1. flags' = flags /\ warm' = warm
    BY <1>10 DEF WarmReset, LockForSpl, UnlockAfterSpl, SplLoaded, remote
  <2>2. pc'[w] # "spl"
    BY <1>0, <1>10
    DEF WarmReset, LockForSpl, UnlockAfterSpl, SplLoaded, Enter, LoadInv, TypeOK, Threads
  <2> QED BY <1>6, <2>1, <2>2
<1> QED BY <1>7, <1>8, <1>9, <1>10

LEMMA DdrReadyTells ==
  ASSUME FlagInv, DdrReady
  PROVE  Walked' /\ Announced' /\ TrueFlags'
<1>1. /\ "SPL" \in flags /\ flags' = flags \cup {"DDR"}
      /\ UNCHANGED <<pc, at, err, mem, warm>>
  BY DEF DdrReady, Answers, loop
<1>2. \A p \in Told : DoneFlag(p) \subseteq flags' => DoneFlag(p) \subseteq flags
  BY <1>1, DoneFlags DEF Told
<1>3. Walked'
  BY <1>1 DEF FlagInv, Walked, Preparing
<1>4. Announced'
  BY <1>1, <1>2 DEF FlagInv, Announced, Told
<1>5. TrueFlags'
  BY <1>1, <1>2 DEF FlagInv, TrueFlags, Preparing, Told
<1> QED BY <1>3, <1>4, <1>5

LEMMA FlagStep == FlagInv /\ [Next]_vars /\ Reliable' => FlagInv'
<1> SUFFICES ASSUME FlagInv, [Next]_vars, Reliable' PROVE Walked' /\ Announced' /\ TrueFlags'
  BY LoadStep DEF FlagInv
<1>0. LoadInv' /\ Books /\ ~Failed("clear")'
  BY LoadStep, StepBooks DEF FlagInv, LoadInv, Reliable
<1>1. ASSUME UNCHANGED <<pc, at, err, mem, flags, warm>>
      PROVE  Walked' /\ Announced' /\ TrueFlags'
  BY <1>1 DEF FlagInv, Walked, Announced, TrueFlags, Preparing
<1>2. ASSUME NEW t \in Threads, LoadImages(t)
      PROVE  Walked' /\ Announced' /\ TrueFlags'
  <2>1. CASE SelectRegion(t)
    BY <1>1, <2>1 DEF SelectRegion, remote
  <2> QED BY <1>2, <2>1, CopyBeginTells, CopyEndTells DEF LoadImages
<1>3. CASE BootLoad \/ ReloadModem \/ RebootAllModem
  BY <1>0, <1>3, BootTells
<1>4. CASE LoadModemImg
  BY <1>0, <1>2, <1>4, StopTells, StartTells, ClearTells, TableTells, WaitTells, FinishTells
  DEF LoadModemImg, Threads
<1>5. ASSUME NEW w \in Warms, WarmReset(w) \/ LoadSplImg(w)
      PROVE  Walked' /\ Announced' /\ TrueFlags'
  BY <1>0, <1>2, <1>5, WarmTells DEF LoadSplImg, Threads
<1>6. CASE DdrReady
  BY <1>6, DdrReadyTells
<1>7. CASE UNCHANGED vars
  BY <1>1, <1>7 DEF vars
<1> QED BY <1>3, <1>4, <1>5, <1>6, <1>7 DEF Next

\* Regions and flags that could be relied on after a step could be before it.
LEMMA ReliableStep ==
  ASSUME LoadInv, [Next]_vars, Reliable'
  PROVE  Reliable
<1>1. Books /\ left \in Remaining
  BY StepBooks DEF LoadInv, TypeOK
<1> QED BY <1>1, FailedStays DEF Reliable, Events

(***************************************************************************)
(* load_modem_img and load_spl_img set a done flag only when every image   *)
(* that only this flag stands for is whole in the modem's memory, and no   *)
(* later reload overwrites such an image while its flag is set, until an   *)
(* ioctl that sets the region or clears the flags fails.                   *)
(***************************************************************************)
THEOREM FlagsAreTrue == Spec => []FlagsTellTruth
<1>1. Init => (Reliable => FlagInv)
  <2> SUFFICES ASSUME Init, Reliable PROVE Walked /\ Announced /\ TrueFlags
    BY LoadInit DEF FlagInv
  <2>0. \A t \in Threads : pc[t] \in {"idle", "boot!"}
    BY DEF Init
  <2>1. Walked /\ Announced
    BY <2>0 DEF Walked, Announced, CpTables, Tables, Exclusive, Threads
  <2>2. \A p \in Told : ~(DoneFlag(p) \subseteq flags)
    BY DoneFlags DEF Init, Told
  <2> QED BY <2>1, <2>2 DEF TrueFlags, Told
<1>2. LoadInv /\ (Reliable => FlagInv) /\ [Next]_vars => (Reliable => FlagInv)'
  BY FlagStep, ReliableStep
<1>3. (Reliable => FlagInv) => FlagsTellTruth
  BY DEF FlagInv, FlagsTellTruth
<1> QED BY <1>1, <1>2, <1>3, LoadInvariant, PTL DEF Spec

-----------------------------------------------------------------------------
(***************************************************************************)
(* The DDR.                                                                *)
(***************************************************************************)
InDdr == {"audio", "uboot", "boot", "head", "bar", "modem"}

DdrInv == LoadInv /\ DdrTold /\ NoImageWithoutDdr

\* Outside the load proper there is nothing to show.
LEMMA NotLoading ==
  ASSUME pc'["ld"] \notin Loading
  PROVE  DdrTold' /\ NoImageWithoutDdr'
BY DEF DdrTold, NoImageWithoutDdr, Loading, Exclusive

\* Within it, what matters is what a step does to the flag and to the DDR.
LEMMA StillInDdr ==
  ASSUME DdrInv, Books, pc["ld"] \in Loading, ddr' = ddr,
         "DDR" \in flags' => "DDR" \in flags,
         pc'["ld"] \in InDdr => type' = type /\ pc["ld"] \in InDdr
  PROVE  DdrTold' /\ NoImageWithoutDdr'
<1>1. /\ ~Failed("ioctl")' => ~Failed("ioctl")
      /\ ~Failed("clear")' => ~Failed("clear")
  BY FailedStays DEF DdrInv, LoadInv, TypeOK, Events
<1> QED BY <1>1 DEF DdrInv, DdrTold, NoImageWithoutDdr, InDdr, Loading

LEMMA LdDdr ==
  ASSUME DdrInv, Books, LoadModemImg, \A t \in Threads : ~LoadImages(t)
  PROVE  DdrTold' /\ NoImageWithoutDdr'
<1>0. LoadInv
  BY DEF DdrInv
<1>2. ASSUME NEW p \in {"spStop", "dpStop", "cpStop"}, Stop(p)
      PROVE  DdrTold' /\ NoImageWithoutDdr'
  <2>1. type \in LoadTypes /\ start = type \ {"SP"}
    BY <1>0, <1>2, JobsRun, PhaseRange DEF Stop
  <2>2. After(p, type, start) \notin Loading
    BY <2>1, Routes DEF Loading, Exclusive
  <2>3. pc'["ld"] = After(p, type, start)
    BY <1>0, <1>2 DEF Stop, Enter, LoadInv, TypeOK, Threads
  <2> QED BY <2>2, <2>3, NotLoading
<1>3. ASSUME NEW p \in {"spStart", "dpStart", "cpStart"}, Start(p)
      PROVE  DdrTold' /\ NoImageWithoutDdr'
  <2>1. type \in LoadTypes /\ start = type \ {"SP"} /\ pc["ld"] = p
    BY <1>0, <1>3, JobsRun, PhaseRange DEF Start
  <2>2. pc'["ld"] = After(p, type, start)
    BY <1>0, <1>3 DEF Start, Enter, LoadInv, TypeOK, Threads
  <2>3. CASE p # "dpStart"
    <3>1. After(p, type, start) \notin Loading
      BY <2>1, <2>3, Routes DEF Loading, Exclusive
    <3> QED BY <2>2, <3>1, NotLoading
  <2>4. CASE p = "dpStart"
    <3>1. Place("dpStart") < Place(pc'["ld"])
      BY <2>1, <2>2, <2>4, LoadingRoute DEF Exclusive
    <3>2. pc'["ld"] \notin InDdr
      BY <3>1, Placement DEF InDdr
    <3>3. flags' = flags /\ ddr' = ddr /\ pc["ld"] \in Loading
      BY <1>3, <2>1, <2>4 DEF Start, Loading, Exclusive
    <3> QED BY <3>2, <3>3, StillInDdr
  <2> QED BY <2>3, <2>4
<1>4. ASSUME ClearFlags PROVE DdrTold' /\ NoImageWithoutDdr'
  <2>1. /\ ~Failed("clear")' => flags' = {}
        /\ "MINIAP" \in type => pc'["ld"] = "spl"
        /\ type' = type
    BY <1>0, <1>4, ClearKeeps DEF ClearFlags
  <2> QED BY <2>1 DEF DdrTold, NoImageWithoutDdr
<1>5. ASSUME NEW p \in Tables, TableDone(p)
      PROVE  DdrTold' /\ NoImageWithoutDdr'
  <2> DEFINE q == Then(p)
  <2>1. /\ pc["ld"] = p
        /\ Enter("ld", q)
        /\ p = "sp" => q \in {"spStart", "dpStop", "cpStop"}
        /\ p = "dp" => q = "clear"
        /\ p = "spl" => q \in {"wait", "finish"}
        /\ p \in CpTables => q \in Loading \cup {"finish"}
        /\ q # "finish" => type' = type
    BY <1>0, <1>5, TableRoute
  <2> HIDE DEF q
  <2>2. flags' \subseteq flags \cup DoneFlag(p) /\ ddr' = ddr
    BY <1>0, <1>5, TableFlags
  <2>3. pc'["ld"] = q
    BY <1>0, <2>1 DEF Enter, LoadInv, TypeOK, Threads
  <2>4. CASE q \notin Loading
    BY <2>3, <2>4, NotLoading
  <2>5. CASE q \in Loading
    <3>1. p \in CpTables
      BY <2>1, <2>5 DEF CpTables, Loading, Exclusive
    <3>2. p \in Loading /\ "DDR" \notin DoneFlag(p)
      BY <3>1, DoneFlags DEF CpTables, Tables, Loading, Exclusive
    <3>3. q \in InDdr => p \in InDdr /\ type' = type
      BY <2>1, <3>1 DEF CpTables, Tables, InDdr
    <3> QED BY <2>1, <2>2, <2>3, <3>2, <3>3, StillInDdr
  <2> QED BY <2>4, <2>5
<1>6. ASSUME WaitRemote PROVE DdrTold' /\ NoImageWithoutDdr'
  <2> DEFINE q == After("wait", type', start')
  <2>1. /\ pc["ld"] = "wait" /\ Enter("ld", q)
        /\ q \in Reached \cup {"finish"}
        /\ q # "finish" => "DDR" \in flags \/ Failed("ioctl")'
    BY <1>0, <1>6, WaitRoute
  <2> HIDE DEF q
  <2>2. pc'["ld"] = q /\ flags' = flags /\ ddr' = ddr
    BY <1>0, <1>6, <2>1 DEF WaitRemote, remote, Enter, LoadInv, TypeOK, Threads
  <2>3. ~Failed("clear")' /\ "DDR" \in flags => ddr
    <3>1. ~Failed("clear")' => ~Failed("clear")
      BY <1>0, FailedStays DEF LoadInv, TypeOK, Events
    <3> QED BY <2>1, <3>1 DEF DdrInv, DdrTold, Exclusive
  <2>4. DdrTold'
    BY <2>2, <2>3 DEF DdrTold
  <2>5. NoImageWithoutDdr'
    BY <2>1, <2>2, <2>3 DEF NoImageWithoutDdr
  <2> QED BY <2>4, <2>5
<1>7. ASSUME RescanBar PROVE DdrTold' /\ NoImageWithoutDdr'
  <2> DEFINE q == After("bar", type', start')
  <2>1. /\ pc["ld"] = "bar" /\ Enter("ld", q)
        /\ q # "finish" => type' = type
    BY <1>0, <1>7, WaitRoute
  <2> HIDE DEF q
  <2>2. pc'["ld"] = q /\ flags' = flags /\ ddr' = ddr
    BY <1>0, <1>7, <2>1 DEF RescanBar, remote, Enter, LoadInv, TypeOK, Threads
  <2>3. pc["ld"] \in Loading /\ pc["ld"] \in InDdr /\ "finish" \notin InDdr
    BY <2>1 DEF Loading, Exclusive, InDdr
  <2> QED BY <2>1, <2>2, <2>3, StillInDdr
<1>8. ASSUME Finish PROVE DdrTold' /\ NoImageWithoutDdr'
  BY <1>0, <1>8, FinishKeeps, NotLoading DEF Loading, Exclusive
<1> QED BY <1>2, <1>3, <1>4, <1>5, <1>6, <1>7, <1>8 DEF LoadModemImg, Threads

LEMMA DdrStep == DdrInv /\ [Next]_vars => DdrInv'
<1> SUFFICES ASSUME DdrInv, [Next]_vars PROVE DdrTold' /\ NoImageWithoutDdr'
  BY LoadStep DEF DdrInv
<1>0. LoadInv /\ Books
  BY StepBooks DEF DdrInv, LoadInv
<1>1. /\ ~Failed("ioctl")' => ~Failed("ioctl")
      /\ ~Failed("clear")' => ~Failed("clear")
  BY <1>0, FailedStays DEF LoadInv, TypeOK, Events
<1>2. ASSUME UNCHANGED <<pc, type, flags, ddr>>
      PROVE  DdrTold' /\ NoImageWithoutDdr'
  BY <1>1, <1>2 DEF DdrInv, DdrTold, NoImageWithoutDdr
<1>3. ASSUME NEW t \in Threads, LoadImages(t) PROVE DdrTold' /\ NoImageWithoutDdr'
  <2>1. UNCHANGED <<pc, type, flags, ddr>>
    BY <1>3 DEF LoadImages, SelectRegion, CopyBegin, CopyEnd, remote
  <2> QED BY <1>2, <2>1
<1>4. CASE BootLoad \/ ReloadModem \/ RebootAllModem
  <2>1. pc'["ld"] \notin Loading
    BY <1>0, <1>4, BootKeeps DEF Loading, Exclusive
  <2> QED BY <2>1, NotLoading
<1>5. CASE LoadModemImg
  BY <1>0, <1>3, <1>5, LdDdr
<1>6. ASSUME NEW w \in Warms,
             \/ WarmReset(w) \/ LockForSpl(w) \/ ClearForSpl(w) \/ SplLoaded(w)
             \/ UnlockAfterSpl(w)
      PROVE  DdrTold' /\ NoImageWithoutDdr'
  <2>1. pc'["ld"] = pc["ld"]
    BY <1>0, <1>6, WarmStepKeeps
  <2>2. CASE WarmReset(w) \/ ClearForSpl(w) \/ SplLoaded(w)
    <3>1. pc["ld"] \notin Exclusive
      BY <1>0, <2>2, WarmsAssumption
      DEF WarmReset, ClearForSpl, SplLoaded, TableWalked, LoadInv, Owners
    <3> QED BY <2>1, <3>1, NotLoading DEF Loading
  <2>3. CASE LockForSpl(w) \/ UnlockAfterSpl(w)
    <3>1. UNCHANGED <<type, flags, ddr>>
      BY <2>3 DEF LockForSpl, UnlockAfterSpl, remote
    <3> QED BY <1>1, <2>1, <3>1 DEF DdrInv, DdrTold, NoImageWithoutDdr
  <2> QED BY <1>6, <2>2, <2>3
<1>7. CASE DdrReady
  BY <1>7 DEF DdrReady, DdrInv, DdrTold, NoImageWithoutDdr
<1>8. CASE UNCHANGED vars
  BY <1>2, <1>8 DEF vars
<1> QED BY <1>3, <1>4, <1>5, <1>6, <1>7, <1>8 DEF Next, LoadSplImg, Threads

(***************************************************************************)
(* "if ep ddr not ready, can't load any image again": a load of everything *)
(* gets beyond the SPL only when this SPL has brought up the DDR, unless   *)
(* an ioctl failed that asks for the flags or clears those of the load     *)
(* before.                                                                 *)
(***************************************************************************)
THEOREM DdrComesFirst == Spec => []NoImageWithoutDdr
<1>1. Init => DdrInv
  <2> SUFFICES ASSUME Init PROVE DdrTold /\ NoImageWithoutDdr
    BY LoadInit DEF DdrInv
  <2>1. pc["ld"] \in {"idle", "boot!"}
    BY DEF Init, Threads
  <2> QED BY <2>1 DEF DdrTold, NoImageWithoutDdr, Exclusive
<1>2. DdrInv => NoImageWithoutDdr
  BY DEF DdrInv
<1> QED BY <1>1, <1>2, DdrStep, PTL DEF Spec

-----------------------------------------------------------------------------
(***************************************************************************)
(* The write locks.                                                        *)
(***************************************************************************)
\* After the stop of a device the load does not get past its start.
LEMMA StartAhead ==
  ASSUME NEW ty \in LoadTypes
  PROVE  LET next(p) == After(p, ty, ty \ {"SP"})
         IN  /\ "SP" \in ty => next("spStop") = "sp" /\ next("sp") = "spStart"
             /\ next("spStart") = "dpStop" => "DP" \in ty
             /\ "DP" \in ty =>
                  \A p \in Exclusive \ {"dpStart", "cpStart"} :
                    next(p) \in Exclusive \ {"cpStart"}
<1> DEFINE st == ty \ {"SP"}
           next(p) == After(p, ty, st)
<1>1. ASSUME "SP" \in ty PROVE next("spStop") = "sp"
  <2>1. PICK n \in 1..18 :
          /\ n > 1
          /\ next(Phases[1]) = Phases[n]
          /\ \A i \in 1..18 : 1 < i /\ i < n => ~Needed(Phases[i], ty, st)
    BY AfterIsFirst
  <2>2. Needed(Phases[2], ty, st)
    BY <1>1, PhaseNames DEF Needed
  <2>3. n = 2
    BY <2>1, <2>2
  <2> QED BY <2>1, <2>3, PhaseNames
<1>2. ASSUME "SP" \in ty PROVE next("sp") = "spStart"
  <2>1. PICK n \in 1..18 :
          /\ n > 2
          /\ next(Phases[2]) = Phases[n]
          /\ \A i \in 1..18 : 2 < i /\ i < n => ~Needed(Phases[i], ty, st)
    BY AfterIsFirst
  <2>2. Needed(Phases[3], ty, st)
    BY <1>2, PhaseNames DEF Needed
  <2>3. n = 3
    BY <2>1, <2>2
  <2> QED BY <2>1, <2>3, PhaseNames
<1>3. ASSUME next("spStart") = "dpStop" PROVE "DP" \in ty
  <2>1. PICK n \in 1..18 : next(Phases[3]) = Phases[n] /\ Needed(Phases[n], ty, st)
    BY AfterIsFirst
  <2>2. Needed("dpStop", ty, st)
    BY <1>3, <2>1, PhaseNames
  <2> QED BY <2>2 DEF Needed
<1>4. ASSUME "DP" \in ty, NEW p \in Exclusive \ {"dpStart", "cpStart"}
      PROVE  next(p) \in Exclusive \ {"cpStart"}
  <2>1. PICK k \in 6..15 : p = Phases[k]
    BY PhaseNames DEF Exclusive
  <2>2. PICK n \in 1..18 :
          /\ n > k
          /\ next(Phases[k]) = Phases[n]
          /\ \A i \in 1..18 : k < i /\ i < n => ~Needed(Phases[i], ty, st)
    BY AfterIsFirst
  <2>3. Needed(Phases[16], ty, st)
    BY <1>4, PhaseNames DEF Needed
  <2>4. n \in 7..16
    BY <2>2, <2>3
  <2>5. Phases[n] \in Exclusive \ {"cpStart"}
    BY <2>4, PhaseNames DEF Exclusive
  <2> QED BY <2>1, <2>2, <2>5
<1> QED BY <1>1, <1>2, <1>3, <1>4

\* What is left of LockInv when a thread goes on.
Kept == Starts' /\ NoLockIsOrphaned'

\* load_modem_img goes on to q and takes or releases no lock.
LEMMA LdOn ==
  ASSUME LockInv, NEW q \in Labels, Enter("ld", q), gaveup => gaveup', lock' = lock,
         q \in {"spStop", "sp", "spStart"} => "SP" \in type',
         q = "dpStop" => "DP" \in type',
         ~gaveup' /\ lock["dp"] # "free" => "DP" \in type',
         ~gaveup' => \A d \in Devices : lock[d] = "ld" /\ InLoad(d) => InLoad(d)'
  PROVE  Kept
<1>1. "ld" \in Threads /\ \A w \in Warms : w \in Threads \ {"ld"}
  BY WarmsAssumption DEF Threads
<1>2. pc'["ld"] = q /\ \A w \in Warms : pc'[w] = pc[w]
  BY <1>1, Enters DEF LockInv, LoadInv
<1>3. Starts'
  BY <1>2 DEF Starts
<1>4. NoLockIsOrphaned'
  BY <1>2 DEF LockInv, NoLockIsOrphaned
<1> QED BY <1>3, <1>4 DEF Kept

\* Outside its sections it has no lock: what it does there concerns no lock.
LEMMA NoneHeld ==
  ASSUME LockInv, ~gaveup, pc["ld"] \in {"idle", "boot!", "finish", "spStop"}
  PROVE  (\A d \in Devices : ~InLoad(d)) /\ lock["dp"] = "free"
BY DEF LockInv, NoLockIsOrphaned, InLoad, Exclusive, Devices

LEMMA BeginLocks ==
  ASSUME LockInv, NEW ty \in LoadTypes, pc["ld"] \in {"idle", "boot!"}, Begin(ty),
         lock' = lock, gaveup => gaveup', LoadInv'
  PROVE  Kept
<1> DEFINE q == IF "SP" \in ty THEN "spStop" ELSE After("spStart", ty, ty)
<1>1. Enter("ld", q) /\ type' = ty
  BY DEF Begin
<1>2. /\ q \in {"spStop", "sp", "spStart"} => "SP" \in ty
      /\ q = "dpStop" => "DP" \in ty
  <2>1. CASE "SP" \in ty
    BY <2>1
  <2>2. CASE "SP" \notin ty
    <3>1. ty \ {"SP"} = ty
      BY <2>2 DEF LoadTypes, LOAD_ALL_IMG, LOADL_ALL_EXTERNAL_IMG, LOAD_MODEM_IMG
    <3> QED BY <2>2, <3>1, Routes, StartAhead
  <2> QED BY <2>1, <2>2
<1> HIDE DEF q
<1>3. pc'["ld"] = q /\ q \in Labels
  BY <1>1 DEF LockInv, LoadInv, TypeOK, Enter, Threads
<1> QED BY <1>1, <1>2, <1>3, NoneHeld, LdOn

LEMMA StopLocks ==
  ASSUME LockInv, NEW p \in {"spStop", "dpStop", "cpStop"}, Stop(p)
  PROVE  Kept
<1> DEFINE q == After(p, type, start)
<1>1. type \in LoadTypes /\ start = type \ {"SP"} /\ pc["ld"] = p
  BY JobsRun, PhaseRange DEF LockInv, Stop
<1>2. /\ p = "spStop" => "SP" \in type /\ q = "sp"
      /\ p = "dpStop" => "DP" \in type /\ q = "cpStop"
      /\ p = "cpStop" => q \in {"dp", "clear"}
  BY <1>1, Routes, StartAhead DEF LockInv, Starts
<1>3. Enter("ld", q) /\ UNCHANGED <<type, gaveup>>
  BY DEF Stop
<1> HIDE DEF q
<1>4. q \in Labels
  BY <1>2, PhaseRange DEF Labels
<1>5. (gaveup' <=> gaveup) /\ type' = type
  BY <1>3
<1>6. "ld" \in Threads /\ \A w \in Warms : w \in Threads \ {"ld"}
  BY WarmsAssumption DEF Threads
<1>7. pc'["ld"] = q /\ \A w \in Warms : pc'[w] = pc[w]
  BY <1>3, <1>4, <1>6, Enters DEF LockInv, LoadInv
<1>8. lock'[Device(p)] = "ld" /\ \A d \in Devices \ {Device(p)} : lock'[d] = lock[d]
  BY DEF Stop, LockWrite, LockInv, LoadInv, TypeOK, Device, Devices
<1>9. /\ p = "spStop" => Device(p) = "sp"
      /\ p = "dpStop" => Device(p) = "dp"
      /\ p = "cpStop" => Device(p) = "cp"
  BY DEF Device
<1>11. ASSUME ~gaveup, NEW d \in Devices \ {Device(p)}, lock[d] = "ld", InLoad(d)
       PROVE  InLoad(d)'
  BY <1>1, <1>2, <1>7, <1>9, <1>11 DEF InLoad, Exclusive, Devices
<1>12. InLoad(Device(p))'
  BY <1>2, <1>7, <1>9 DEF InLoad, Exclusive
<1>13. NoLockIsOrphaned'
  BY <1>5, <1>7, <1>8, <1>11, <1>12 DEF LockInv, NoLockIsOrphaned
<1>14. Starts'
  <2>1. lock'["dp"] # "free" => p = "dpStop" \/ lock["dp"] # "free"
    BY <1>8, <1>9 DEF Devices
  <2> QED BY <1>2, <1>5, <1>7, <2>1 DEF LockInv, Starts
<1> QED BY <1>13, <1>14 DEF Kept

LEMMA StartLocks ==
  ASSUME LockInv, NEW p \in {"spStart", "dpStart", "cpStart"}, Start(p)
  PROVE  Kept
<1> DEFINE q == After(p, type, start)
<1>1. type \in LoadTypes /\ start = type \ {"SP"} /\ pc["ld"] = p
  BY JobsRun, PhaseRange DEF LockInv, Start
<1>2. /\ p = "spStart" => q \in {"dpStop", "cpStop"} /\ (q = "dpStop" => "DP" \in type)
      /\ p = "dpStart" => q = "cpStart"
      /\ p = "cpStart" => q = "finish"
  <2>1. CASE p = "dpStart"
    <3>1. q \in Loading /\ Place("dpStart") < Place(q)
      BY <1>1, <2>1, LoadingRoute DEF Exclusive, Reached
    <3> HIDE DEF q
    <3> QED BY <2>1, <3>1, Placement DEF Loading, Exclusive
  <2>2. CASE p # "dpStart"
    BY <1>1, <2>2, Routes, StartAhead
  <2> QED BY <2>1, <2>2
<1>3. Enter("ld", q) /\ UNCHANGED <<type, gaveup>>
  BY DEF Start
<1> HIDE DEF q
<1>4. q \in Labels
  BY <1>2, PhaseRange DEF Labels
<1>5. (gaveup' <=> gaveup) /\ type' = type
  BY <1>3
<1>6. "ld" \in Threads /\ \A w \in Warms : w \in Threads \ {"ld"}
  BY WarmsAssumption DEF Threads
<1>7. pc'["ld"] = q /\ \A w \in Warms : pc'[w] = pc[w]
  BY <1>3, <1>4, <1>6, Enters DEF LockInv, LoadInv
<1>8. lock'[Device(p)] = "free" /\ \A d \in Devices \ {Device(p)} : lock'[d] = lock[d]
  BY DEF Start, UnlockWrite, LockInv, LoadInv, TypeOK, Device, Devices
<1>9. /\ p = "spStart" => Device(p) = "sp"
      /\ p = "dpStart" => Device(p) = "dp"
      /\ p = "cpStart" => Device(p) = "cp"
  BY DEF Device
<1>11. ASSUME ~gaveup, NEW d \in Devices \ {Device(p)}, lock[d] = "ld", InLoad(d)
       PROVE  InLoad(d)'
  BY <1>1, <1>2, <1>7, <1>9, <1>11 DEF InLoad, Exclusive, Devices
<1>12. NoLockIsOrphaned'
  BY <1>5, <1>7, <1>8, <1>11 DEF LockInv, NoLockIsOrphaned
<1>13. Starts'
  <2>1. lock'["dp"] # "free" => lock["dp"] # "free"
    BY <1>8, <1>9 DEF Devices
  <2> QED BY <1>2, <1>5, <1>7, <2>1 DEF LockInv, Starts
<1> QED BY <1>12, <1>13 DEF Kept

\* The phases between a stop and the starts.
LEMMA LoadingLocks ==
  ASSUME LockInv, NEW q \in Exclusive, Enter("ld", q), gaveup => gaveup', lock' = lock,
         type' = type, pc["ld"] \in Exclusive \ {"cpStart"},
         "DP" \in type => q # "cpStart"
  PROVE  Kept
<1>1. q \in Labels /\ q \notin {"spStop", "sp", "spStart", "dpStop"}
  BY PhaseRange DEF Exclusive, Labels
<1>2. pc'["ld"] = q
  BY DEF LockInv, LoadInv, TypeOK, Enter, Threads
<1>3. ~gaveup' => (lock["dp"] # "free" => "DP" \in type)
  BY DEF LockInv, Starts
<1>4. ASSUME ~gaveup', NEW d \in Devices, lock[d] = "ld", InLoad(d) PROVE InLoad(d)'
  BY <1>2, <1>3, <1>4 DEF InLoad, Exclusive, Devices
<1> QED BY <1>1, <1>3, <1>4, LdOn

\* A load that has given up keeps its locks: this is what the history is for.
LEMMA GivesUp ==
  ASSUME LockInv, Enter("ld", "finish"), gaveup', lock' = lock
  PROVE  Kept
<1>1. "finish" \in Labels
  BY PhaseRange DEF Labels
<1> QED BY <1>1, LdOn

LEMMA TableLocks ==
  ASSUME LockInv, Books, NEW p \in Tables, TableDone(p)
  PROVE  Kept
<1> DEFINE q == Then(p)
<1>0. LoadInv /\ (gaveup => gaveup') /\ lock' = lock
  BY DEF LockInv, Books, TableDone
<1>1. /\ pc["ld"] = p
      /\ Enter("ld", q)
      /\ p = "sp" => q \in {"spStart", "dpStop", "cpStop"}
      /\ p = "dp" => q = "clear"
      /\ p \in CpTables => q \in Loading \cup {"finish"}
      /\ q = "finish" => gaveup'
      /\ q # "finish" => type' = type /\ type' \in LoadTypes /\ start' = type' \ {"SP"}
  BY <1>0, TableRoute
<1>2. q = After(p, type', start') \/ q \in {"wait", "bar"}
  BY DEF Then
<1> HIDE DEF q
<1>3. CASE q = "finish"
  BY <1>0, <1>1, <1>3, GivesUp
<1>4. CASE q # "finish" /\ p = "sp"
  <2>1. "SP" \in type /\ q = "spStart"
    BY <1>1, <1>2, <1>4, StartAhead DEF LockInv, Starts
  <2>2. q \in Labels
    BY <2>1, PhaseRange DEF Labels
  <2>3. pc'["ld"] = q
    BY <1>0, <1>1, <2>2 DEF LoadInv, TypeOK, Enter, Threads
  <2>4. ~gaveup' /\ lock["dp"] # "free" => "DP" \in type'
    BY <1>0, <1>1, <1>4 DEF LockInv, Starts
  <2>5. \A d \in Devices : InLoad(d) => InLoad(d)'
    BY <1>1, <1>4, <2>1, <2>3 DEF InLoad, Exclusive, Devices
  <2> QED BY <1>0, <1>1, <1>4, <2>1, <2>2, <2>4, <2>5, LdOn
<1>5. CASE q # "finish" /\ p # "sp"
  <2>1. p \in Exclusive \ {"dpStart", "cpStart"} /\ q \in Exclusive
    BY <1>1, <1>5 DEF Tables, CpTables, Loading, Exclusive
  <2>2. "DP" \in type => q # "cpStart"
    BY <1>1, <1>2, <1>5, <2>1, StartAhead
  <2> QED BY <1>0, <1>1, <1>5, <2>1, <2>2, LoadingLocks
<1> QED BY <1>3, <1>4, <1>5

LEMMA LdLocks ==
  ASSUME LockInv, Books, LoadModemImg, \A t \in Threads : ~LoadImages(t)
  PROVE  Kept
<1>0. LoadInv /\ (gaveup => gaveup')
  BY DEF LockInv, Books
<1>1. CASE ClearFlags
  <2> DEFINE q == After("clear", type, start)
  <2>1. type \in LoadTypes /\ start = type \ {"SP"} /\ pc["ld"] = "clear"
    BY <1>0, <1>1, JobsRun, PhaseRange DEF ClearFlags
  <2>2. q \in Exclusive /\ ("DP" \in type => q # "cpStart")
    BY <2>1, LoadingRoute, StartAhead DEF Exclusive, Reached, Loading
  <2>3. Enter("ld", q) /\ lock' = lock /\ type' = type
    BY <1>1 DEF ClearFlags
  <2> HIDE DEF q
  <2> QED BY <1>0, <2>1, <2>2, <2>3, LoadingLocks DEF Exclusive
<1>2. CASE WaitRemote \/ RescanBar
  <2>0. PICK p \in {"wait", "bar"} : (p = "wait" => WaitRemote) /\ (p = "bar" => RescanBar)
    BY <1>2
  <2> DEFINE q == After(p, type', start')
  <2>1. /\ pc["ld"] = p
        /\ Enter("ld", q)
        /\ q \in Reached \cup {"finish"}
        /\ q = "finish" => gaveup'
        /\ q # "finish" => type' = type /\ type' \in LoadTypes /\ start' = type' \ {"SP"}
    BY <1>0, <2>0, WaitRoute
  <2>2. lock' = lock /\ p \in Exclusive \ {"dpStart", "cpStart"}
    BY <1>2 DEF WaitRemote, RescanBar, Exclusive
  <2>3. CASE q = "finish"
    BY <2>1, <2>2, <2>3, GivesUp
  <2>4. CASE q # "finish"
    <3>1. q \in Exclusive /\ ("DP" \in type => q # "cpStart")
      BY <2>1, <2>2, <2>4, StartAhead DEF Exclusive, Reached, Loading
    <3> HIDE DEF q
    <3> QED BY <1>0, <2>1, <2>2, <2>4, <3>1, LoadingLocks
  <2> QED BY <2>3, <2>4
<1>3. CASE Finish
  <2>1. /\ pc["ld"] = "finish" /\ Enter("ld", "idle") /\ lock' = lock
        /\ "idle" \in Labels
    BY <1>3 DEF Finish, Labels
  <2>2. ~gaveup' => lock["dp"] = "free" /\ \A d \in Devices : ~InLoad(d)
    BY <1>0, <2>1, NoneHeld
  <2> QED BY <1>0, <2>1, <2>2, LdOn
<1> QED BY <1>1, <1>2, <1>3, StopLocks, StartLocks, TableLocks DEF LoadModemImg, Threads

LEMMA ImageLocks ==
  ASSUME LockInv, Books, NEW t \in Threads, LoadImages(t)
  PROVE  Kept
<1>1. UNCHANGED <<pc, lock, type>> /\ (gaveup => gaveup')
  BY DEF LoadImages, SelectRegion, CopyBegin, CopyEnd, Books
<1> QED BY <1>1 DEF LockInv, Starts, NoLockIsOrphaned, InLoad, Kept

LEMMA WarmLocks ==
  ASSUME LockInv, Books, NEW w \in Warms,
         \/ WarmReset(w) \/ LockForSpl(w) \/ ClearForSpl(w) \/ SplLoaded(w)
         \/ UnlockAfterSpl(w)
  PROVE  Kept
<1>0. LoadInv /\ w \in Threads /\ w # "ld" /\ w # "free" /\ (gaveup => gaveup')
  BY WarmsAssumption DEF LockInv, Threads, Books
<1>1. /\ pc'["ld"] = pc["ld"] /\ \A v \in Warms \ {w} : pc'[v] = pc[v]
      /\ type' = type
  BY <1>0, WarmStepKeeps
  DEF WarmReset, LockForSpl, ClearForSpl, SplLoaded, UnlockAfterSpl
<1>2. PICK q \in {"lock", "clear", "spl", "relock", "unlock", "idle"} :
        /\ Enter(w, q)
        /\ q = "relock" => gaveup'
        /\ q \in {"lock", "relock"} => lock' = lock
        /\ q = "lock" => pc[w] = "idle"
        /\ q = "clear" => lock' = [lock EXCEPT !["cp"] = w]
        /\ q \in {"spl", "unlock"} => lock' = lock
        /\ q = "idle" => lock' = [lock EXCEPT !["cp"] = "free"]
  BY DEF WarmReset, LockForSpl, ClearForSpl, SplLoaded, UnlockAfterSpl, TableWalked,
         LockWrite, UnlockWrite
<1>3. q \in Labels
  BY <1>2, PhaseRange DEF Labels
<1>4. pc'[w] = q
  BY <1>0, <1>2, <1>3, Enters DEF LoadInv
<1>6. lock'["dp"] = lock["dp"] /\ lock'["sp"] = lock["sp"]
  BY <1>2 DEF LockInv, LoadInv, TypeOK, Devices
<1>7. Starts'
  BY <1>0, <1>1, <1>6 DEF LockInv, Starts
<1>8. NoLockIsOrphaned'
  <2> SUFFICES ASSUME ~gaveup'
               PROVE  \A d \in Devices :
                        \/ lock'[d] = "free"
                        \/ lock'[d] = "ld" /\ InLoad(d)'
                        \/ /\ d = "cp"
                           /\ \E v \in Warms : /\ lock'[d] = v
                                               /\ pc'[v] \in {"clear", "spl", "unlock"}
    BY DEF NoLockIsOrphaned
  <2>1. \A d \in Devices : InLoad(d)' <=> InLoad(d)
    BY <1>1 DEF InLoad
  <2>2. q # "relock"
    BY <1>2
  <2>3. CASE q = "lock"
    BY <1>0, <1>1, <1>2, <2>1, <2>3 DEF LockInv, NoLockIsOrphaned
  <2>4. CASE q \in {"spl", "unlock"}
    BY <1>0, <1>1, <1>2, <1>4, <2>1, <2>4 DEF LockInv, NoLockIsOrphaned
  <2>5. CASE q = "clear"
    <3>1. lock'["cp"] = w
      BY <1>2, <2>5 DEF LockInv, LoadInv, TypeOK, Devices
    <3> QED BY <1>0, <1>4, <1>6, <2>1, <2>5, <3>1 DEF LockInv, NoLockIsOrphaned, Devices
  <2>6. CASE q = "idle"
    <3>1. lock'["cp"] = "free"
      BY <1>2, <2>6 DEF LockInv, LoadInv, TypeOK, Devices
    <3> QED BY <1>0, <1>6, <2>1, <3>1 DEF LockInv, NoLockIsOrphaned, Devices
  <2> QED BY <2>2, <2>3, <2>4, <2>5, <2>6
<1> QED BY <1>7, <1>8 DEF Kept

LEMMA LockStep == LockInv /\ [Next]_vars => LockInv'
<1> SUFFICES ASSUME LockInv, [Next]_vars PROVE LockInv'
  OBVIOUS
<1>1. LoadInv' /\ Books /\ (gaveup => gaveup')
  BY LoadStep, StepBooks DEF LockInv, LoadInv, Books
<1>2. ASSUME NEW t \in Threads, LoadImages(t) PROVE Kept
  BY <1>1, <1>2, ImageLocks
<1>3. CASE BootLoad \/ ReloadModem \/ RebootAllModem
  <2>1. PICK ty \in LoadTypes : Begin(ty)
    BY <1>3 DEF BootLoad, ReloadModem, RebootAllModem, LoadTypes
  <2>2. pc["ld"] \in {"idle", "boot!"} /\ lock' = lock
    BY <1>3 DEF BootLoad, ReloadModem, RebootAllModem
  <2> QED BY <1>1, <2>1, <2>2, BeginLocks DEF Kept, LockInv
<1>4. CASE LoadModemImg
  BY <1>1, <1>2, <1>4, LdLocks DEF Kept, LockInv
<1>5. ASSUME NEW w \in Warms, WarmReset(w) \/ LoadSplImg(w) PROVE LockInv'
  BY <1>1, <1>2, <1>5, WarmLocks DEF LoadSplImg, Threads, Kept, LockInv
<1>6. CASE DdrReady \/ UNCHANGED vars
  <2>1. UNCHANGED <<pc, lock, type>>
    BY <1>6 DEF DdrReady, vars
  <2>2. Starts' /\ NoLockIsOrphaned'
    BY <1>1, <2>1 DEF LockInv, Starts, NoLockIsOrphaned, InLoad
  <2> QED BY <1>1, <2>2 DEF LockInv
<1> QED BY <1>3, <1>4, <1>5, <1>6 DEF Next

(***************************************************************************)
(* modem_lock_write and modem_unlock_write: for any number of warm resets  *)
(* and loads, no lock is left behind by a thread that will not release it, *)
(* until a load or a handler gives up.                                     *)
(***************************************************************************)
THEOREM LocksAreReleased == Spec => []NoLockIsOrphaned
<1>1. Init => LockInv
  <2> SUFFICES ASSUME Init PROVE Starts /\ NoLockIsOrphaned
    BY LoadInit DEF LockInv
  <2>1. /\ \A t \in Threads : pc[t] \in {"idle", "boot!"}
        /\ \A d \in Devices : lock[d] = "free"
    BY DEF Init
  <2> QED BY <2>1 DEF Starts, NoLockIsOrphaned, Threads, Devices
<1>2. LockInv => NoLockIsOrphaned
  BY DEF LockInv
<1> QED BY <1>1, <1>2, LockStep, PTL DEF Spec

-----------------------------------------------------------------------------
(***************************************************************************)
(* The contract of load_modem_img, step by step.                           *)
(***************************************************************************)
Called == {"spStop", "sp", "spStart", "dpStop", "cpStop"}
Beyond == Exclusive \cup {"finish"}

LEMMA PhaseIs ==
  ASSUME LoadInv
  PROVE  /\ pc["ld"] \in {"idle", "boot!"} => Phase = "idle"
         /\ pc["ld"] \in Called => Phase = "called"
         /\ pc["ld"] \in Beyond => Phase = IF lock["cp"] = "ld" THEN "stopped" ELSE "started"
         /\ pc["ld"] \in {"idle", "boot!"} \cup Called \cup Beyond
BY PhaseRange DEF Phase, Called, Beyond, Exclusive, LoadInv, Places

\* A step that leaves the modem's lock and the load in its part is none of the contract.
LEMMA ContractStutter ==
  ASSUME LoadInv, LoadInv', lock'["cp"] = "ld" <=> lock["cp"] = "ld",
         UNCHANGED <<running, state, wake>>,
         \/ pc'["ld"] = pc["ld"]
         \/ pc["ld"] \in Called /\ pc'["ld"] \in Called
         \/ pc["ld"] \in Beyond /\ pc'["ld"] \in Beyond
  PROVE  UNCHANGED Contract!vars
<1>1. Phase' = Phase
  BY DEF Phase, Called, Beyond, Exclusive
<1>2. (lock["cp"] = "ld")' = (lock["cp"] = "ld")
  OBVIOUS
<1> QED BY <1>1, <1>2 DEF Contract!vars

LEMMA ContractInit == Init => Contract!Init
<1> SUFFICES ASSUME Init PROVE Contract!Init
  OBVIOUS
<1>1. pc["ld"] \in {"idle", "boot!"} /\ lock["cp"] = "free"
  BY DEF Init, Threads, Devices
<1>2. Phase = "idle" /\ (lock["cp"] = "ld") = FALSE
  BY <1>1 DEF Phase
<1>3. running \in BOOLEAN /\ state = "other" /\ wake = FALSE
  BY LoadInit DEF Init, LoadInv, TypeOK
<1> QED BY <1>2, <1>3 DEF Contract!Init

LEMMA BeginIsCall ==
  ASSUME LoadInv, LoadInv', Books, BootLoad \/ ReloadModem \/ RebootAllModem
  PROVE  Contract!Call
<1>1. pc["ld"] \in {"idle", "boot!"}
  BY DEF BootLoad, ReloadModem, RebootAllModem
<1>2. pc'["ld"] \in Called
  BY BootKeeps DEF Called
<1>3. Phase = "idle" /\ Phase' = "called"
  BY <1>1, <1>2 DEF Phase, Called
<1>4. lock' = lock /\ state' = "LOADING" /\ wake' = TRUE
  BY DEF BootLoad, ReloadModem, RebootAllModem, Begin
<1>5. running' \in {running, FALSE}
  BY DEF BootLoad, ReloadModem, RebootAllModem, remote
<1> QED BY <1>3, <1>4, <1>5 DEF Contract!Call

LEMMA StopIsStop ==
  ASSUME LoadInv, LoadInv', NEW p \in {"spStop", "dpStop", "cpStop"}, Stop(p)
  PROVE  Contract!Stop \/ UNCHANGED Contract!vars
<1>1. type \in LoadTypes /\ start = type \ {"SP"} /\ pc["ld"] = p
  BY JobsRun, PhaseRange DEF Stop
<1>2. pc'["ld"] = After(p, type, start)
  BY DEF Stop, Enter, LoadInv, TypeOK, Threads
<1>3. /\ p \in {"spStop", "dpStop"} => pc'["ld"] \in Called
      /\ p = "cpStop" => pc'["ld"] \in {"dp", "clear"}
  BY <1>1, <1>2, Routes DEF Called
<1>4. state' = state /\ wake' = wake /\ running' = (running /\ p # "cpStop")
      /\ lock[Device(p)] = "free" /\ lock' = [lock EXCEPT ![Device(p)] = "ld"]
  BY DEF Stop, LockWrite
<1>5. CASE p = "cpStop"
  <2>1. lock["cp"] = "free" /\ lock'["cp"] = "ld"
    BY <1>4, <1>5 DEF Device, LoadInv, TypeOK, Devices
  <2>2. Phase = "called" /\ Phase' = "stopped"
    BY <1>1, <1>3, <1>5, <2>1 DEF Phase
  <2>3. running' = FALSE
    BY <1>4, <1>5, Zenon
  <2> QED BY <1>4, <2>1, <2>2, <2>3 DEF Contract!Stop
<1>6. CASE p # "cpStop"
  <2>1. lock'["cp"] = lock["cp"]
    BY <1>4, <1>6 DEF Device, LoadInv, TypeOK, Devices
  <2>2. running' = running
    BY <1>4, <1>6, Zenon DEF LoadInv, TypeOK
  <2> QED BY <1>1, <1>3, <1>4, <1>6, <2>1, <2>2, ContractStutter DEF Called
<1> QED BY <1>5, <1>6

LEMMA StartIsStart ==
  ASSUME LoadInv, LoadInv', NEW p \in {"spStart", "dpStart", "cpStart"}, Start(p)
  PROVE  Contract!Start \/ UNCHANGED Contract!vars
<1>1. type \in LoadTypes /\ start = type \ {"SP"} /\ pc["ld"] = p
  BY JobsRun, PhaseRange DEF Start
<1>2. pc'["ld"] = After(p, type, start)
  BY DEF Start, Enter, LoadInv, TypeOK, Threads
<1>3. /\ p = "spStart" => pc'["ld"] \in Called
      /\ p = "dpStart" => pc'["ld"] \in Beyond
      /\ p = "cpStart" => pc'["ld"] = "finish"
  BY <1>1, <1>2, Routes, LoadingRoute DEF Called, Beyond, Reached, Loading, Exclusive
<1>4. state' = state /\ wake' = wake /\ running' = (running \/ p = "cpStart")
      /\ lock' = [lock EXCEPT ![Device(p)] = "free"]
  BY DEF Start, UnlockWrite
<1>5. CASE p = "cpStart"
  <2>1. lock["cp"] = "ld" /\ lock'["cp"] = "free"
    BY <1>1, <1>4, <1>5 DEF Device, LoadInv, TypeOK, Devices, Owners, Exclusive
  <2>2. Phase = "stopped" /\ Phase' = "started"
    BY <1>1, <1>3, <1>5, <2>1 DEF Phase
  <2>3. running' = TRUE
    BY <1>4, <1>5, Zenon
  <2> QED BY <1>4, <2>1, <2>2, <2>3 DEF Contract!Start
<1>6. CASE p # "cpStart"
  <2>1. lock'["cp"] = lock["cp"]
    BY <1>4, <1>6 DEF Device, LoadInv, TypeOK, Devices
  <2>2. running' = running
    BY <1>4, <1>6, Zenon DEF LoadInv, TypeOK
  <2> QED BY <1>1, <1>3, <1>4, <1>6, <2>1, <2>2, ContractStutter
          DEF Called, Beyond, Exclusive
<1> QED BY <1>5, <1>6

LEMMA FinishIsReturn ==
  ASSUME LoadInv, Books, Finish
  PROVE  Contract!Return
<1>1. pc["ld"] = "finish" /\ pc'["ld"] = "idle"
  BY FinishKeeps DEF Finish
<1>2. Phase \in {"stopped", "started"} /\ Phase' = "idle"
  BY <1>1 DEF Phase
<1>3. lock' = lock /\ running' = running /\ state' = "BOOTING" /\ wake' = FALSE
  BY DEF Finish, remote
<1> QED BY <1>2, <1>3 DEF Contract!Return

LEMMA RestIsStutter ==
  ASSUME LoadInv, LoadInv', Books,
         \/ ClearFlags \/ WaitRemote \/ RescanBar \/ DdrReady
         \/ \E p \in Tables : TableDone(p)
         \/ \E t \in Threads : LoadImages(t)
  PROVE  UNCHANGED Contract!vars
<1>1. CASE ClearFlags
  <2>1. pc["ld"] \in Beyond /\ pc'["ld"] \in Beyond
    BY <1>1, ClearKeeps DEF ClearFlags, Beyond, Reached, Loading, Exclusive
  <2> QED BY <1>1, <2>1, ContractStutter DEF ClearFlags
<1>2. CASE WaitRemote \/ RescanBar
  <2>1. PICK p \in {"wait", "bar"} : (p = "wait" => WaitRemote) /\ (p = "bar" => RescanBar)
    BY <1>2
  <2>2. pc["ld"] = p /\ pc'["ld"] = After(p, type', start')
    BY <2>1 DEF WaitRemote, RescanBar, Enter, LoadInv, TypeOK, Threads
  <2>3. pc["ld"] \in Beyond /\ pc'["ld"] \in Beyond
    BY <2>1, <2>2, WaitRoute DEF Beyond, Reached, Loading, Exclusive
  <2> QED BY <1>2, <2>3, ContractStutter DEF WaitRemote, RescanBar, remote
<1>3. CASE DdrReady
  BY <1>3, ContractStutter DEF DdrReady
<1>4. ASSUME NEW p \in Tables, TableDone(p) PROVE UNCHANGED Contract!vars
  <2> DEFINE q == Then(p)
  <2>1. /\ pc["ld"] = p
        /\ Enter("ld", q)
        /\ p = "sp" => q \in {"spStart", "dpStop", "cpStop"}
        /\ p = "dp" => q = "clear"
        /\ p \in CpTables => q \in Loading \cup {"finish"}
    BY <1>4, TableRoute
  <2> HIDE DEF q
  <2>2. pc'["ld"] = q
    BY <2>1 DEF Enter, LoadInv, TypeOK, Threads
  <2>3. \/ pc["ld"] \in Called /\ pc'["ld"] \in Called
        \/ pc["ld"] \in Beyond /\ pc'["ld"] \in Beyond
    BY <2>1, <2>2 DEF Called, Beyond, CpTables, Tables, Loading, Exclusive
  <2>4. UNCHANGED <<lock, running, state, wake>>
    BY <1>4, TableFlags
  <2> QED BY <2>3, <2>4, ContractStutter
<1>5. ASSUME NEW t \in Threads, LoadImages(t) PROVE UNCHANGED Contract!vars
  <2>1. UNCHANGED <<pc, lock, running, state, wake>>
    BY <1>5 DEF LoadImages, SelectRegion, CopyBegin, CopyEnd, remote
  <2> QED BY <2>1, ContractStutter
<1> QED BY <1>1, <1>2, <1>3, <1>4, <1>5

LEMMA WarmIsStutter ==
  ASSUME LoadInv, LoadInv', Books, NEW w \in Warms,
         \/ WarmReset(w) \/ LockForSpl(w) \/ ClearForSpl(w) \/ SplLoaded(w)
         \/ UnlockAfterSpl(w)
  PROVE  UNCHANGED Contract!vars
<1>1. pc'["ld"] = pc["ld"]
  BY WarmStepKeeps
<1>2. UNCHANGED <<running, state, wake>>
  BY DEF WarmReset, LockForSpl, ClearForSpl, SplLoaded, UnlockAfterSpl, remote
<1>3. lock'["cp"] = "ld" <=> lock["cp"] = "ld"
  <2>1. CASE LockForSpl(w)
    BY <2>1, WarmsAssumption DEF LockForSpl, LockWrite, LoadInv, TypeOK, Devices
  <2>2. CASE UnlockAfterSpl(w)
    BY <2>2, WarmsAssumption
    DEF UnlockAfterSpl, UnlockWrite, LoadInv, TypeOK, Devices, Owners
  <2>3. CASE WarmReset(w) \/ ClearForSpl(w) \/ SplLoaded(w)
    BY <2>3 DEF WarmReset, ClearForSpl, SplLoaded
  <2> QED BY <2>1, <2>2, <2>3
<1> QED BY <1>1, <1>2, <1>3, ContractStutter

LEMMA ContractStep ==
  LoadInv /\ LoadInv' /\ [Next]_vars => [Contract!Next]_(Contract!vars)
<1> SUFFICES ASSUME LoadInv, LoadInv', [Next]_vars
             PROVE  Contract!Next \/ UNCHANGED Contract!vars
  OBVIOUS
<1>0. Books
  BY StepBooks DEF LoadInv
<1>1. CASE BootLoad \/ ReloadModem \/ RebootAllModem
  BY <1>0, <1>1, BeginIsCall DEF Contract!Next
<1>2. CASE LoadModemImg
  BY <1>0, <1>2, StopIsStop, StartIsStart, FinishIsReturn, RestIsStutter
  DEF LoadModemImg, Contract!Next, Threads
<1>3. ASSUME NEW w \in Warms, WarmReset(w) \/ LoadSplImg(w)
      PROVE  UNCHANGED Contract!vars
  BY <1>0, <1>3, WarmIsStutter, RestIsStutter DEF LoadSplImg, Threads
<1>4. CASE DdrReady
  BY <1>0, <1>4, RestIsStutter
<1>5. CASE UNCHANGED vars
  BY <1>5, ContractStutter DEF vars
<1> QED BY <1>1, <1>2, <1>3, <1>4, <1>5 DEF Next

(***************************************************************************)
(* load_modem_img implements LoadContract: with every table, failure and   *)
(* interleaving of SPL reloads, a load stops the modem once under its lock *)
(* before it starts it, starts it at most once, and nobody else does.      *)
(***************************************************************************)
THEOREM LoadImplementsContract == Spec => KeepsContract
BY ContractInit, ContractStep, LoadInvariant, PTL DEF Spec, KeepsContract, Contract!Spec
=============================================================================
