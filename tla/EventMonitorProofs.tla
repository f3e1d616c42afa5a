------------------------- MODULE EventMonitorProofs -------------------------
(***************************************************************************)
(* Proofs about EventMonitor, for any number of handler threads and every  *)
(* budget of uevents, reboots and threads that cannot be created.          *)
(***************************************************************************)
EXTENDS EventMonitor, TLAPS

\* Where Goto leaves the threads.
LEMMA Goes ==
  ASSUME TypeOK, NEW t \in Threads, NEW from, NEW to \in Labels, Goto(t, from, to)
  PROVE  /\ pc' \in [Threads -> Labels]
         /\ info' \in [Threads -> Uevents]
         /\ later' \in [Threads -> SUBSET Uevents]
         /\ pc[t] = from
         /\ pc' = [pc EXCEPT ![t] = to]
         /\ pc'[t] = to
         /\ to # "idle" => info'[t] = info[t]
         /\ \A u \in Threads \ {t} : pc'[u] = pc[u] /\ info'[u] = info[u]
<1>1. Nothing \in Uevents
  BY DEF Nothing, Uevent, Uevents, Subsystems
<1>2. pc' = [pc EXCEPT ![t] = to] /\ pc[t] = from
  BY DEF Goto
<1>3. info' = [info EXCEPT ![t] = IF to = "idle" THEN Nothing ELSE @]
  BY DEF Goto
<1>4. pc \in [Threads -> Labels] /\ info \in [Threads -> Uevents]
  BY DEF TypeOK
<1>5. later' \in [Threads -> SUBSET Uevents]
  BY DEF Goto, TypeOK
<1>6. pc' \in [Threads -> Labels] /\ pc'[t] = to /\ \A u \in Threads \ {t} : pc'[u] = pc[u]
  BY <1>2, <1>4
<1>7. /\ info' \in [Threads -> Uevents]
      /\ to # "idle" => info'[t] = info[t]
      /\ \A u \in Threads \ {t} : info'[u] = info[u]
  BY <1>1, <1>3, <1>4
<1> QED BY <1>2, <1>5, <1>6, <1>7

LeftOK == left \in [Happens -> Nat] /\ \A what \in Happens : left[what] <= Budget[what]

\* What happens once counts from then on.
LEMMA SpendIs ==
  ASSUME LeftOK, NEW e \in Happens, Spend(e)
  PROVE  /\ LeftOK'
         /\ left'[e] < Budget[e]
         /\ \A what \in Happens : Failed(what) => left'[what] < Budget[what]
<1>1. left \in [Happens -> Nat] /\ Budget \in [Happens -> Nat]
  BY BudgetAssumption DEF LeftOK
<1>2. left' \in [Happens -> Nat] /\ left'[e] = left[e] - 1 /\ left[e] \in Nat
  BY <1>1 DEF Spend
<1>3. \A what \in Happens : left'[what] <= left[what]
  BY <1>1 DEF Spend
<1>4. ASSUME NEW what \in Happens
      PROVE  left'[what] <= Budget[what] /\ (Failed(what) => left'[what] < Budget[what])
  <2>1. left[what] <= Budget[what] /\ left'[what] <= left[what]
    BY <1>3 DEF LeftOK
  <2>2. left[what] \in Nat /\ left'[what] \in Nat /\ Budget[what] \in Nat
    BY <1>1, <1>2
  <2> QED BY <2>1, <2>2 DEF Failed
<1>5. left'[e] < Budget[e]
  BY <1>1, <1>2 DEF LeftOK
<1> QED BY <1>2, <1>4, <1>5 DEF LeftOK

LEMMA UeventTypes ==
  /\ Nothing \in Uevents
  /\ Gone(TRUE) \in Uevents /\ Gone(FALSE) \in Uevents
  /\ Back(TRUE) \in Uevents /\ Back(FALSE) \in Uevents
  /\ Uevent("modem_ctrl", "change", "WARM_RESET", FALSE) \in Uevents
  /\ Uevent("modem_ctrl", "change", "CP_CRASH", FALSE) \in Uevents
BY DEF Nothing, Gone, Back, Uevent, Uevents, Subsystems

LEMMA ShortSequences ==
  ASSUME NEW S
  PROVE  /\ << >> \in Seq(S)
         /\ \A a \in S : <<a>> \in Seq(S)
         /\ \A a, b \in S : <<a, b>> \in Seq(S)
         /\ \A r, s \in Seq(S) : r \o s \in Seq(S)
OBVIOUS

LEMMA OwnedIs ==
  ASSUME NEW f \in Files
  PROVE  /\ Owned(f) \in Files
         /\ f = "absent" => Owned(f) = "absent"
         /\ f # "absent" => Owned(f) = "system"
BY DEF Owned, Files

(***************************************************************************)
(* A handler's step: it goes from one of its places to another one, and    *)
(* that of the endpoint's return to the chown, if it reads its own uevent. *)
(***************************************************************************)
LEMMA BehindIs ==
  ASSUME TypeOK, NEW h \in Threads, NEW a
  PROVE  ActionIs(h, a) \subseteq BOOLEAN /\ PathIsEp(h) \subseteq BOOLEAN
<1>1. info[h].ep \in BOOLEAN /\ \A e \in later[h] : e.ep \in BOOLEAN
  BY DEF TypeOK, Uevents
<1> QED BY <1>1 DEF ActionIs, PathIsEp, Behind

LEMMA BackIs ==
  Back(TRUE).sub = "pci" /\ Back(TRUE).act = "add" /\ Back(TRUE).ep
BY DEF Back, Uevent

LEMMA HandlerGoes ==
  ASSUME TypeOK, NEW h \in Handlers,
         ModemEventTriger(h) \/ PcieEvent(h) \/ LoadSpl(h)
  PROVE  /\ \E to \in {"spl", "panic", "path", "chown1", "idle"} :
              /\ Goto(h, pc[h], to)
              /\ pc[h] \in {"action", "path", "spl"}
              /\ ~missed' /\ info[h] = Back(TRUE) =>
                   /\ pc[h] = "action" => to = "path"
                   /\ pc[h] = "path" => to = "chown1"
         /\ missed' \in BOOLEAN
         /\ missed => missed'
         /\ UNCHANGED <<queue, inload, ep, bridge, overlap, left>>
<1> USE BackIs
<1>0. h \in Threads /\ missed \in BOOLEAN
  BY DEF Threads, TypeOK
<1>1. CASE ModemEventTriger(h)
  <2>1. PICK change \in ActionIs(h, "change") :
          /\ Goto(h, "action", IF ~change THEN "idle"
                               ELSE CASE info[h].stat = "WARM_RESET" -> "spl"
                                      [] info[h].stat = "CP_CRASH" -> "panic"
                                      [] OTHER -> "idle")
          /\ missed' = (missed \/ change # (info[h].act = "change"))
    BY <1>1 DEF ModemEventTriger
  <2>2. info[h] # Back(TRUE)
    BY <1>1 DEF ModemEventTriger
  <2> QED BY <1>0, <1>1, <2>1, <2>2 DEF ModemEventTriger, pci, Goto
<1>2. CASE PcieEvent(h)
  <2>0. UNCHANGED <<queue, inload, ep, bridge, overlap, left>>
    BY <1>2 DEF PcieEvent, pci
  <2>1. CASE \E add \in ActionIs(h, "add") :
               /\ Goto(h, "action", IF add THEN "path" ELSE "idle")
               /\ missed' = (missed \/ add # (info[h].act = "add"))
    <3>1. PICK add \in BOOLEAN :
            /\ Goto(h, "action", IF add THEN "path" ELSE "idle")
            /\ missed' = (missed \/ add # (info[h].act = "add"))
      BY <1>0, <2>1, BehindIs
    <3>2. pc[h] = "action"
      BY <3>1 DEF Goto
    <3>3. CASE add
      BY <1>0, <2>0, <3>1, <3>2, <3>3
    <3>4. CASE ~add
      BY <1>0, <2>0, <3>1, <3>2, <3>4
    <3> QED BY <3>3, <3>4
  <2>2. CASE \E isEp \in PathIsEp(h) :
               /\ Goto(h, "path", IF isEp THEN "chown1" ELSE "idle")
               /\ missed' = (missed \/ isEp # info[h].ep)
    <3>1. PICK isEp \in BOOLEAN :
            /\ Goto(h, "path", IF isEp THEN "chown1" ELSE "idle")
            /\ missed' = (missed \/ isEp # info[h].ep)
      BY <1>0, <2>2, BehindIs
    <3>2. pc[h] = "path" /\ info[h].ep \in BOOLEAN
      BY <1>0, <3>1 DEF Goto, TypeOK, Uevents
    <3>3. CASE isEp
      BY <1>0, <2>0, <3>1, <3>2, <3>3
    <3>4. CASE ~isEp
      BY <1>0, <2>0, <3>1, <3>2, <3>4
    <3> QED BY <3>3, <3>4
  <2> QED BY <1>2, <2>1, <2>2 DEF PcieEvent
<1>3. CASE LoadSpl(h)
  BY <1>0, <1>3 DEF LoadSpl, pci, Goto
<1> QED BY <1>1, <1>2, <1>3

\* The end of a rescan: a handler stops, a load too, a reboot loads or tries again.
LEMMA OverIs ==
  ASSUME NEW t \in Threads, NEW from, NEW ok \in BOOLEAN, Over(t, from, ok)
  PROVE  \E to \in {"idle", "load", "own1", "end"} :
           /\ Goto(t, from, to)
           /\ ok => to # "own1"
BY DEF Over

\* A step of the rescan moves its thread, within the rescan or out of it.
LEMMA RescanGoes ==
  ASSUME NEW t \in Threads, RescanEpDevice(t)
  PROVE  /\ \E to \in Rescan \cup {"chown2", "idle", "load", "end"} :
              /\ Goto(t, pc[t], to)
              /\ pc[t] \in Rescan \cup {"chown1", "chown2"}
         /\ UNCHANGED <<overlap, inload, missed>>
         /\ left' = left \/ Spend("ep") \/ Spend("bus")
<1>0. UNCHANGED <<inload, missed>>
  BY DEF RescanEpDevice
<1>1. CASE ChangeOwner(t)
  BY <1>0, <1>1 DEF ChangeOwner, ChownEp, ChownBridge, Goto, Rescan
<1>2. CASE RemoveEp(t)
  <2>1. Goto(t, "rmEp", "rmBridge") \/ Over(t, "rmEp", FALSE)
    BY <1>2 DEF RemoveEp
  <2>2. pc[t] = "rmEp" /\ overlap' = overlap /\ (left' = left \/ Spend("ep"))
    BY <1>2 DEF RemoveEp, WriteFails
  <2> QED BY <1>0, <2>1, <2>2, OverIs DEF Rescan
<1>3. CASE RemoveBridge(t)
  <2>1. Goto(t, "rmBridge", "rescan") \/ Over(t, "rmBridge", FALSE)
    BY <1>3 DEF RemoveBridge
  <2>2. pc[t] = "rmBridge" /\ overlap' = overlap /\ (left' = left \/ Spend("bus"))
    BY <1>3 DEF RemoveBridge, WriteFails
  <2> QED BY <1>0, <2>1, <2>2, OverIs DEF Rescan
<1>4. CASE RescanBus(t)
  <2>1. Goto(t, "rescan", "enum") \/ \E ok \in BOOLEAN : Over(t, "rescan", ok)
    BY <1>4 DEF RescanBus
  <2>2. pc[t] = "rescan" /\ overlap' = overlap /\ (left' = left \/ Spend("bus"))
    BY <1>4 DEF RescanBus
  <2> QED BY <1>0, <2>1, <2>2, OverIs DEF Rescan
<1>5. CASE EnumerateEp(t)
  <2>1. Over(t, "enum", TRUE) /\ overlap' = overlap /\ (left' = left \/ Spend("bus"))
    BY <1>5 DEF EnumerateEp
  <2>2. PICK to \in {"idle", "load", "own1", "end"} : Goto(t, "enum", to)
    BY <2>1, OverIs
  <2> QED BY <1>0, <2>1, <2>2 DEF Rescan, Goto
<1> QED BY <1>1, <1>2, <1>3, <1>4, <1>5 DEF RescanEpDevice

\* What a rescan does to the files and which uevents it makes have their types.
LEMMA RescanTypes ==
  ASSUME TypeOK, NEW t \in Threads, RescanEpDevice(t)
  PROVE  queue' \in Seq(Uevents) /\ ep' \in Files /\ bridge' \in Files
<1> USE UeventTypes DEF TypeOK
<1>1. CASE ChangeOwner(t)
  BY <1>1, OwnedIs DEF ChangeOwner, ChownEp, ChownBridge
<1>2. CASE RemoveEp(t)
  <2>1. queue \o <<Gone(TRUE)>> \in Seq(Uevents)
    BY ShortSequences
  <2> QED BY <1>2, <2>1 DEF RemoveEp, Send, Files
<1>3. CASE RemoveBridge(t)
  <2>1. /\ queue \o <<Gone(FALSE)>> \in Seq(Uevents)
        /\ queue \o <<Gone(TRUE), Gone(FALSE)>> \in Seq(Uevents)
    BY ShortSequences
  <2>2. queue' \in Seq(Uevents)
    BY <1>3, <2>1 DEF RemoveBridge, Send
  <2> QED BY <1>3, <2>2 DEF RemoveBridge, Files
<1>4. CASE RescanBus(t)
  <2>1. (IF bridge = "absent" THEN <<Back(FALSE)>> ELSE << >>) \in Seq(Uevents)
    BY ShortSequences
  <2>2. queue' \in Seq(Uevents)
    BY <1>4, <2>1, ShortSequences DEF RescanBus, Send
  <2> QED BY <1>4, <2>2 DEF RescanBus, Files
<1>5. CASE EnumerateEp(t)
  <2>1. queue \o <<Back(TRUE)>> \in Seq(Uevents)
    BY ShortSequences
  <2> QED BY <1>5, <2>1 DEF EnumerateEp, Send, Files
<1> QED BY <1>1, <1>2, <1>3, <1>4, <1>5 DEF RescanEpDevice

\* What the monitor receives, and where.
LEMMA ReceiveTypes ==
  ASSUME TypeOK, Receive
  PROVE  /\ Head(queue) \in Uevents
         /\ queue' \in Seq(Uevents)
         /\ later' \in [Threads -> SUBSET Uevents]
<1>1. Head(queue) \in Uevents /\ Tail(queue) \in Seq(Uevents)
  BY DEF TypeOK, Receive
<1> QED BY <1>1 DEF TypeOK, Receive

LEMMA TypeStep == TypeOK /\ [Next]_vars => TypeOK'
<1> SUFFICES ASSUME TypeOK, [Next]_vars PROVE TypeOK'
  OBVIOUS
<1>0. LeftOK /\ (LeftOK' <=> left' \in [Happens -> Nat]
                             /\ \A what \in Happens : left'[what] <= Budget[what])
  BY DEF TypeOK, LeftOK
<1> USE DEF Happens
<1>1. CASE Kernel
  <2>1. PICK e \in Uevents : KernelSends(e)
    BY <1>1, UeventTypes DEF Kernel
  <2>2. LeftOK'
    BY <1>0, <2>1, SpendIs DEF KernelSends
  <2>3. queue' \in Seq(Uevents)
    BY <2>1 DEF KernelSends, TypeOK
  <2> QED BY <1>0, <2>1, <2>2, <2>3 DEF KernelSends, TypeOK, pci
<1>2. CASE Discard
  <2>1. LeftOK' /\ missed' \in BOOLEAN
    <3>1. CASE Head(queue).sub \in Registered
      BY <1>0, <1>2, <3>1, SpendIs DEF Discard
    <3>2. CASE Head(queue).sub \notin Registered
      BY <1>2, <3>2 DEF Discard, TypeOK, LeftOK
    <3> QED BY <3>1, <3>2
  <2> QED BY <1>0, <1>2, <2>1, ReceiveTypes DEF Discard, TypeOK, pci
<1>3. ASSUME NEW h \in Handlers, Dispatch(h) PROVE TypeOK'
  <2>1. info' \in [Threads -> Uevents] /\ pc' \in [Threads -> Labels]
    BY <1>3, ReceiveTypes DEF Dispatch, TypeOK, Labels
  <2> QED BY <1>0, <1>3, <2>1, ReceiveTypes DEF Dispatch, TypeOK, pci
<1>4. ASSUME NEW h \in Handlers, ModemEventTriger(h) \/ PcieEvent(h) \/ LoadSpl(h) PROVE TypeOK'
  <2>1. \E to \in Labels : Goto(h, pc[h], to)
    BY <1>4, HandlerGoes DEF Labels
  <2> QED BY <1>0, <1>4, <2>1, HandlerGoes, Goes DEF TypeOK, Threads
<1>5. ASSUME NEW h \in Handlers, Panic(h) PROVE TypeOK'
  <2>1. Goto(h, "panic", "own1") /\ overlap' \in BOOLEAN
        /\ UNCHANGED <<queue, inload, missed, ep, bridge, left>>
    BY <1>5 DEF Panic, BeginRescan
  <2> QED BY <2>1, Goes DEF TypeOK, Labels, Threads, Rescan
<1>6. ASSUME NEW t \in Threads, RescanEpDevice(t) PROVE TypeOK'
  <2>1. queue' \in Seq(Uevents) /\ ep' \in Files /\ bridge' \in Files
    BY <1>6, RescanTypes
  <2>2. /\ \E to \in Labels : Goto(t, pc[t], to)
        /\ UNCHANGED <<overlap, inload, missed>>
    BY <1>6, RescanGoes DEF Labels
  <2>3. LeftOK'
    BY <1>0, <1>6, RescanGoes, SpendIs DEF LeftOK
  <2> QED BY <1>0, <2>1, <2>2, <2>3, Goes DEF TypeOK
<1>7. CASE RebootAllModem
  <2>1. Goto("lc", "idle", "own1") /\ overlap' \in BOOLEAN
        /\ UNCHANGED <<queue, inload, missed, ep, bridge>>
    BY <1>7 DEF RebootAllModem, BeginRescan
  <2>2. LeftOK'
    BY <1>0, <1>7, SpendIs DEF RebootAllModem
  <2> QED BY <1>0, <2>1, <2>2, Goes DEF TypeOK, Labels, Threads, Rescan
<1>8. CASE LoadRescans
  <2>1. Goto("lc", "load", "own1") /\ overlap' \in BOOLEAN /\ inload' \in BOOLEAN
        /\ UNCHANGED <<queue, missed, ep, bridge, left>>
    BY <1>8 DEF LoadRescans, BeginRescan
  <2> QED BY <2>1, Goes DEF TypeOK, Labels, Threads, Rescan
<1>9. CASE Loaded
  <2>1. \E from \in {"load", "end"} : Goto("lc", from, "idle")
    BY <1>9 DEF Loaded
  <2> QED BY <1>9, <2>1, Goes DEF Loaded, TypeOK, Labels, Threads, pci
<1>10. CASE UNCHANGED vars
  BY <1>10 DEF vars, TypeOK
<1> QED BY <1>1, <1>2, <1>3, <1>4, <1>5, <1>6, <1>7, <1>8, <1>9, <1>10 DEF Next, Handle

LEMMA TypeInit == Init => TypeOK
<1> SUFFICES ASSUME Init PROVE TypeOK
  OBVIOUS
<1>1. queue \in Seq(Uevents)
  BY ShortSequences DEF Init
<1>2. info \in [Threads -> Uevents]
  BY UeventTypes DEF Init
<1>3. left \in [Happens -> Nat] /\ \A what \in Happens : left[what] <= Budget[what]
  BY BudgetAssumption DEF Init
<1>4. pc \in [Threads -> Labels]
  BY DEF Init, Labels
<1> QED BY <1>1, <1>2, <1>3, <1>4 DEF Init, TypeOK, Files

(***************************************************************************)
(* The uevents, the monitor's threads and the files of the bus keep their  *)
(* types.                                                                  *)
(***************************************************************************)
THEOREM TypeCorrect == Spec => []TypeOK
BY TypeInit, TypeStep, PTL DEF Spec

-----------------------------------------------------------------------------
(***************************************************************************)
(* The endpoint.                                                           *)
(***************************************************************************)
\* A bus that has failed has failed from then on.
LEMMA FailedStays ==
  ASSUME TypeOK, NEW what \in Happens, Failed(what),
         left' = left \/ \E e \in Happens : Spend(e)
  PROVE  left'[what] < Budget[what]
<1>1. LeftOK
  BY DEF TypeOK, LeftOK
<1> QED BY <1>1, SpendIs DEF Failed

LEMMA SpentNow ==
  ASSUME TypeOK, NEW what \in Happens, Spend(what)
  PROVE  left'[what] < Budget[what]
BY SpendIs DEF TypeOK, LeftOK

\* Steps outside of a rescan: files may only be given to the user system.
LEMMA AsideKeeps ==
  ASSUME RescanInv, NEW t \in Threads, pc[t] \notin Rescan, pc'[t] \notin Rescan,
         \A u \in Threads \ {t} : pc'[u] = pc[u],
         ep' \in {ep, Owned(ep)}, bridge' \in {bridge, Owned(bridge)}, overlap' = overlap,
         left' = left \/ \E e \in Happens : Spend(e)
  PROVE  OneRescan' /\ FilesReady' /\ EpComesBack'
<1>1. \A u \in Threads : pc[u] \in Rescan \/ pc'[u] \in Rescan => pc'[u] = pc[u]
  OBVIOUS
<1>2. /\ ep' = "absent" <=> ep = "absent"
      /\ bridge' = "absent" <=> bridge = "absent"
      /\ bridge = "system" => bridge' = "system"
  BY OwnedIs DEF RescanInv, TypeOK
<1>3. OneRescan'
  BY <1>1 DEF RescanInv, OneRescan, Rescanning
<1>4. Failed("bus") => Failed("bus")'
  BY FailedStays DEF RescanInv, Failed, Happens
<1>5. FilesReady'
  BY <1>1, <1>2, <1>4 DEF RescanInv, FilesReady, Rescan
<1>6. EpComesBack'
  BY <1>1, <1>2, <1>4 DEF RescanInv, EpComesBack, Rescan
<1> QED BY <1>3, <1>5, <1>6

\* A rescan that begins alone finds both devices.
LEMMA BeginKeeps ==
  ASSUME RescanInv, NEW t \in Threads, NEW from, BeginRescan(t, from),
         left' = left \/ \E e \in Happens : Spend(e)
  PROVE  OneRescan' /\ FilesReady' /\ EpComesBack'
<1>1. pc'[t] = "own1" /\ \A u \in Threads \ {t} : pc'[u] = pc[u]
  BY Goes DEF BeginRescan, RescanInv, Labels, Rescan
<1>2. overlap' = (overlap \/ Rescanning # {}) /\ ep' = ep /\ bridge' = bridge
  BY DEF BeginRescan
<1>3. CASE overlap'
  BY <1>3 DEF OneRescan, FilesReady, EpComesBack
<1>4. CASE ~overlap'
  <2>1. ~overlap /\ Rescanning = {}
    BY <1>2, <1>4
  <2>2. \A u \in Threads : pc[u] \notin Rescan
    BY <2>1 DEF Rescanning
  <2>3. ~Failed("bus") => ep # "absent" /\ bridge # "absent"
    BY <2>1, <2>2 DEF RescanInv, EpComesBack, Rescan
  <2>4. \A u \in Threads : pc'[u] \in Rescan => u = t
    BY <1>1, <2>2
  <2>5. OneRescan'
    BY <2>4 DEF OneRescan, Rescanning
  <2>6. Failed("bus") => Failed("bus")'
    BY FailedStays DEF RescanInv, Failed, Happens
  <2>7. FilesReady'
    BY <1>1, <1>2, <2>3, <2>4, <2>6 DEF FilesReady, Rescan
  <2>8. EpComesBack'
    BY <1>2, <2>3, <2>6 DEF EpComesBack
  <2> QED BY <2>5, <2>7, <2>8
<1> QED BY <1>3, <1>4

\* What a rescan that has not met another one has to show: it is still the only one.
LEMMA RescanAlone ==
  ASSUME RescanInv, NEW t \in Threads, NEW to \in Labels, Goto(t, pc[t], to),
         pc[t] \in Rescan, overlap' = overlap,
         ~overlap =>
           \/ left'["bus"] < Budget["bus"]
           \/ /\ to \in {"own1", "own2"} => ep' # "absent" /\ bridge' # "absent"
              /\ to = "rmEp" => ep' # "absent" /\ bridge' = "system"
              /\ to = "rmBridge" => bridge' = "system"
              /\ to = "enum" => bridge' # "absent"
              /\ ep' = "absent" \/ bridge' = "absent" => to \in {"rmBridge", "rescan", "enum"}
  PROVE  OneRescan' /\ FilesReady' /\ EpComesBack'
<1>1. pc'[t] = to /\ \A u \in Threads \ {t} : pc'[u] = pc[u]
  BY Goes DEF RescanInv
<1>2. CASE overlap
  BY <1>2 DEF OneRescan, FilesReady, EpComesBack
<1>3. CASE ~overlap
  <2>1. \A u \in Threads : pc[u] \in Rescan => u = t
    BY <1>3 DEF RescanInv, OneRescan, Rescanning
  <2>2. \A u \in Threads : pc'[u] \in Rescan => u = t
    BY <1>1, <2>1
  <2>3. OneRescan'
    BY <2>2 DEF OneRescan, Rescanning
  <2>4. FilesReady'
    BY <1>1, <1>3, <2>2 DEF FilesReady, Rescan, Failed
  <2>5. EpComesBack'
    BY <1>1, <1>3 DEF EpComesBack, Failed
  <2> QED BY <2>3, <2>4, <2>5
<1> QED BY <1>2, <1>3

\* Before the bus fails the files are ready, and after it has nothing is claimed.
LEMMA ReadyOrFailed ==
  ASSUME RescanInv, left' = left \/ \E e \in Happens : Spend(e)
  PROVE  FilesReady /\ (Failed("bus") => left'["bus"] < Budget["bus"])
BY FailedStays DEF RescanInv, Happens

LEMMA ChangeOwnerKeeps ==
  ASSUME RescanInv, NEW t \in Threads, ChangeOwner(t),
         left' = left \/ \E e \in Happens : Spend(e)
  PROVE  OneRescan' /\ FilesReady' /\ EpComesBack'
<1>0. ep \in Files /\ bridge \in Files /\ overlap' = overlap /\ TypeOK
  BY DEF RescanInv, TypeOK, ChangeOwner
<1>1. CASE pc[t] = "own1"
  <2>1. Goto(t, pc[t], "own2") /\ ep' \in {ep, Owned(ep)} /\ bridge' = bridge
    BY <1>1 DEF ChangeOwner, ChownEp, Goto
  <2>2. ~overlap => left'["bus"] < Budget["bus"] \/ (ep' # "absent" /\ bridge' # "absent")
    BY <1>0, <1>1, <2>1, OwnedIs, ReadyOrFailed DEF FilesReady
  <2> QED BY <1>0, <1>1, <2>1, <2>2, RescanAlone DEF Labels, Rescan
<1>2. CASE pc[t] = "own2"
  <2>1. /\ Goto(t, pc[t], "rmEp") /\ ep' = ep
        /\ bridge' = Owned(bridge) \/ Spend("bus")
    BY <1>2 DEF ChangeOwner, ChownBridge, Goto
  <2>2. bridge' = Owned(bridge) \/ left'["bus"] < Budget["bus"]
    BY <1>0, <2>1, SpentNow DEF Happens
  <2>3. ~overlap => left'["bus"] < Budget["bus"] \/ (ep' # "absent" /\ bridge' = "system")
    BY <1>0, <1>2, <2>1, <2>2, OwnedIs, ReadyOrFailed DEF FilesReady
  <2> QED BY <1>0, <1>2, <2>1, <2>3, RescanAlone DEF Labels, Rescan
<1>3. CASE pc[t] \in {"chown1", "chown2"}
  <2>1. /\ \E to \in {"chown2", "idle"} : Goto(t, pc[t], to)
        /\ ep' \in {ep, Owned(ep)} /\ bridge' \in {bridge, Owned(bridge)}
    BY <1>3 DEF ChangeOwner, ChownEp, ChownBridge, Goto
  <2>2. pc'[t] \in {"chown2", "idle"} /\ \A u \in Threads \ {t} : pc'[u] = pc[u]
    BY <1>0, <2>1, Goes DEF Labels
  <2> QED BY <1>0, <1>3, <2>1, <2>2, AsideKeeps DEF Rescan
<1> QED BY <1>1, <1>2, <1>3 DEF ChangeOwner, Goto

LEMMA RemoveEpKeeps ==
  ASSUME RescanInv, NEW t \in Threads, RemoveEp(t),
         left' = left \/ \E e \in Happens : Spend(e)
  PROVE  OneRescan' /\ FilesReady' /\ EpComesBack'
<1>1. pc[t] = "rmEp" /\ overlap' = overlap /\ bridge' = bridge
  BY DEF RemoveEp
<1>2. ~overlap => left'["bus"] < Budget["bus"] \/ (ep # "absent" /\ bridge = "system")
  BY <1>1, ReadyOrFailed DEF FilesReady
<1>3. CASE ep' = "absent" /\ Goto(t, "rmEp", "rmBridge")
  BY <1>1, <1>2, <1>3, RescanAlone DEF Labels, Rescan
<1>4. CASE ep' = ep /\ Over(t, "rmEp", FALSE)
  <2>1. PICK to \in {"idle", "load", "own1", "end"} : Goto(t, "rmEp", to)
    BY <1>4, OverIs
  <2> QED BY <1>1, <1>2, <1>4, <2>1, RescanAlone DEF Labels, Rescan
<1> QED BY <1>3, <1>4 DEF RemoveEp

LEMMA RemoveBridgeKeeps ==
  ASSUME RescanInv, NEW t \in Threads, RemoveBridge(t),
         left' = left \/ \E e \in Happens : Spend(e)
  PROVE  OneRescan' /\ FilesReady' /\ EpComesBack'
<1>1. pc[t] = "rmBridge" /\ overlap' = overlap /\ TypeOK
  BY DEF RemoveBridge, RescanInv
<1>2. CASE Goto(t, "rmBridge", "rescan")
  BY <1>1, <1>2, RescanAlone DEF Labels, Rescan
<1>3. CASE WriteFails(bridge, "bus") /\ Over(t, "rmBridge", FALSE)
  <2>1. ~overlap => left'["bus"] < Budget["bus"]
    BY <1>1, <1>3, ReadyOrFailed, SpentNow DEF FilesReady, WriteFails, Happens
  <2>2. PICK to \in {"idle", "load", "own1", "end"} : Goto(t, "rmBridge", to)
    BY <1>3, OverIs
  <2> QED BY <1>1, <2>1, <2>2, RescanAlone DEF Labels, Rescan
<1> QED BY <1>2, <1>3 DEF RemoveBridge

LEMMA RescanBusKeeps ==
  ASSUME RescanInv, NEW t \in Threads, RescanBus(t)
  PROVE  OneRescan' /\ FilesReady' /\ EpComesBack'
<1>1. pc[t] = "rescan" /\ overlap' = overlap /\ TypeOK
  BY DEF RescanBus, RescanInv
<1>2. CASE Goto(t, "rescan", "enum") /\ bridge' # "absent"
  BY <1>1, <1>2, RescanAlone DEF Labels, Rescan
<1>3. CASE Spend("bus") /\ \E ok \in BOOLEAN : Over(t, "rescan", ok)
  <2>1. left'["bus"] < Budget["bus"]
    BY <1>1, <1>3, SpentNow DEF Happens
  <2>2. PICK to \in {"idle", "load", "own1", "end"} : Goto(t, "rescan", to)
    BY <1>3, OverIs
  <2> QED BY <1>1, <2>1, <2>2, RescanAlone DEF Labels, Rescan
<1> QED BY <1>2, <1>3 DEF RescanBus

LEMMA EnumerateEpKeeps ==
  ASSUME RescanInv, NEW t \in Threads, EnumerateEp(t),
         left' = left \/ \E e \in Happens : Spend(e)
  PROVE  OneRescan' /\ FilesReady' /\ EpComesBack'
<1>1. PICK to \in {"idle", "load", "own1", "end"} : Goto(t, "enum", to) /\ to # "own1"
  BY OverIs DEF EnumerateEp
<1>2. pc[t] = "enum" /\ overlap' = overlap /\ bridge' = bridge /\ TypeOK
  BY <1>1 DEF EnumerateEp, Goto, RescanInv
<1>3. ~overlap => left'["bus"] < Budget["bus"] \/ bridge # "absent"
  BY <1>2, ReadyOrFailed DEF FilesReady
<1>4. ~overlap => left'["bus"] < Budget["bus"] \/ ep' # "absent"
  BY <1>2, <1>3, SpentNow DEF EnumerateEp, Happens
<1> QED BY <1>1, <1>2, <1>3, <1>4, RescanAlone DEF Labels, Rescan

\* Every step leaves the budget alone or spends from it.
LEMMA LeftStep ==
  ASSUME TypeOK, [Next]_vars
  PROVE  left' = left \/ \E e \in Happens : Spend(e)
<1> USE DEF Happens
<1>1. CASE Kernel \/ Discard \/ RebootAllModem \/ LoadRescans \/ Loaded
  BY <1>1 DEF Kernel, KernelSends, Discard, RebootAllModem, LoadRescans, Loaded
<1>2. ASSUME NEW h \in Handlers, Dispatch(h) \/ Handle(h) PROVE left' = left
  BY <1>2, HandlerGoes DEF Dispatch, Handle, Panic
<1>3. ASSUME NEW t \in Threads, RescanEpDevice(t) PROVE left' = left \/ Spend("ep") \/ Spend("bus")
  BY <1>3, RescanGoes
<1> QED BY <1>1, <1>2, <1>3 DEF Next, vars

LEMMA RescanStep ==
  ASSUME RescanInv, [Next]_vars
  PROVE  OneRescan' /\ FilesReady' /\ EpComesBack'
<1>0. TypeOK /\ (left' = left \/ \E e \in Happens : Spend(e))
  BY LeftStep DEF RescanInv
<1>1. ASSUME UNCHANGED <<pc, ep, bridge, overlap>>
      PROVE  OneRescan' /\ FilesReady' /\ EpComesBack'
  <2>1. Failed("bus") => Failed("bus")'
    BY <1>0, FailedStays DEF Failed, Happens
  <2> QED BY <1>1, <2>1 DEF RescanInv, OneRescan, FilesReady, EpComesBack, Rescanning
<1>2. CASE Kernel \/ Discard
  BY <1>1, <1>2 DEF Kernel, KernelSends, Discard, pci
<1>3. ASSUME NEW h \in Handlers, Dispatch(h)
      PROVE  OneRescan' /\ FilesReady' /\ EpComesBack'
  <2>1. pc[h] = "idle" /\ pc' = [pc EXCEPT ![h] = "action"] /\ UNCHANGED <<ep, bridge, overlap>>
    BY <1>3 DEF Dispatch, pci
  <2>2. pc'[h] = "action" /\ \A u \in Threads \ {h} : pc'[u] = pc[u]
    BY <1>0, <2>1 DEF TypeOK, Threads
  <2> QED BY <1>0, <2>1, <2>2, AsideKeeps DEF Rescan, Threads
<1>4. ASSUME NEW h \in Handlers, ModemEventTriger(h) \/ PcieEvent(h) \/ LoadSpl(h)
      PROVE  OneRescan' /\ FilesReady' /\ EpComesBack'
  <2>1. PICK to \in {"spl", "panic", "path", "chown1", "idle"} :
          Goto(h, pc[h], to) /\ pc[h] \in {"action", "path", "spl"}
    BY <1>0, <1>4, HandlerGoes
  <2>2. pc'[h] = to /\ \A u \in Threads \ {h} : pc'[u] = pc[u]
    BY <1>0, <2>1, Goes DEF Labels, Threads
  <2>3. UNCHANGED <<ep, bridge, overlap>>
    BY <1>0, <1>4, HandlerGoes
  <2> QED BY <1>0, <2>1, <2>2, <2>3, AsideKeeps DEF Rescan, Threads
<1>5. ASSUME NEW h \in Handlers, Panic(h)
      PROVE  OneRescan' /\ FilesReady' /\ EpComesBack'
  BY <1>0, <1>5, BeginKeeps DEF Panic, Threads
<1>6. ASSUME NEW t \in Threads, RescanEpDevice(t)
      PROVE  OneRescan' /\ FilesReady' /\ EpComesBack'
  BY <1>0, <1>6, ChangeOwnerKeeps, RemoveEpKeeps, RemoveBridgeKeeps, RescanBusKeeps,
     EnumerateEpKeeps
  DEF RescanEpDevice
<1>7. CASE RebootAllModem \/ LoadRescans
  BY <1>0, <1>7, BeginKeeps DEF RebootAllModem, LoadRescans, Threads
<1>8. CASE Loaded
  <2>1. /\ \E from \in {"load", "end"} : Goto("lc", from, "idle") /\ pc["lc"] = from
        /\ UNCHANGED <<ep, bridge, overlap>>
    BY <1>8 DEF Loaded, pci, Goto
  <2>2. pc'["lc"] = "idle" /\ \A u \in Threads \ {"lc"} : pc'[u] = pc[u]
    BY <1>0, <2>1, Goes DEF Labels, Threads
  <2> QED BY <1>0, <2>1, <2>2, AsideKeeps DEF Rescan, Threads
<1>9. CASE UNCHANGED vars
  BY <1>1, <1>9 DEF vars
<1> QED BY <1>2, <1>3, <1>4, <1>5, <1>6, <1>7, <1>8, <1>9 DEF Next, Handle

(***************************************************************************)
(* modem_rescan_ep_device never loses the endpoint by itself: unless two   *)
(* threads have rescanned at the same time or the bus has failed, the      *)
(* endpoint or its bridge is absent only while a rescan is between their   *)
(* removal and their return, whichever of the three callers rescans and    *)
(* however often the endpoint's own file fails.                            *)
(***************************************************************************)
THEOREM RescanBringsEpBack == Spec => []EpComesBack
<1>1. Init => RescanInv
  <2> SUFFICES ASSUME Init PROVE OneRescan /\ FilesReady /\ EpComesBack
    BY TypeInit DEF RescanInv
  <2>1. \A t \in Threads : pc[t] \in {"idle", "load"}
    BY DEF Init
  <2> QED BY <2>1 DEF Init, OneRescan, FilesReady, EpComesBack, Rescanning, Rescan
<1>2. RescanInv /\ [Next]_vars => RescanInv'
  BY TypeStep, RescanStep DEF RescanInv
<1>3. RescanInv => EpComesBack
  BY DEF RescanInv
<1> QED BY <1>1, <1>2, <1>3, PTL DEF Spec

-----------------------------------------------------------------------------
(***************************************************************************)
(* The owners of the files.                                                *)
(***************************************************************************)
Ep      == {"action", "path", "chown1"}
Bridge  == Ep \cup {"chown2"}
Trusted == ~missed /\ ~Failed("ep") /\ ~Failed("bus")

LEMMA Unroll ==
  OwnersInv <=>
    /\ bridge = "absent" => ep = "absent"
    /\ Trusted /\ ep = "root" => Coming(Ep)
    /\ Trusted /\ bridge = "root" =>
         Coming(Bridge) \/ (ep = "absent" /\ \E t \in Threads : pc[t] = "enum")
<1>1. Bridge = {"action", "path", "chown1", "chown2"}
  BY DEF Bridge, Ep
<1> QED BY <1>1, Zenon DEF OwnersInv, Ep, Trusted

\* The same after a step.
LEMMA OwnersNext ==
  ASSUME bridge' = "absent" => ep' = "absent",
         Trusted' /\ ep' = "root" => Coming(Ep)',
         Trusted' /\ bridge' = "root" =>
           Coming(Bridge)' \/ (ep' = "absent" /\ \E t \in Threads : pc'[t] = "enum")
  PROVE  OwnersInv'
<1>1. Bridge = {"action", "path", "chown1", "chown2"}
  BY DEF Bridge, Ep
<1> QED BY <1>1, Zenon DEF OwnersInv, Ep, Trusted

\* A return of the endpoint that has been announced stays so when more is queued ...
LEMMA QueueAdds ==
  ASSUME TypeOK, NEW r \in Seq(Uevents), queue' = queue \o r
  PROVE  /\ (\E i \in 1..Len(queue) : queue[i] = Back(TRUE)) =>
              \E j \in 1..Len(queue') : queue'[j] = Back(TRUE)
         /\ (\E i \in 1..Len(r) : r[i] = Back(TRUE)) =>
              \E j \in 1..Len(queue') : queue'[j] = Back(TRUE)
<1>1. queue \in Seq(Uevents)
  BY DEF TypeOK
<1>2. Len(queue') = Len(queue) + Len(r) /\ Len(queue) \in Nat /\ Len(r) \in Nat
  BY <1>1
<1>3. ASSUME NEW i \in 1..Len(queue), queue[i] = Back(TRUE)
      PROVE  \E j \in 1..Len(queue') : queue'[j] = Back(TRUE)
  <2>1. i \in 1..Len(queue') /\ queue'[i] = queue[i]
    BY <1>1, <1>2
  <2> QED BY <1>3, <2>1
<1>4. ASSUME NEW i \in 1..Len(r), r[i] = Back(TRUE)
      PROVE  \E j \in 1..Len(queue') : queue'[j] = Back(TRUE)
  <2>1. Len(queue) + i \in 1..Len(queue') /\ queue'[Len(queue) + i] = r[i]
    BY <1>1, <1>2
  <2> QED BY <1>4, <2>1
<1> QED BY <1>3, <1>4

\* ... and when the first in the queue is another one.
LEMMA QueueShrinks ==
  ASSUME NEW s \in Seq(Uevents), NEW e, s # << >>, Head(s) # e,
         \E i \in 1..Len(s) : s[i] = e
  PROVE  \E j \in 1..Len(Tail(s)) : Tail(s)[j] = e
<1>1. PICK i \in 1..Len(s) : s[i] = e
  OBVIOUS
<1>2. i # 1
  BY <1>1
<1>3. i - 1 \in 1..Len(Tail(s)) /\ Tail(s)[i - 1] = e
  BY <1>1, <1>2
<1> QED BY <1>3

\* A step of thread t after which the uevents are still queued, and its own is in hand.
LEMMA ComingStays ==
  ASSUME NEW t, NEW L,
         (\E i \in 1..Len(queue) : queue[i] = Back(TRUE)) =>
           \E j \in 1..Len(queue') : queue'[j] = Back(TRUE),
         \A u \in Handlers \ {t} : pc'[u] = pc[u] /\ info'[u] = info[u],
         t \in Handlers /\ info[t] = Back(TRUE) /\ pc[t] \in L =>
           info'[t] = Back(TRUE) /\ pc'[t] \in L,
         Coming(L)
  PROVE  Coming(L)'
<1>1. CASE \E i \in 1..Len(queue) : queue[i] = Back(TRUE)
  BY <1>1 DEF Coming, Back, Uevent
<1>2. ASSUME NEW h \in Handlers, info[h] = Back(TRUE), pc[h] \in L PROVE Coming(L)'
  <2>1. info'[h] = Back(TRUE) /\ pc'[h] \in L
    BY <1>2
  <2>2. \E u \in Handlers : info'[u] = Back(TRUE) /\ pc'[u] \in L
    BY <2>1
  <2> QED BY <2>2 DEF Coming, Back, Uevent
<1> QED BY <1>1, <1>2 DEF Coming

\* Steps that leave the files to the user who has them, or give them to system.
LEMMA OwnersAside ==
  ASSUME TypeOK, OwnersInv, Trusted' => Trusted,
         ep' \in {ep, Owned(ep)}, bridge' \in {bridge, Owned(bridge)},
         Trusted' /\ ep' = ep /\ Coming(Ep) => Coming(Ep)',
         Trusted' /\ bridge' = bridge /\ Coming(Bridge) => Coming(Bridge)',
         \A u \in Threads : pc[u] = "enum" => pc'[u] = "enum"
  PROVE  OwnersInv'
<1>1. /\ bridge' = "absent" <=> bridge = "absent"
      /\ ep' = "absent" <=> ep = "absent"
      /\ ep' = "root" => ep = "root" /\ ep' = ep
      /\ bridge' = "root" => bridge = "root" /\ bridge' = bridge
  BY OwnedIs DEF TypeOK
<1>2. bridge' = "absent" => ep' = "absent"
  BY <1>1, Unroll
<1>3. Trusted' /\ ep' = "root" => Coming(Ep)'
  BY <1>1, Unroll
<1>4. Trusted' /\ bridge' = "root" =>
        Coming(Bridge)' \/ (ep' = "absent" /\ \E t \in Threads : pc'[t] = "enum")
  BY <1>1, Unroll
<1> QED BY <1>2, <1>3, <1>4, OwnersNext

LEMMA TrustedStays ==
  ASSUME TypeOK, [Next]_vars, missed => missed'
  PROVE  Trusted' => Trusted
<1>1. \A what \in Happens : Failed(what) => left'[what] < Budget[what]
  BY LeftStep, FailedStays
<1> QED BY <1>1 DEF Trusted, Failed, Happens

\* Who moves, and what it leaves behind for the handlers of the endpoint's return.
LEMMA MovesAside ==
  ASSUME TypeOK, OwnersInv, NEW t \in Threads, NEW to \in Labels, Goto(t, pc[t], to),
         pc[t] \notin Bridge \cup {"enum"}, NEW r \in Seq(Uevents), queue' = queue \o r,
         Trusted' => Trusted, ep' \in {ep, Owned(ep)}, bridge' \in {bridge, Owned(bridge)}
  PROVE  OwnersInv'
<1>1. pc'[t] = to /\ \A u \in Threads \ {t} : pc'[u] = pc[u] /\ info'[u] = info[u]
  BY Goes
<1>2. (\E i \in 1..Len(queue) : queue[i] = Back(TRUE)) =>
        \E j \in 1..Len(queue') : queue'[j] = Back(TRUE)
  BY QueueAdds
<1>3. \A u \in Handlers \ {t} : pc'[u] = pc[u] /\ info'[u] = info[u]
  BY <1>1 DEF Threads
<1>4. Coming(Ep) => Coming(Ep)'
  BY <1>2, <1>3, ComingStays DEF Bridge
<1>5. Coming(Bridge) => Coming(Bridge)'
  BY <1>2, <1>3, ComingStays
<1>6. \A u \in Threads : pc[u] = "enum" => pc'[u] = "enum"
  BY <1>1
<1> QED BY <1>4, <1>5, <1>6, OwnersAside

LEMMA EmptyAdds ==
  ASSUME TypeOK
  PROVE  << >> \in Seq(Uevents) /\ queue = queue \o << >>
BY DEF TypeOK

LEMMA ReceiveOwners ==
  ASSUME TypeOK, OwnersInv, NEW t, Receive, Trusted' => Trusted,
         UNCHANGED <<ep, bridge>>, \A u \in Threads \ {t} : pc'[u] = pc[u] /\ info'[u] = info[u],
         t \in Threads => pc[t] = "idle",
         Trusted' /\ Head(queue) = Back(TRUE) =>
           t \in Handlers /\ info'[t] = Back(TRUE) /\ pc'[t] = "action"
  PROVE  OwnersInv'
<1>0. queue \in Seq(Uevents) /\ queue # << >> /\ queue' = Tail(queue)
  BY DEF TypeOK, Receive
<1>1. ASSUME NEW L, "action" \in L, "idle" \notin L, Trusted', Coming(L) PROVE Coming(L)'
  <2>1. CASE Head(queue) = Back(TRUE)
    <3>1. \E h \in Handlers : info'[h] = Back(TRUE) /\ pc'[h] \in L
      BY <1>1, <2>1
    <3> QED BY <3>1 DEF Coming, Back, Uevent
  <2>2. CASE Head(queue) # Back(TRUE)
    <3>1. (\E i \in 1..Len(queue) : queue[i] = Back(TRUE)) =>
            \E j \in 1..Len(queue') : queue'[j] = Back(TRUE)
      BY <1>0, <2>2, QueueShrinks
    <3>2. \A u \in Handlers \ {t} : pc'[u] = pc[u] /\ info'[u] = info[u]
      BY DEF Threads
    <3>3. t \in Handlers => pc[t] \notin L
      BY <1>1 DEF Threads
    <3> QED BY <1>1, <3>1, <3>2, <3>3, ComingStays
  <2> QED BY <2>1, <2>2
<1>2. Trusted' /\ Coming(Ep) => Coming(Ep)'
  BY <1>1 DEF Ep
<1>3. Trusted' /\ Coming(Bridge) => Coming(Bridge)'
  BY <1>1 DEF Ep, Bridge
<1>4. \A u \in Threads : pc[u] = "enum" => pc'[u] = "enum"
  OBVIOUS
<1> QED BY <1>2, <1>3, <1>4, OwnersAside

\* The handler of the endpoint's return gets to the chown.
LEMMA HandlerOwners ==
  ASSUME TypeOK, OwnersInv, NEW h \in Handlers, Trusted' => Trusted,
         ModemEventTriger(h) \/ PcieEvent(h) \/ LoadSpl(h)
  PROVE  OwnersInv'
<1>1. PICK to \in {"spl", "panic", "path", "chown1", "idle"} :
        /\ Goto(h, pc[h], to)
        /\ pc[h] \in {"action", "path", "spl"}
        /\ ~missed' /\ info[h] = Back(TRUE) =>
             /\ pc[h] = "action" => to = "path"
             /\ pc[h] = "path" => to = "chown1"
  BY HandlerGoes
<1>2. UNCHANGED <<queue, ep, bridge>>
  BY HandlerGoes
<1>3. /\ pc'[h] = to /\ (to # "idle" => info'[h] = info[h])
      /\ \A u \in Threads \ {h} : pc'[u] = pc[u] /\ info'[u] = info[u]
  BY <1>1, Goes DEF Labels, Threads
<1>4. \A u \in Handlers \ {h} : pc'[u] = pc[u] /\ info'[u] = info[u]
  BY <1>3 DEF Threads
<1>5. ASSUME Trusted', info[h] = Back(TRUE), pc[h] \in Bridge
      PROVE  info'[h] = Back(TRUE) /\ pc'[h] \in Ep
  <2>1. pc[h] \in {"action", "path"} /\ ~missed'
    BY <1>1, <1>5 DEF Bridge, Ep, Trusted
  <2> QED BY <1>1, <1>3, <1>5, <2>1 DEF Ep
<1>6. Trusted' /\ Coming(Ep) => Coming(Ep)'
  BY <1>2, <1>4, <1>5, ComingStays DEF Bridge
<1>7. Trusted' /\ Coming(Bridge) => Coming(Bridge)'
  BY <1>2, <1>4, <1>5, ComingStays DEF Bridge
<1>8. \A u \in Threads : pc[u] = "enum" => pc'[u] = "enum"
  BY <1>1, <1>3
<1> QED BY <1>2, <1>6, <1>7, <1>8, OwnersAside

\* The chown that the handler was started for.
LEMMA ChangeOwnerOwners ==
  ASSUME TypeOK, OwnersInv, NEW t \in Threads, Trusted' => Trusted, ChangeOwner(t)
  PROVE  OwnersInv'
<1>0. queue' = queue /\ ep \in Files /\ bridge \in Files
  BY DEF ChangeOwner, TypeOK
<1>1. CASE pc[t] \in {"own1", "own2"}
  <2>1. /\ \E to \in {"own2", "rmEp"} : Goto(t, pc[t], to)
        /\ ep' \in {ep, Owned(ep)} /\ bridge' \in {bridge, Owned(bridge)}
    BY <1>1 DEF ChangeOwner, ChownEp, ChownBridge, Goto
  <2> QED BY <1>0, <1>1, <2>1, EmptyAdds, MovesAside DEF Bridge, Ep, Labels, Rescan
<1>2. CASE pc[t] = "chown1"
  <2>1. /\ Goto(t, pc[t], "chown2") /\ bridge' = bridge
        /\ ep' = Owned(ep) \/ (Spend("ep") /\ ep' = ep)
    BY <1>2 DEF ChangeOwner, ChownEp, Goto
  <2>2. /\ pc'[t] = "chown2" /\ info'[t] = info[t]
        /\ \A u \in Threads \ {t} : pc'[u] = pc[u] /\ info'[u] = info[u]
    BY <2>1, Goes DEF Labels
  <2>3. \A u \in Handlers \ {t} : pc'[u] = pc[u] /\ info'[u] = info[u]
    BY <2>2 DEF Threads
  <2>4. Coming(Bridge) => Coming(Bridge)'
    BY <1>0, <2>2, <2>3, ComingStays DEF Bridge
  <2>5. Spend("ep") => ~Trusted'
    BY SpentNow DEF Trusted, Failed, Happens
  <2>6. Trusted' => ep' # "root"
    BY <1>0, <2>1, <2>5, OwnedIs
  <2>7. ep' = "absent" <=> ep = "absent"
    BY <1>0, <2>1, OwnedIs
  <2>8. \A u \in Threads : pc[u] = "enum" => pc'[u] = "enum"
    BY <1>2, <2>2
  <2> QED BY <2>1, <2>4, <2>6, <2>7, <2>8, Unroll, OwnersNext
<1>3. CASE pc[t] = "chown2"
  <2>1. /\ Goto(t, pc[t], "idle") /\ ep' = ep
        /\ bridge' = Owned(bridge) \/ (Spend("bus") /\ bridge' = bridge)
    BY <1>3 DEF ChangeOwner, ChownBridge, Goto
  <2>2. \A u \in Threads \ {t} : pc'[u] = pc[u] /\ info'[u] = info[u]
    BY <2>1, Goes DEF Labels
  <2>3. \A u \in Handlers \ {t} : pc'[u] = pc[u] /\ info'[u] = info[u]
    BY <2>2 DEF Threads
  <2>4. Coming(Ep) => Coming(Ep)'
    BY <1>0, <1>3, <2>3, ComingStays DEF Ep
  <2>5. Spend("bus") => ~Trusted'
    BY SpentNow DEF Trusted, Failed, Happens
  <2>6. Trusted' => bridge' # "root"
    BY <1>0, <2>1, <2>5, OwnedIs
  <2>7. bridge' = "absent" <=> bridge = "absent"
    BY <1>0, <2>1, OwnedIs
  <2> QED BY <2>1, <2>4, <2>6, <2>7, Unroll, OwnersNext
<1> QED BY <1>1, <1>2, <1>3 DEF ChangeOwner, Goto

\* A rescan removes the files, and brings them back as root's with a uevent.
LEMMA RescanOwners ==
  ASSUME TypeOK, OwnersInv, NEW t \in Threads, Trusted' => Trusted,
         RemoveEp(t) \/ RemoveBridge(t) \/ RescanBus(t) \/ EnumerateEp(t)
  PROVE  OwnersInv'
<1> USE UeventTypes, ShortSequences
<1>0. \A what \in {"ep", "bus"} : Spend(what) => ~Trusted'
  BY SpentNow DEF Trusted, Failed, Happens
<1>1. ASSUME NEW to \in Labels, Goto(t, pc[t], to), pc[t] \notin Bridge,
             NEW r \in Seq(Uevents), queue' = queue \o r
      PROVE  /\ Coming(Ep) => Coming(Ep)'
             /\ Coming(Bridge) => Coming(Bridge)'
             /\ \A u \in Threads : pc[u] = "enum" => pc'[u] = "enum" \/ u = t
  <2>1. \A u \in Threads \ {t} : pc'[u] = pc[u] /\ info'[u] = info[u]
    BY <1>1, Goes
  <2>2. \A u \in Handlers \ {t} : pc'[u] = pc[u] /\ info'[u] = info[u]
    BY <2>1 DEF Threads
  <2>3. (\E i \in 1..Len(queue) : queue[i] = Back(TRUE)) =>
          \E j \in 1..Len(queue') : queue'[j] = Back(TRUE)
    BY <1>1, QueueAdds
  <2>4. Coming(Ep) => Coming(Ep)'
    BY <1>1, <2>2, <2>3, ComingStays DEF Bridge
  <2>5. Coming(Bridge) => Coming(Bridge)'
    BY <1>1, <2>2, <2>3, ComingStays
  <2> QED BY <2>1, <2>4, <2>5
<1>2. CASE RemoveEp(t)
  <2>0. pc[t] = "rmEp" /\ (Goto(t, pc[t], "rmBridge") \/ Over(t, "rmEp", FALSE))
    BY <1>2 DEF RemoveEp
  <2>1. PICK to \in {"rmBridge", "idle", "load", "own1", "end"} : Goto(t, pc[t], to)
    BY <2>0, OverIs
  <2>2. pc[t] = "rmEp" /\ bridge' = bridge /\ ep' \in {ep, "absent"}
        /\ \E r \in Seq(Uevents) : queue' = queue \o r
    BY <1>2, EmptyAdds DEF RemoveEp, Send
  <2>3. /\ Coming(Ep) => Coming(Ep)'
        /\ Coming(Bridge) => Coming(Bridge)'
        /\ \A u \in Threads : pc[u] = "enum" => pc'[u] = "enum"
    BY <1>1, <2>1, <2>2 DEF Bridge, Ep, Labels, Rescan
  <2> QED BY <2>2, <2>3, Unroll, OwnersNext
<1>3. CASE RemoveBridge(t)
  <2>1. CASE ep' = "absent" /\ bridge' = "absent"
    BY <2>1, OwnersNext
  <2>2. CASE UNCHANGED <<ep, bridge, queue>> /\ Over(t, "rmBridge", FALSE)
    <3>1. pc[t] = "rmBridge"
      BY <1>3 DEF RemoveBridge
    <3>2. PICK to \in {"idle", "load", "own1", "end"} : Goto(t, pc[t], to)
      BY <2>2, <3>1, OverIs
    <3> QED BY <2>2, <3>1, <3>2, EmptyAdds, MovesAside DEF Bridge, Ep, Labels, Rescan
  <2> QED BY <1>3, <2>1, <2>2 DEF RemoveBridge
<1>4. CASE RescanBus(t)
  <2>0. pc[t] = "rescan" /\ ep' = ep
    BY <1>4 DEF RescanBus
  <2>1. CASE Spend("bus") /\ bridge' = bridge
    <3>1. ~Trusted'
      BY <1>0, <2>1
    <3> QED BY <2>0, <2>1, <3>1, Unroll, OwnersNext
  <2>2. CASE /\ bridge' = IF bridge = "absent" THEN "root" ELSE bridge
             /\ Send(IF bridge = "absent" THEN <<Back(FALSE)>> ELSE << >>)
             /\ Goto(t, "rescan", "enum")
    <3>1. \E r \in Seq(Uevents) : queue' = queue \o r
      BY <2>2 DEF Send
    <3>2. /\ Coming(Ep) => Coming(Ep)'
          /\ Coming(Bridge) => Coming(Bridge)'
          /\ \A u \in Threads : pc[u] = "enum" => pc'[u] = "enum"
      BY <1>1, <2>0, <2>2, <3>1 DEF Bridge, Ep, Labels, Rescan
    <3>3. pc'[t] = "enum"
      BY <2>2, Goes DEF Labels, Rescan
    <3>4. bridge = "absent" => ep' = "absent" /\ \E u \in Threads : pc'[u] = "enum"
      BY <2>0, <3>3, Unroll
    <3> QED BY <2>0, <2>2, <3>2, <3>4, Unroll, OwnersNext
  <2> QED BY <1>4, <2>1, <2>2 DEF RescanBus
<1>5. CASE EnumerateEp(t)
  <2>0. PICK to \in {"idle", "load", "own1", "end"} : Goto(t, pc[t], to) /\ pc[t] = "enum"
    <3>1. PICK to \in {"idle", "load", "own1", "end"} : Goto(t, "enum", to)
      BY <1>5, OverIs DEF EnumerateEp
    <3> QED BY <3>1 DEF Goto
  <2>1. bridge' = bridge
    BY <1>5 DEF EnumerateEp
  <2>2. CASE bridge # "absent" /\ Send(<<Back(TRUE)>>)
    <3>1. /\ <<Back(TRUE)>> \in Seq(Uevents)
          /\ \E i \in 1..Len(<<Back(TRUE)>>) : <<Back(TRUE)>>[i] = Back(TRUE)
      <4>1. 1 \in 1..Len(<<Back(TRUE)>>) /\ <<Back(TRUE)>>[1] = Back(TRUE)
        OBVIOUS
      <4> QED BY <4>1
    <3>2. \E j \in 1..Len(queue') : queue'[j] = Back(TRUE)
      BY <2>2, <3>1, QueueAdds DEF Send
    <3>3. Coming(Ep)' /\ Coming(Bridge)'
      BY <3>2 DEF Coming, Back, Uevent
    <3> QED BY <2>1, <2>2, <3>3, OwnersNext
  <2>3. CASE (ep # "absent" \/ bridge = "absent") /\ UNCHANGED <<ep, queue>>
    <3>1. /\ Coming(Ep) => Coming(Ep)'
          /\ Coming(Bridge) => Coming(Bridge)'
      BY <1>1, <2>0, <2>3, EmptyAdds DEF Bridge, Ep, Labels, Rescan
    <3> QED BY <2>1, <2>3, <3>1, Unroll, OwnersNext
  <2>4. CASE Spend("bus") /\ UNCHANGED <<ep, queue>>
    <3>1. ~Trusted'
      BY <1>0, <2>4
    <3> QED BY <2>1, <2>4, <3>1, Unroll, OwnersNext
  <2> QED BY <1>5, <2>2, <2>3, <2>4 DEF EnumerateEp
<1> QED BY <1>2, <1>3, <1>4, <1>5

LEMMA OwnersStep ==
  ASSUME TypeOK, OwnersInv, [Next]_vars
  PROVE  OwnersInv'
<1>0. missed => missed'
  <2>1. CASE Kernel \/ Discard \/ RebootAllModem \/ LoadRescans \/ Loaded
    BY <2>1 DEF Kernel, KernelSends, Discard, RebootAllModem, LoadRescans, Loaded, BeginRescan
  <2>2. ASSUME NEW h \in Handlers, Dispatch(h) \/ Handle(h) PROVE missed => missed'
    BY <2>2, HandlerGoes DEF Dispatch, Handle, Panic, BeginRescan
  <2>3. ASSUME NEW t \in Threads, RescanEpDevice(t) PROVE missed => missed'
    BY <2>3, RescanGoes
  <2> QED BY <2>1, <2>2, <2>3 DEF Next, vars
<1>1. Trusted' => Trusted
  BY <1>0, TrustedStays
<1>2. CASE Kernel
  <2>1. PICK e \in Uevents : KernelSends(e)
    BY <1>2, UeventTypes DEF Kernel
  <2>2. <<e>> \in Seq(Uevents) /\ queue' = queue \o <<e>>
        /\ UNCHANGED <<pc, info, ep, bridge>>
    BY <2>1 DEF KernelSends, TypeOK, pci
  <2>3. (\E i \in 1..Len(queue) : queue[i] = Back(TRUE)) =>
          \E j \in 1..Len(queue') : queue'[j] = Back(TRUE)
    BY <2>2, QueueAdds
  <2>4. /\ Coming(Ep) => Coming(Ep)'
        /\ Coming(Bridge) => Coming(Bridge)'
    BY <2>2, <2>3, ComingStays
  <2> QED BY <1>1, <2>2, <2>4, OwnersAside
<1>3. CASE Discard
  <2>1. Head(queue) = Back(TRUE) => ~Trusted'
    <3>1. Head(queue) = Back(TRUE) => Head(queue).sub \in Registered
      BY BackIs DEF Registered
    <3> QED BY <1>3, <3>1 DEF Discard, Trusted
  <2>2. Receive /\ UNCHANGED <<pc, info, ep, bridge>>
    BY <1>3 DEF Discard, pci
  <2>3. ASSUME NEW L, Trusted', Coming(L) PROVE Coming(L)'
    <3>1. queue \in Seq(Uevents) /\ queue # << >> /\ queue' = Tail(queue)
      BY <2>2 DEF TypeOK, Receive
    <3>2. (\E i \in 1..Len(queue) : queue[i] = Back(TRUE)) =>
            \E j \in 1..Len(queue') : queue'[j] = Back(TRUE)
      BY <2>1, <2>3, <3>1, QueueShrinks
    <3> QED BY <2>2, <2>3, <3>2, ComingStays
  <2> QED BY <1>1, <2>2, <2>3, OwnersAside
<1>4. ASSUME NEW h \in Handlers, Dispatch(h) PROVE OwnersInv'
  <2>1. /\ Receive /\ UNCHANGED <<ep, bridge>> /\ pc[h] = "idle"
        /\ pc' = [pc EXCEPT ![h] = "action"] /\ info' = [info EXCEPT ![h] = Head(queue)]
    BY <1>4 DEF Dispatch, pci
  <2>2. /\ pc'[h] = "action" /\ info'[h] = Head(queue)
        /\ \A u \in Threads \ {h} : pc'[u] = pc[u] /\ info'[u] = info[u]
    BY <2>1 DEF TypeOK, Threads
  <2> QED BY <1>1, <1>4, <2>1, <2>2, ReceiveOwners
<1>5. ASSUME NEW h \in Handlers, ModemEventTriger(h) \/ PcieEvent(h) \/ LoadSpl(h)
      PROVE  OwnersInv'
  BY <1>1, <1>5, HandlerOwners
<1>6. ASSUME NEW t \in Threads, NEW from \in {"panic", "idle", "load"}, BeginRescan(t, from)
      PROVE  OwnersInv'
  <2>1. Goto(t, pc[t], "own1") /\ pc[t] = from /\ UNCHANGED <<queue, ep, bridge>>
    BY <1>6 DEF BeginRescan, Goto
  <2> QED BY <1>1, <2>1, EmptyAdds, MovesAside DEF Bridge, Ep, Labels, Rescan
<1>7. ASSUME NEW t \in Threads, RescanEpDevice(t) PROVE OwnersInv'
  BY <1>1, <1>7, ChangeOwnerOwners, RescanOwners DEF RescanEpDevice
<1>8. CASE Loaded
  <2>1. /\ Goto("lc", pc["lc"], "idle") /\ pc["lc"] \in {"load", "end"}
        /\ UNCHANGED <<queue, ep, bridge>>
    BY <1>8 DEF Loaded, Goto, pci
  <2> QED BY <1>1, <2>1, EmptyAdds, MovesAside DEF Bridge, Ep, Labels, Threads
<1>9. CASE UNCHANGED vars
  BY <1>9 DEF vars, OwnersInv, Coming, Failed
<1> QED BY <1>2, <1>3, <1>4, <1>5, <1>6, <1>7, <1>8, <1>9
        DEF Next, Handle, Panic, RebootAllModem, LoadRescans, Threads

(***************************************************************************)
(* When every uevent of the rescans has been handled the files that came   *)
(* back as root's are the daemon's again, for any number of rescans,       *)
(* overlapping or not, if no uevent was missed and no chown failed:        *)
(* modem_pcie_event is right to act on the endpoint's uevent alone.        *)
(***************************************************************************)
THEOREM FilesChangeHands == Spec => []FilesAreOurs
<1>1. Init => OwnersInv
  BY DEF Init, OwnersInv
<1>2. TypeOK /\ OwnersInv /\ [Next]_vars => OwnersInv'
  BY OwnersStep
<1>3. TypeOK /\ OwnersInv => FilesAreOurs
  <2> SUFFICES ASSUME TypeOK, OwnersInv, queue = << >>, \A h \in Handlers : pc[h] = "idle",
                      Rescanning = {}, Trusted
               PROVE  ep # "root" /\ bridge # "root"
    BY DEF FilesAreOurs, Trusted
  <2>1. ~Coming(Ep) /\ ~Coming(Bridge)
    <3>1. 1..Len(queue) = {}
      OBVIOUS
    <3> QED BY <3>1 DEF Coming, Ep, Bridge
  <2>2. \A t \in Threads : pc[t] # "enum"
    BY DEF Rescanning, Rescan
  <2> QED BY <2>1, <2>2, Unroll
<1> QED BY <1>1, <1>2, <1>3, TypeCorrect, PTL DEF Spec
=============================================================================
