--------------------------- MODULE ModemCtrlProofs ---------------------------
(***************************************************************************)
(* Types and supervision of the boot, for any number of waiters, panic     *)
(* threads and events, on every kind of board; then the modem that runs is *)
(* kept, where a crash has one reporter (inductive invariant ReportInv).   *)
(***************************************************************************)
EXTENDS ModemCtrl, ModemConnectProofs

LEMMA GotoType ==
  ASSUME NEW t \in Threads, NEW from, NEW to \in Labels, CtlTypeOK, Goto(t, from, to)
  PROVE  pc' \in [Threads -> Labels]
BY DEF CtlTypeOK, Goto

LEMMA SpendType ==
  ASSUME NEW what \in Unusual, CtlTypeOK, Spend(what)
  PROVE  left' \in [Unusual -> Nat]
BY DEF CtlTypeOK, Spend

LEMMA ConKept == ASSUME ConTypeOK, KeepCon PROVE ConTypeOK'
BY DEF ConTypeOK, KeepCon, conVars

LEMMA NamedThreads == {"main", "lm", "lc", "al", "sp"} \subseteq Threads /\ Panics \subseteq Threads
BY DEF Threads

\* what the modem writes to a device is a message
LEMMA WriteType ==
  ASSUME CtlTypeOK, NEW d \in Devs, NEW m \in DevMsgs, Write(d, m)
  PROVE  dev' \in [Devs -> Seq(DevMsgs)]
<1>1. Append(dev[d], m) \in Seq(DevMsgs)
  BY DEF CtlTypeOK
<1> QED BY <1>1 DEF Write, CtlTypeOK

LEMMA LoadType ==
  ASSUME NEW t \in Threads, TypeOK, Load(t)
  PROVE  TypeOK'
<1> USE DEF TypeOK
<1>1. ConTypeOK'
  BY ConKept DEF Load
<1>2. pc' \in [Threads -> Labels]
  BY GotoType DEF Load, Labels
<1>3. dev' \in [Devs -> Seq(DevMsgs)]
  <2>1. dev \in [Devs -> Seq(DevMsgs)] /\ [d \in Devs |-> << >>] \in [Devs -> Seq(DevMsgs)]
    BY DEF CtlTypeOK
  <2>2. dev' = dev \/ dev' = [d \in Devs |-> << >>]
    BY DEF Load
  <2> QED BY <2>1, <2>2
<1>4. wake' \in BOOLEAN /\ zSent' \in BOOLEAN /\ tty' \in BOOLEAN
  BY DEF Load
<1> QED BY <1>1, <1>2, <1>3, <1>4 DEF Load, CtlTypeOK, States, timers, locals

LEMMA StartType ==
  ASSUME NEW t \in Threads, TypeOK, Start(t)
  PROVE  TypeOK'
<1> USE DEF TypeOK
<1>1. ConTypeOK'
  BY ConKept DEF Start
<1>2. pc' \in [Threads -> Labels]
  BY GotoType DEF Start, Labels
<1>3. left' \in [Unusual -> Nat]
  BY SpendType DEF Start, CtlTypeOK, Unusual
<1> QED BY <1>1, <1>2, <1>3 DEF Start, CtlTypeOK, timers, flags, locals

LEMMA SetStateType ==
  ASSUME NEW t \in Threads, NEW from, NEW to \in Labels, NEW s \in States, TypeOK,
         SetState(t, from, to, s)
  PROVE  TypeOK'
<1> USE DEF TypeOK
<1>1. ConTypeOK'
  BY ConKept DEF SetState
<1>2. pc' \in [Threads -> Labels]
  BY GotoType DEF SetState
<1> QED BY <1>1, <1>2 DEF SetState, CtlTypeOK, timers, flags, locals, link

LEMMA TellType ==
  ASSUME NEW t \in Threads, NEW from, NEW to \in Labels, NEW m, TypeOK,
         TellFrom(t, from, to, m)
  PROVE  TypeOK'
<1> USE DEF TypeOK
<1>1. ConTypeOK'
  BY BroadcastType DEF TellFrom, Tell
<1>2. pc' \in [Threads -> Labels]
  BY GotoType DEF TellFrom
<1> QED BY <1>1, <1>2 DEF TellFrom, CtlTypeOK, timers, flags, locals, link

LEMMA ConReadPipe ==
  ASSUME ConTypeOK, pipe' = << >>,
         UNCHANGED <<prop, conState, nvitemd, waiter, rd, rdMsg, dumpState, laterReset,
                     alives, blockResets>>
  PROVE  ConTypeOK'
BY DEF ConTypeOK

LEMMA BootingType ==
  ASSUME NEW t \in Threads, TypeOK, Booting(t)
  PROVE  TypeOK'
<1> USE DEF TypeOK
<1>1. ConTypeOK'
  BY ConKept DEF Booting
<1>2. pc' \in [Threads -> Labels]
  BY GotoType, NamedThreads DEF Booting, Labels
<1>3. wake' \in BOOLEAN
  BY DEF Booting, CtlTypeOK
<1> QED BY <1>1, <1>2, <1>3 DEF Booting, CtlTypeOK, States, timers, locals, link

LEMMA SetTimerType ==
  ASSUME NEW t \in Threads, NEW from, NEW to \in Labels, NEW value \in BOOLEAN,
         TypeOK, SetTimer(t, from, to, value)
  PROVE  TypeOK'
<1> USE DEF TypeOK
<1>1. ConTypeOK'
  BY ConKept DEF SetTimer
<1>2. pc' \in [Threads -> Labels]
  BY GotoType, NamedThreads DEF SetTimer, Labels
<1> QED BY <1>1, <1>2 DEF SetTimer, CtlTypeOK, flags, locals, link

LEMMA SetITimerType ==
  ASSUME NEW t \in Threads, NEW from, NEW to \in Labels, TypeOK, SetITimer(t, from, to)
  PROVE  TypeOK'
<1> USE DEF TypeOK
<1>1. ConTypeOK'
  BY ConKept DEF SetITimer
<1>2. pc' \in [Threads -> Labels]
  BY GotoType, NamedThreads DEF SetITimer, Labels
<1> QED BY <1>1, <1>2 DEF SetITimer, CtlTypeOK, flags, locals, link

LEMMA TryReadType ==
  ASSUME NEW t \in Threads, TypeOK, TryRead(t)
  PROVE  TypeOK'
<1> USE DEF TypeOK
<1>1. ConTypeOK'
  BY ConKept DEF TryRead
<1>2. pc' \in [Threads -> Labels]
  BY GotoType, NamedThreads DEF TryRead, Labels, AfterWait
<1>3. tty' \in BOOLEAN
  BY DEF TryRead, CtlTypeOK
<1> QED BY <1>1, <1>2, <1>3 DEF TryRead, CtlTypeOK, timers, flags, locals

LEMMA UnlockType ==
  ASSUME NEW t \in Threads, TypeOK, Unlock(t)
  PROVE  TypeOK'
<1> USE DEF TypeOK
<1>1. ConTypeOK'
  BY ConKept DEF Unlock
<1>2. pc' \in [Threads -> Labels]
  BY GotoType, NamedThreads DEF Unlock, Labels
<1>3. wake' \in BOOLEAN
  BY DEF Unlock, CtlTypeOK
<1>4. buf' \in SUBSET DevMsgs /\ cmd' \in Commands \cup {"none"}
  BY DEF Unlock, CtlTypeOK
<1> QED BY <1>1, <1>2, <1>3, <1>4 DEF Unlock, CtlTypeOK, timers, link

LEMMA SysrqType ==
  ASSUME NEW t, TypeOK, Sysrq(t)
  PROVE  TypeOK'
<1> USE DEF TypeOK
<1>1. ConTypeOK'
  BY ConKept DEF Sysrq
<1>2. pc' = pc
  BY DEF Sysrq
<1>3. down' \in BOOLEAN
  BY DEF Sysrq, CtlTypeOK
<1> QED BY <1>1, <1>2, <1>3 DEF Sysrq, CtlTypeOK, timers, flags, locals, link

LEMMA ListenModemReadType ==
  ASSUME TypeOK, ListenModemRead
  PROVE  TypeOK'
<1> USE DEF TypeOK
<1>1. ConTypeOK'
  BY ConKept DEF ListenModemRead
<1>2. pc' \in [Threads -> Labels]
  BY GotoType, NamedThreads DEF ListenModemRead, Labels, AfterAlive, AfterReset
<1>3. buf' \in SUBSET DevMsgs /\ dev' \in [Devs -> Seq(DevMsgs)]
  <2>1. PICK d \in Devs : ReadDev(d)
    BY DEF ListenModemRead, Devs
  <2>2. PICK n \in 1..Len(dev[d]) :
          /\ buf' = {dev[d][i] : i \in 1..n}
          /\ dev' = [dev EXCEPT ![d] = SubSeq(@, n + 1, Len(@))]
    BY <2>1 DEF ReadDev
  <2>3. dev[d] \in Seq(DevMsgs)
    BY DEF CtlTypeOK
  <2>4. SubSeq(dev[d], n + 1, Len(dev[d])) \in Seq(DevMsgs)
    BY <2>3
  <2>5. dev' \in [Devs -> Seq(DevMsgs)]
    BY <2>2, <2>4 DEF CtlTypeOK
  <2>6. buf' \in SUBSET DevMsgs
    BY <2>2, <2>3
  <2> QED BY <2>5, <2>6
<1>4. wake' \in BOOLEAN
  BY DEF ListenModemRead, CtlTypeOK
<1>5. rfds' \in SUBSET Devs
  BY DEF ListenModemRead, CtlTypeOK, Ready
<1> QED BY <1>1, <1>2, <1>3, <1>4, <1>5 DEF ListenModemRead, CtlTypeOK, timers

LEMMA ListenModemReadErrorType ==
  ASSUME TypeOK, ListenModemReadError
  PROVE  TypeOK'
<1> USE DEF TypeOK
<1>1. ConTypeOK'
  BY ConKept DEF ListenModemReadError
<1>2. pc' = pc
  BY DEF ListenModemReadError
<1>3. left' \in [Unusual -> Nat]
  BY SpendType DEF ListenModemReadError, CtlTypeOK, Unusual
<1>4. wake' \in BOOLEAN
  BY DEF ListenModemReadError, CtlTypeOK
<1>5. rfds' \in SUBSET Devs
  BY DEF ListenModemReadError, CtlTypeOK
<1> QED BY <1>1, <1>2, <1>3, <1>4, <1>5 DEF ListenModemReadError, CtlTypeOK, timers, locals, link

LEMMA ClearWaitResetType ==
  ASSUME TypeOK, ClearWaitReset
  PROVE  TypeOK'
<1> USE DEF TypeOK
<1>1. ConTypeOK'
  BY ConKept DEF ClearWaitReset
<1>2. pc' \in [Threads -> Labels]
  BY GotoType, NamedThreads DEF ClearWaitReset, Labels, AfterReset
<1>3. waitReset' \in BOOLEAN
  BY DEF ClearWaitReset, CtlTypeOK
<1> QED BY <1>1, <1>2, <1>3 DEF ClearWaitReset, CtlTypeOK, timers, locals, link

LEMMA ListenClientsReadType ==
  ASSUME TypeOK, ListenClientsRead
  PROVE  TypeOK'
<1> USE DEF TypeOK
<1>1. ConTypeOK'
  BY ConReadPipe DEF ListenClientsRead
<1>2. pc' \in [Threads -> Labels]
  BY GotoType, NamedThreads DEF ListenClientsRead, Labels
<1>3. cmd' \in Commands \cup {"none"}
  BY DEF ListenClientsRead, ConTypeOK
<1>4. wake' \in BOOLEAN
  BY DEF ListenClientsRead, CtlTypeOK
<1> QED BY <1>1, <1>2, <1>3, <1>4 DEF ListenClientsRead, CtlTypeOK, timers, link

LEMMA HandleBlockedType ==
  ASSUME TypeOK, HandleBlocked
  PROVE  TypeOK'
<1> USE DEF TypeOK
<1>1. ConTypeOK'
  BY ConKept DEF HandleBlocked
<1>2. pc' \in [Threads -> Labels]
  BY GotoType, NamedThreads DEF HandleBlocked, Labels
<1>3. dev' \in [Devs -> Seq(DevMsgs)]
  BY WriteType DEF HandleBlocked, CtlTypeOK, Devs, DevMsgs
<1>4. state' \in States /\ modem' \in {"off", "booting", "stuck", "up", "dead"}
  BY DEF HandleBlocked, CtlTypeOK, States
<1> QED BY <1>1, <1>2, <1>3, <1>4 DEF HandleBlocked, CtlTypeOK, timers, flags, locals

LEMMA GuardType ==
  ASSUME TypeOK, Guard
  PROVE  TypeOK'
<1> USE DEF TypeOK
<1>1. ConTypeOK'
  BY ConKept DEF Guard
<1>2. pc' \in [Threads -> Labels]
  BY GotoType, NamedThreads DEF Guard, Labels, GuardLabel
<1>3. cmd' \in Commands \cup {"none"}
  BY DEF Guard, CtlTypeOK
<1> QED BY <1>1, <1>2, <1>3 DEF Guard, CtlTypeOK, timers, flags, link

LEMMA RebootType ==
  ASSUME TypeOK, Reboot
  PROVE  TypeOK'
<1> USE DEF TypeOK
<1>1. ConTypeOK'
  BY ConKept DEF Reboot
<1>2. pc' \in [Threads -> Labels]
  BY GotoType, NamedThreads DEF Reboot, Labels
<1>3. state' \in States
  BY DEF Reboot, CtlTypeOK, States
<1> QED BY <1>1, <1>2, <1>3 DEF Reboot, CtlTypeOK, timers, flags, locals, link

LEMMA PrepareType ==
  ASSUME TypeOK, Prepare
  PROVE  TypeOK'
<1> USE DEF TypeOK
<1>1. ConTypeOK'
  BY ConKept DEF Prepare
<1>2. pc' \in [Threads -> Labels]
  BY GotoType, NamedThreads DEF Prepare, Labels
<1>3. panic' \in BOOLEAN
  BY DEF Prepare, CtlTypeOK
<1> QED BY <1>1, <1>2, <1>3 DEF Prepare, CtlTypeOK, timers, link

LEMMA PrepareResetModemType ==
  ASSUME TypeOK, PrepareResetModem
  PROVE  TypeOK'
<1> USE DEF TypeOK
<1>1. ConTypeOK'
  BY ConKept DEF PrepareResetModem
<1>2. pc' \in [Threads -> Labels]
  BY GotoType, NamedThreads DEF PrepareResetModem, Labels
<1>3. waitReset' \in BOOLEAN /\ zSent' \in BOOLEAN
  BY DEF PrepareResetModem, CtlTypeOK
<1>4. left' \in [Unusual -> Nat]
  BY SpendType DEF PrepareResetModem, CtlTypeOK, Unusual
<1> QED BY <1>1, <1>2, <1>3, <1>4 DEF PrepareResetModem, CtlTypeOK, timers, locals

LEMMA PollWaitResetType ==
  ASSUME TypeOK, PollWaitReset
  PROVE  TypeOK'
<1> USE DEF TypeOK
<1>1. ConTypeOK'
  BY ConKept DEF PollWaitReset
<1>2. pc' \in [Threads -> Labels]
  BY GotoType, NamedThreads DEF PollWaitReset, Labels
<1> QED BY <1>1, <1>2 DEF PollWaitReset, CtlTypeOK, timers, flags, locals, link

LEMMA AlarmType ==
  ASSUME TypeOK, Alarm
  PROVE  TypeOK'
<1> USE DEF TypeOK
<1>1. ConTypeOK'
  BY ConKept DEF Alarm
<1>2. pc' \in [Threads -> Labels]
  BY GotoType, NamedThreads DEF Alarm, Labels, CtlTypeOK
<1>3. armed' \in BOOLEAN /\ timer' \in BOOLEAN
  BY DEF Alarm, CtlTypeOK
<1>4. left' \in [Unusual -> Nat]
  BY SpendType DEF Alarm, CtlTypeOK, Unusual
<1> QED BY <1>1, <1>2, <1>3, <1>4 DEF Alarm, CtlTypeOK, flags, locals, link

LEMMA ListenSpReadType ==
  ASSUME TypeOK, ListenSpRead
  PROVE  TypeOK'
<1> USE DEF TypeOK
<1>1. ConTypeOK'
  BY ConKept DEF ListenSpRead
<1>2. pc' \in [Threads -> Labels]
  BY GotoType, NamedThreads DEF ListenSpRead, Labels, CtlTypeOK
<1>3. state' \in States
  BY DEF ListenSpRead, CtlTypeOK, States
<1>4. left' \in [Unusual -> Nat]
  BY SpendType DEF ListenSpRead, CtlTypeOK, Unusual
<1>5. wake' \in BOOLEAN
  BY DEF ListenSpRead, CtlTypeOK
<1> QED BY <1>1, <1>2, <1>3, <1>4, <1>5 DEF ListenSpRead, CtlTypeOK, timers, locals, link

LEMMA PanicEventType ==
  ASSUME NEW e \in Panics, TypeOK, PanicEvent(e)
  PROVE  TypeOK'
<1> USE DEF TypeOK
<1>1. ConTypeOK'
  BY ConKept DEF PanicEvent
<1>2. pc' \in [Threads -> Labels]
  BY GotoType, NamedThreads DEF PanicEvent, Labels
<1>3. left' \in [Unusual -> Nat]
  BY SpendType DEF PanicEvent, CtlTypeOK, Unusual
<1> QED BY <1>1, <1>2, <1>3 DEF PanicEvent, CtlTypeOK, timers, flags, locals

LEMMA SetMiniapPanicType ==
  ASSUME NEW e \in Panics, TypeOK, SetMiniapPanic(e)
  PROVE  TypeOK'
<1> USE DEF TypeOK
<1>1. ConTypeOK'
  BY ConKept DEF SetMiniapPanic
<1>2. pc' \in [Threads -> Labels]
  BY GotoType, NamedThreads DEF SetMiniapPanic, Labels
<1>3. panic' \in BOOLEAN
  BY DEF SetMiniapPanic
<1> QED BY <1>1, <1>2, <1>3 DEF SetMiniapPanic, CtlTypeOK, timers, locals, link

LEMMA GetPreStateType ==
  ASSUME NEW e \in Panics, TypeOK, GetPreState(e)
  PROVE  TypeOK'
<1> USE DEF TypeOK
<1>1. ConTypeOK'
  BY ConKept DEF GetPreState
<1>2. pc' \in [Threads -> Labels]
  BY GotoType, NamedThreads DEF GetPreState, Labels
<1>3. preState' \in [Panics -> States]
  BY DEF GetPreState, CtlTypeOK
<1> QED BY <1>1, <1>2, <1>3 DEF GetPreState, CtlTypeOK, timers, flags, link

LEMMA ModemBootsType ==
  ASSUME TypeOK, ModemBoots
  PROVE  TypeOK'
<1> USE DEF TypeOK
<1>1. ConTypeOK'
  BY ConKept DEF ModemBoots, KeepDaemon
<1>2. pc' = pc
  BY DEF ModemBoots, KeepDaemon
<1>3. dev' \in [Devs -> Seq(DevMsgs)]
  <2>1. CASE AliveDev = "tty"
    BY <2>1 DEF ModemBoots, CtlTypeOK
  <2>2. CASE AliveDev # "tty"
    <3>1. AliveDev \in Devs /\ "Alive" \in DevMsgs
      BY <2>2, BoardAssumption DEF Devs, DevMsgs
    <3>2. Write(AliveDev, "Alive")
      BY <2>2 DEF ModemBoots
    <3> QED BY <3>1, <3>2, WriteType
  <2> QED BY <2>1, <2>2
<1>4. tty' \in BOOLEAN
  BY DEF ModemBoots, CtlTypeOK
<1>5. left' \in [Unusual -> Nat]
  BY SpendType DEF ModemBoots, CtlTypeOK, Unusual
<1> QED BY <1>1, <1>2, <1>3, <1>4, <1>5 DEF ModemBoots, CtlTypeOK, KeepDaemon, timers, flags, locals

LEMMA ModemAssertsType ==
  ASSUME TypeOK, ModemAsserts
  PROVE  TypeOK'
<1> USE DEF TypeOK
<1>1. ConTypeOK'
  BY ConKept DEF ModemAsserts, KeepDaemon
<1>2. pc' = pc
  BY DEF ModemAsserts, KeepDaemon
<1>3. dev' \in [Devs -> Seq(DevMsgs)]
  BY WriteType DEF ModemAsserts, CtlTypeOK, Devs, DevMsgs
<1>4. left' \in [Unusual -> Nat]
  BY SpendType DEF ModemAsserts, CtlTypeOK, Unusual
<1> QED BY <1>1, <1>2, <1>3, <1>4 DEF ModemAsserts, CtlTypeOK, KeepDaemon, timers, flags, locals

LEMMA ModemAnswersType ==
  ASSUME TypeOK, ModemAnswers
  PROVE  TypeOK'
<1> USE DEF TypeOK
<1>1. ConTypeOK'
  BY ConKept DEF ModemAnswers, KeepDaemon
<1>2. pc' = pc
  BY DEF ModemAnswers, KeepDaemon
<1>3. dev' \in [Devs -> Seq(DevMsgs)]
  BY WriteType DEF ModemAnswers, CtlTypeOK, Devs, DevMsgs
<1>4. zSent' \in BOOLEAN
  BY DEF ModemAnswers, CtlTypeOK
<1> QED BY <1>1, <1>2, <1>3, <1>4 DEF ModemAnswers, CtlTypeOK, KeepDaemon, timers, flags, locals

LEMMA ClientBlockedType ==
  ASSUME TypeOK, ClientBlocked
  PROVE  TypeOK'
<1> USE DEF TypeOK
<1>1. ConTypeOK'
  BY ReadBlockedType DEF ClientBlocked
<1>2. pc' = pc
  BY DEF ClientBlocked
<1>3. left' \in [Unusual -> Nat]
  BY SpendType DEF ClientBlocked, CtlTypeOK, Unusual
<1> QED BY <1>1, <1>2, <1>3 DEF ClientBlocked, CtlTypeOK, timers, flags, locals, link

-----------------------------------------------------------------------------
(***************************************************************************)
(* The threads, for the types.                                             *)
(***************************************************************************)
LEMMA BootType ==
  ASSUME NEW t \in Threads, TypeOK, Boot(t)
  PROVE  TypeOK'
<1>1. CASE StartWaitAlive(t)
  BY <1>1, SetTimerType, SetITimerType DEF StartWaitAlive, Labels
<1> QED BY <1>1, LoadType, StartType, BootingType, TryReadType DEF Boot

LEMMA ReportAliveType ==
  ASSUME NEW t \in Threads, TypeOK, ReportAlive(t)
  PROVE  TypeOK'
<1>1. CASE StopForAlive(t)
  BY <1>1, SetTimerType, SetITimerType DEF StopForAlive, Labels
<1>2. CASE SetState(t, "setAlive", "tellAlive", "ALIVE")
  BY <1>2, SetStateType DEF Labels, States
<1>3. CASE TellFrom(t, "tellAlive", IF t = "lm" THEN AfterAlive ELSE AfterWait(t), "Alive")
  <2>1. (IF t = "lm" THEN AfterAlive ELSE AfterWait(t)) \in Labels
    BY DEF AfterAlive, AfterReset, AfterWait, Labels
  <2> QED BY <1>3, <2>1, TellType
<1> QED BY <1>1, <1>2, <1>3 DEF ReportAlive

LEMMA ListenModemType ==
  ASSUME TypeOK, ListenModem
  PROVE  TypeOK'
<1>1. CASE SetState("lm", "setReset", "tellReset", "RESET")
  BY <1>1, SetStateType, NamedThreads DEF Labels, States
<1>2. CASE TellFrom("lm", "tellReset", "clearFlag", "Reset")
  BY <1>2, TellType, NamedThreads DEF Labels
<1>3. CASE SetState("lm", "setAssert", "tellAssert", "ASSERT")
  BY <1>3, SetStateType, NamedThreads DEF Labels, States
<1>4. CASE TellFrom("lm", "tellAssert", "unlock", "Assert")
  BY <1>4, TellType, NamedThreads DEF Labels
<1>5. CASE ReportAlive("lm") \/ Unlock("lm")
  BY <1>5, ReportAliveType, UnlockType, NamedThreads
<1> QED
  BY <1>1, <1>2, <1>3, <1>4, <1>5, ListenModemReadType, ClearWaitResetType
  DEF ListenModem

LEMMA ListenClientsType ==
  ASSUME TypeOK, ListenClients
  PROVE  TypeOK'
<1>1. CASE StopForReset
  BY <1>1, SetTimerType, SetITimerType, NamedThreads DEF StopForReset, Labels
<1>2. CASE Boot("lc") \/ ReportAlive("lc") \/ Unlock("lc")
  BY <1>2, BootType, ReportAliveType, UnlockType, NamedThreads
<1> QED
  BY <1>1, <1>2, ListenClientsReadType, HandleBlockedType, GuardType, RebootType,
     PrepareType, PrepareResetModemType, PollWaitResetType
  DEF ListenClients

LEMMA AliveTimeoutType ==
  ASSUME TypeOK, AliveTimeout
  PROVE  TypeOK'
<1>1. CASE AlarmDecides
  BY <1>1, SetStateType, NamedThreads DEF AlarmDecides, Labels, States
<1>2. CASE TellFrom("al", "tellAssert", "idle", "Assert")
  BY <1>2, TellType, NamedThreads DEF Labels
<1> QED BY <1>1, <1>2, SysrqType DEF AliveTimeout

LEMMA ListenSpType ==
  ASSUME TypeOK, ListenSp
  PROVE  TypeOK'
<1>1. CASE TellFrom("sp", "tellParm", "unlock", "P-ARM Assert")
  BY <1>1, TellType, NamedThreads DEF Labels
<1> QED BY <1>1, UnlockType, SysrqType, NamedThreads DEF ListenSp

LEMMA PanicProcessType ==
  ASSUME NEW e \in Panics, TypeOK, PanicProcess(e)
  PROVE  TypeOK'
<1>1. CASE SetState(e, "setPanic", IF preState[e] = "BLOCK" THEN "idle" ELSE "tellAssert",
                    "ASSERT")
  <2>1. (IF preState[e] = "BLOCK" THEN "idle" ELSE "tellAssert") \in Labels
    BY DEF Labels
  <2> QED BY <1>1, <2>1, SetStateType, NamedThreads DEF States
<1>2. CASE TellFrom(e, "tellAssert", "idle", "Assert")
  BY <1>2, TellType, NamedThreads DEF Labels
<1> QED BY <1>1, <1>2, SetMiniapPanicType, GetPreStateType DEF PanicProcess

LEMMA ClientsType ==
  ASSUME TypeOK, Clients
  PROVE  TypeOK'
<1>1. CtlTypeOK'
  BY DEF TypeOK, CtlTypeOK, Clients, Aside, DumpWaits, ctlVars
<1>2. ConTypeOK'
  BY ReadAgdspType, ReadOtherType, DispatchType, DumpWaiterType
  DEF TypeOK, Clients, DumpWaits
<1> QED BY <1>1, <1>2 DEF TypeOK

LEMMA InitType == Init => TypeOK
<1> SUFFICES ASSUME Init PROVE TypeOK
  OBVIOUS
<1>1. ConTypeOK
  BY ConInitOK DEF Init
<1>2. pc \in [Threads -> Labels] /\ modem \in {"off", "booting", "stuck", "up", "dead"}
  BY DEF Init, CtlInit, Labels
<1>3. dev \in [Devs -> Seq(DevMsgs)] /\ rfds \in SUBSET Devs
  <2>1. <<"Alive">> \in Seq(DevMsgs) /\ << >> \in Seq(DevMsgs)
    BY DEF DevMsgs
  <2>2. PICK up \in BOOLEAN :
          dev = [d \in Devs |-> IF up /\ d = AliveDev THEN <<"Alive">> ELSE << >>]
    BY DEF Init, CtlInit
  <2>3. dev \in [Devs -> Seq(DevMsgs)]
    BY <2>1, <2>2
  <2>4. rfds \in SUBSET Devs
    BY DEF Init, CtlInit, Devs
  <2> QED BY <2>3, <2>4
<1>4. /\ timer \in BOOLEAN /\ armed \in BOOLEAN /\ waitReset \in BOOLEAN
      /\ panic \in BOOLEAN /\ wake \in BOOLEAN
      /\ tty \in BOOLEAN /\ zSent \in BOOLEAN /\ down \in BOOLEAN
  BY DEF Init, CtlInit
<1>5. preState \in [Panics -> States] /\ left \in [Unusual -> Nat]
  BY BudgetsAssumption DEF Init, CtlInit, States
<1> QED
  BY <1>1, <1>2, <1>3, <1>4, <1>5 DEF TypeOK, CtlTypeOK, Init, CtlInit, States

LEMMA NextType ==
  ASSUME TypeOK, [Next]_vars
  PROVE  TypeOK'
<1>1. CASE BootModem
  BY <1>1, BootType, ReportAliveType, NamedThreads DEF BootModem
<1>2. CASE \E e \in Panics : PanicEvent(e) \/ PanicProcess(e)
  BY <1>2, PanicEventType, PanicProcessType
<1>3. CASE UNCHANGED vars
  BY <1>3 DEF TypeOK, ConTypeOK, CtlTypeOK, vars, conVars, ctlVars
<1> QED
  BY <1>1, <1>2, <1>3, ListenModemType, ListenModemReadErrorType, ListenClientsType,
     AlarmType, AliveTimeoutType, ListenSpReadType, ListenSpType, ModemBootsType,
     ModemAssertsType, ModemAnswersType, ClientBlockedType, ClientsType
  DEF Next

(***************************************************************************)
(* Every variable of the composed daemon keeps its type: in particular no  *)
(* thread ever stands at a label its code does not have, and the modem     *)
(* state is one of the nine of modem_control.h.                            *)
(***************************************************************************)
THEOREM TypeCorrect == Spec => []TypeOK
BY InitType, NextType, PTL DEF Spec

-----------------------------------------------------------------------------
(***************************************************************************)
(* Supervision.  Steps of al, sp, the panic threads, the modem and the     *)
(* clients leave the timer and the boot threads alone and never set        *)
(* BOOTING; a thread that leaves the waiting handler changes the state.    *)
(***************************************************************************)
SameBootThreads == \A t \in {"main", "lm", "lc"} : pc'[t] = pc[t]

LEMMA OthersKeepSupervision ==
  ASSUME Supervision, SameBootThreads, UNCHANGED timers,
         state' = state \/ state' # "BOOTING",
         pc["al"] = "flush" => pc'["al"] = "flush" \/ state' # "BOOTING"
  PROVE  Supervision'
<1> USE DEF SameBootThreads, timers, Boots
<1>1. LoadsFirst' /\ ResetIsNotBooting'
  BY DEF Supervision, LoadsFirst, ResetIsNotBooting, Spawned
<1>2. LeavesBooting => LeavesBooting' \/ state' # "BOOTING"
  BY DEF LeavesBooting, SayingAlive
<1>3. TimeIsSet'
  BY <1>2 DEF Supervision, TimeIsSet
<1>4. TimerRuns'
  BY <1>2 DEF Supervision, TimerRuns
<1> QED BY <1>1, <1>3, <1>4 DEF Supervision

LEMMA OtherThreads ==
  ASSUME NEW t \in Threads, t \notin {"main", "lm", "lc"}, NEW from, NEW to, CtlTypeOK,
         Goto(t, from, to)
  PROVE  SameBootThreads /\ (t # "al" => pc'["al"] = pc["al"])
BY NamedThreads DEF SameBootThreads, Goto, CtlTypeOK

\* a step of main, lm or lc moves that thread only
LEMMA BootThread ==
  ASSUME NEW t \in {"main", "lm", "lc"}, NEW from, NEW to, CtlTypeOK, Goto(t, from, to)
  PROVE  /\ pc[t] = from /\ pc'[t] = to
         /\ \A u \in {"main", "lm", "lc", "al"} \ {t} : pc'[u] = pc[u]
BY NamedThreads DEF Goto, CtlTypeOK

LEMMA TimerTypes == ASSUME CtlTypeOK PROVE timer \in BOOLEAN /\ armed \in BOOLEAN
BY DEF CtlTypeOK

LEMMA BootKeepsSupervision ==
  ASSUME NEW t \in Boots, TypeOK, Supervision, Boot(t)
  PROVE  Supervision'
<1> USE DEF TypeOK, Boots, Supervision, LoadsFirst, ResetIsNotBooting, TimeIsSet, TimerRuns,
            LeavesBooting, SayingAlive, Spawned, Resetting
<1>1. CASE Load(t)
  BY <1>1, BootThread DEF Load, timers
<1>2. CASE Start(t)
  BY <1>2, BootThread DEF Start, timers
<1>3. CASE Booting(t)
  BY <1>3, BootThread DEF Booting, timers
<1>4. CASE SetTimer(t, "arm1", "arm2", TRUE)
  BY <1>4, BootThread, TimerTypes DEF SetTimer
<1>5. CASE SetITimer(t, "arm2", "try")
  BY <1>5, BootThread, TimerTypes DEF SetITimer
<1>6. CASE TryRead(t)
  BY <1>6, BootThread, TimerTypes DEF TryRead, AfterWait, timers
<1> QED BY <1>1, <1>2, <1>3, <1>4, <1>5, <1>6 DEF Boot, StartWaitAlive

LEMMA ReportAliveKeepsSupervision ==
  ASSUME NEW t \in {"main", "lm", "lc"}, TypeOK, Supervision, ReportAlive(t)
  PROVE  Supervision'
<1> USE DEF TypeOK, Boots, Supervision, LoadsFirst, ResetIsNotBooting, TimeIsSet, TimerRuns,
            LeavesBooting, SayingAlive, Spawned, Resetting
<1>1. CASE SetTimer(t, "stopA1", "stopA2", FALSE)
  BY <1>1, BootThread, TimerTypes DEF SetTimer
<1>2. CASE SetITimer(t, "stopA2", "setAlive")
  BY <1>2, BootThread, TimerTypes DEF SetITimer
<1>3. CASE SetState(t, "setAlive", "tellAlive", "ALIVE")
  BY <1>3, BootThread DEF SetState, timers
<1>4. CASE TellFrom(t, "tellAlive", IF t = "lm" THEN AfterAlive ELSE AfterWait(t), "Alive")
  BY <1>4, BootThread DEF TellFrom, AfterAlive, AfterReset, AfterWait, timers
<1> QED BY <1>1, <1>2, <1>3, <1>4 DEF ReportAlive, StopForAlive

LEMMA UnlockKeepsSupervision ==
  ASSUME NEW t \in {"lm", "lc", "sp"}, TypeOK, Supervision, Unlock(t)
  PROVE  Supervision'
<1> USE DEF TypeOK, Boots, Supervision, LoadsFirst, ResetIsNotBooting, TimeIsSet, TimerRuns,
            LeavesBooting, SayingAlive, Spawned, Resetting
<1>1. CASE t = "sp"
  BY <1>1, OtherThreads, NamedThreads, OthersKeepSupervision DEF Unlock
<1>2. CASE t \in {"lm", "lc"}
  BY <1>2, BootThread DEF Unlock, timers
<1> QED BY <1>1, <1>2

LEMMA ListenModemKeepsSupervision ==
  ASSUME TypeOK, Supervision, ListenModem
  PROVE  Supervision'
<1> USE DEF TypeOK, Boots, Supervision, LoadsFirst, ResetIsNotBooting, TimeIsSet, TimerRuns,
            LeavesBooting, SayingAlive, Spawned, Resetting
<1>1. CASE ListenModemRead
  BY <1>1, BootThread DEF ListenModemRead, timers
<1>2. CASE SetState("lm", "setReset", "tellReset", "RESET")
  BY <1>2, BootThread DEF SetState, timers
<1>3. CASE TellFrom("lm", "tellReset", "clearFlag", "Reset")
  BY <1>3, BootThread DEF TellFrom, timers
<1>4. CASE ClearWaitReset
  BY <1>4, BootThread DEF ClearWaitReset, AfterReset, timers
<1>5. CASE SetState("lm", "setAssert", "tellAssert", "ASSERT")
  BY <1>5, BootThread DEF SetState, timers
<1>6. CASE TellFrom("lm", "tellAssert", "unlock", "Assert")
  BY <1>6, BootThread DEF TellFrom, timers
<1> QED
  BY <1>1, <1>2, <1>3, <1>4, <1>5, <1>6, ReportAliveKeepsSupervision,
     UnlockKeepsSupervision
  DEF ListenModem

\* listen_clients enters the reset path only from a state of trouble
LEMMA ListenClientsKeepsSupervision ==
  ASSUME TypeOK, Supervision, ListenClients
  PROVE  Supervision'
<1> USE DEF TypeOK, Boots, Supervision, LoadsFirst, ResetIsNotBooting, TimeIsSet, TimerRuns,
            LeavesBooting, SayingAlive, Spawned, Resetting
<1>1. CASE ListenClientsRead
  BY <1>1, BootThread DEF ListenClientsRead, timers
<1>2. CASE HandleBlocked
  BY <1>2, BootThread DEF HandleBlocked, timers
<1>3. CASE Guard
  BY <1>3, BootThread DEF Guard, GuardLabel, timers
<1>4. CASE SetTimer("lc", "stop1", "stop2", FALSE)
  BY <1>4, BootThread DEF SetTimer
<1>5. CASE SetITimer("lc", "stop2", "reboot")
  BY <1>5, BootThread DEF SetITimer
<1>6. CASE Reboot
  BY <1>6, BootThread DEF Reboot, timers
<1>7. CASE Prepare
  BY <1>7, BootThread DEF Prepare, timers
<1>8. CASE PrepareResetModem
  BY <1>8, BootThread DEF PrepareResetModem, timers
<1>9. CASE PollWaitReset
  BY <1>9, BootThread DEF PollWaitReset, timers
<1> QED
  BY <1>1, <1>2, <1>3, <1>4, <1>5, <1>6, <1>7, <1>8, <1>9, BootKeepsSupervision,
     ReportAliveKeepsSupervision, UnlockKeepsSupervision
  DEF ListenClients, StopForReset

\* the handler that finds the time set takes over; the one that does not leaves a
\* state other than BOOTING, or a thread that will leave it
LEMMA AlarmKeepsSupervision ==
  ASSUME TypeOK, Supervision, Alarm
  PROVE  Supervision'
<1>1. SameBootThreads
  BY OtherThreads, NamedThreads DEF Alarm, SameBootThreads, TypeOK
<1>2. pc["al"] = "idle"
  BY DEF Alarm, Goto
<1>3. CASE state = "ALIVE" \/ ~timer
  BY <1>1, <1>2, <1>3
  DEF Alarm, SameBootThreads, Supervision, LoadsFirst, ResetIsNotBooting, TimeIsSet, TimerRuns,
      LeavesBooting, SayingAlive, Spawned, Resetting, Boots
<1>4. CASE ~(state = "ALIVE" \/ ~timer)
  <2>1. pc'["al"] = "flush" /\ state' = state
    BY <1>4, NamedThreads DEF Alarm, Goto, TypeOK, CtlTypeOK
  <2> QED
    BY <1>1, <2>1
    DEF SameBootThreads, Supervision, LoadsFirst, ResetIsNotBooting, TimeIsSet, TimerRuns,
        LeavesBooting, SayingAlive, Spawned, Resetting, Boots
<1> QED BY <1>3, <1>4

LEMMA SysrqKeepsSupervision ==
  ASSUME NEW t, Supervision, Sysrq(t)
  PROVE  Supervision'
BY OthersKeepSupervision DEF Sysrq, SameBootThreads

LEMMA AliveTimeoutKeepsSupervision ==
  ASSUME TypeOK, Supervision, AliveTimeout
  PROVE  Supervision'
<1> USE DEF TypeOK
<1>1. CASE AlarmDecides
  BY <1>1, OtherThreads, NamedThreads, OthersKeepSupervision DEF AlarmDecides, SetState
<1>2. CASE TellFrom("al", "tellAssert", "idle", "Assert")
  <2>1. SameBootThreads /\ pc["al"] # "flush"
    BY <1>2, OtherThreads, NamedThreads DEF TellFrom, Goto
  <2> QED BY <1>2, <2>1, OthersKeepSupervision DEF TellFrom
<1> QED BY <1>1, <1>2, SysrqKeepsSupervision DEF AliveTimeout

LEMMA ListenSpReadKeepsSupervision ==
  ASSUME TypeOK, Supervision, ListenSpRead
  PROVE  Supervision'
<1> USE DEF TypeOK
<1>1. SameBootThreads /\ pc'["al"] = pc["al"]
  BY OtherThreads, NamedThreads DEF ListenSpRead, SameBootThreads
<1>2. state' = state \/ state' # "BOOTING"
  BY DEF ListenSpRead
<1> QED BY <1>1, <1>2, OthersKeepSupervision DEF ListenSpRead

LEMMA ListenSpKeepsSupervision ==
  ASSUME TypeOK, Supervision, ListenSp
  PROVE  Supervision'
<1> USE DEF TypeOK
<1>1. CASE TellFrom("sp", "tellParm", "unlock", "P-ARM Assert")
  <2>1. SameBootThreads /\ pc'["al"] = pc["al"]
    BY <1>1, OtherThreads, NamedThreads DEF TellFrom
  <2> QED BY <1>1, <2>1, OthersKeepSupervision DEF TellFrom
<1> QED BY <1>1, UnlockKeepsSupervision, SysrqKeepsSupervision DEF ListenSp

LEMMA PanicKeepsSupervision ==
  ASSUME NEW e \in Panics, TypeOK, Supervision, PanicEvent(e) \/ PanicProcess(e)
  PROVE  Supervision'
<1> USE DEF TypeOK
<1>1. SameBootThreads /\ pc'["al"] = pc["al"]
  BY OtherThreads, NamedThreads, PanicsAssumption
  DEF PanicEvent, PanicProcess, SetMiniapPanic, GetPreState, SetState, TellFrom
<1>2. UNCHANGED timers /\ (state' = state \/ state' # "BOOTING")
  BY DEF PanicEvent, PanicProcess, SetMiniapPanic, GetPreState, SetState, TellFrom
<1> QED BY <1>1, <1>2, OthersKeepSupervision

LEMMA EnvironmentKeepsSupervision ==
  ASSUME Supervision,
         \/ ModemBoots \/ ModemAsserts \/ ModemAnswers \/ ListenModemReadError
         \/ ClientBlocked \/ Clients \/ UNCHANGED vars
  PROVE  Supervision'
<1>1. pc' = pc /\ state' = state /\ UNCHANGED timers
  BY DEF ModemBoots, ModemAsserts, ModemAnswers, ListenModemReadError, ClientBlocked,
         Clients, DumpWaits, Aside, KeepDaemon, vars, ctlVars, timers
<1> QED BY <1>1, OthersKeepSupervision DEF SameBootThreads

LEMMA NextKeepsSupervision ==
  ASSUME TypeOK, Supervision, [Next]_vars
  PROVE  Supervision'
<1>1. CASE BootModem
  BY <1>1, BootKeepsSupervision, ReportAliveKeepsSupervision DEF BootModem, Boots
<1>2. CASE \E e \in Panics : PanicEvent(e) \/ PanicProcess(e)
  BY <1>2, PanicKeepsSupervision
<1> QED
  BY <1>1, <1>2, ListenModemKeepsSupervision, ListenClientsKeepsSupervision,
     AlarmKeepsSupervision, AliveTimeoutKeepsSupervision, ListenSpReadKeepsSupervision,
     ListenSpKeepsSupervision, EnvironmentKeepsSupervision
  DEF Next

LEMMA InitSupervision == Init => Supervision
BY NamedThreads
DEF Init, CtlInit, Supervision, LoadsFirst, ResetIsNotBooting, TimeIsSet, TimerRuns, Spawned,
    Resetting

\* what the parts say together about a modem that boots
LEMMA SupervisionSuffices == TypeOK /\ Supervision => BootIsSupervised
BY DEF TypeOK, CtlTypeOK, Supervision, TimeIsSet, TimerRuns, BootIsSupervised, LeavesBooting,
       Loading

(***************************************************************************)
(* A started modem is always watched (BootIsSupervised), for any number of *)
(* waiters, uevents, crashes and expiries of the timer.                    *)
(***************************************************************************)
THEOREM BootSupervised == Spec => []BootIsSupervised
BY InitType, NextType, InitSupervision, NextKeepsSupervision, SupervisionSuffices, PTL
DEF Spec

-----------------------------------------------------------------------------
(***************************************************************************)
(* The block path in the composed daemon: the threads of ModemCtrl change  *)
(* the variables of ModemConnect only by broadcasts and by reading the     *)
(* pipe, so its budget carries over.                                       *)
(***************************************************************************)
LEMMA PipeKeepsBudget ==
  ASSUME BlockBudget,
         UNCHANGED <<prop, conState, nvitemd, waiter, rd, rdMsg, dumpState, laterReset,
                     alives, blockResets>>
  PROVE  BlockBudget'
BY DEF BlockBudget, Worth

LEMMA TellKeepsBudget ==
  ASSUME NEW t, NEW from, NEW to, NEW m, ConTypeOK, BlockBudget, TellFrom(t, from, to, m)
  PROVE  BlockBudget'
BY BroadcastBudget DEF TellFrom, Tell

LEMMA KeptBudget == ASSUME BlockBudget, KeepCon PROVE BlockBudget'
BY PipeKeepsBudget DEF KeepCon, conVars

LEMMA BootKeepsBudget ==
  ASSUME NEW t, ConTypeOK, BlockBudget, Boot(t) \/ ReportAlive(t)
  PROVE  BlockBudget'
BY KeptBudget, TellKeepsBudget
DEF Boot, Load, Start, Booting, StartWaitAlive, SetTimer, SetITimer, TryRead, ReportAlive,
    StopForAlive, SetState

LEMMA ListenModemKeepsBudget ==
  ASSUME ConTypeOK, BlockBudget, ListenModem \/ ListenModemReadError
  PROVE  BlockBudget'
BY KeptBudget, TellKeepsBudget, BootKeepsBudget
DEF ListenModem, ListenModemRead, ListenModemReadError, SetState, ClearWaitReset, Unlock

LEMMA ListenClientsKeepsBudget ==
  ASSUME ConTypeOK, BlockBudget, ListenClients
  PROVE  BlockBudget'
<1>1. CASE ListenClientsRead
  BY <1>1, PipeKeepsBudget DEF ListenClientsRead
<1> QED
  BY <1>1, KeptBudget, BootKeepsBudget
  DEF ListenClients, HandleBlocked, Guard, StopForReset, SetTimer, SetITimer, Reboot,
      Prepare, PrepareResetModem, PollWaitReset, Unlock

LEMMA AsidesKeepBudget ==
  ASSUME ConTypeOK, BlockBudget,
         \/ Alarm \/ AliveTimeout \/ ListenSpRead \/ ListenSp
         \/ \E e \in Panics : PanicEvent(e) \/ PanicProcess(e)
         \/ ModemBoots \/ ModemAsserts \/ ModemAnswers
  PROVE  BlockBudget'
BY KeptBudget, TellKeepsBudget
DEF Alarm, AliveTimeout, AlarmDecides, SetState, Sysrq, ListenSpRead, ListenSp, Unlock,
    PanicEvent, PanicProcess, SetMiniapPanic, GetPreState, ModemBoots, ModemAsserts,
    ModemAnswers, KeepDaemon

LEMMA ClientsKeepBudget ==
  ASSUME ConTypeOK, BlockBudget, ClientBlocked \/ Clients
  PROVE  BlockBudget'
BY ReadBlockedBudget, BroadcastBudget, ReadOtherBudget, DispatchBudget, DumpWaiterBudget
DEF ClientBlocked, Clients, ReadAgdsp, DumpWaits

(***************************************************************************)
(* In the whole daemon too, the block path asks for at most one reset per  *)
(* "Modem Alive" (BlockResetsJustified).                                   *)
(***************************************************************************)
THEOREM BlockResetsJustifiedInDaemon == Spec => []BlockResetsJustified
<1>1. Init => ConTypeOK /\ BlockBudget
  BY ConInitOK DEF Init
<1>2. TypeOK /\ BlockBudget /\ [Next]_vars => BlockBudget'
  <2> SUFFICES ASSUME TypeOK, BlockBudget, [Next]_vars PROVE BlockBudget'
    OBVIOUS
  <2>1. ConTypeOK
    BY DEF TypeOK
  <2>2. CASE UNCHANGED vars
    BY <2>2, PipeKeepsBudget DEF vars, conVars
  <2> QED
    BY <2>1, <2>2, BootKeepsBudget, ListenModemKeepsBudget, ListenClientsKeepsBudget,
       AsidesKeepBudget, ClientsKeepBudget
    DEF Next, BootModem
<1>3. TypeOK /\ BlockBudget => BlockResetsJustified
  BY BudgetSuffices DEF TypeOK
<1> QED BY <1>1, <1>2, <1>3, InitType, NextType, PTL DEF Spec

-----------------------------------------------------------------------------
(***************************************************************************)
(* ReportInv is inductive.  First what a step of a thread moves, and what  *)
(* the device says as long as nobody writes to it.                         *)
(***************************************************************************)
Named == {"main", "lm", "lc", "al", "sp"}

LEMMA MovesOne ==
  ASSUME NEW t \in Named, NEW from, NEW to, TypeOK, Goto(t, from, to)
  PROVE  /\ pc[t] = from /\ pc'[t] = to
         /\ \A u \in Named \ {t} : pc'[u] = pc[u]
         /\ \A e \in Panics : pc'[e] = pc[e]
<1>1. pc \in [Threads -> Labels] /\ Named \subseteq Threads /\ Panics \subseteq Threads
      /\ t \notin Panics
  BY NamedThreads, PanicsAssumption DEF TypeOK, CtlTypeOK, Named
<1> QED BY <1>1 DEF Goto

LEMMA SpendsOther ==
  ASSUME TypeOK, NEW what \in {"crash", "stuck", "diag", "parm", "ioerr"}, Spend(what)
  PROVE  \A u \in {"block", "panic", "slow"} : left'[u] = left[u]
BY DEF TypeOK, CtlTypeOK, Unusual, Spend

LEMMA SpendsNone ==
  ASSUME Undisturbed, NEW what \in {"block", "panic", "slow"}, Spend(what)
  PROVE  FALSE
<1>1. left[what] = 0
  BY DEF Undisturbed
<1> QED BY <1>1 DEF Spend

\* Undisturbed, where it only depends on what the threads do
LEMMA StillUndisturbed ==
  ASSUME Undisturbed, UNCHANGED <<dev, rd, laterReset, zSent, waiter, rfds>>,
         \A u \in {"block", "panic", "slow"} : left'[u] = left[u],
         \A e \in Panics : pc'[e] = pc[e], "Reset" \notin buf',
         pc'["lc"] \notin {"diag", "poll"},
         pc'["lm"] \notin {"setReset", "tellReset", "clearFlag"},
         pc'["lm"] \in {"setAssert", "tellAssert"} => "Assert" \in buf'
  PROVE  Undisturbed'
BY DEF Undisturbed, InDev

LEMMA SameDevice ==
  ASSUME dev' = dev, AssertIsLast
  PROVE  (\A m : InDev(m)' <=> InDev(m)) /\ (Asserted' <=> Asserted) /\ AssertIsLast'
BY DEF InDev, Asserted, AssertIsLast

\* a broadcast in the daemon when no dump is awaited
LEMMA TellCalm ==
  ASSUME TypeOK, ~prop.dump, NEW m, Tell(m)
  PROVE  /\ UNCHANGED <<prop, rd, laterReset, waiter>>
         /\ m \notin {"Assert", "Reset"} => pipe' = pipe
         /\ m = "Assert" => pipe' = pipe \/ pipe' # << >>
<1>1. pipe \in Seq(Commands)
  BY DEF TypeOK, ConTypeOK
<1>2. Append(pipe, "Prepare") # << >>
  BY <1>1
<1> QED BY <1>2 DEF Tell, Broadcast, AskForReset, Post

(***************************************************************************)
(* The threads that boot the modem.                                        *)
(***************************************************************************)
Calm == TypeOK /\ LoadsFirst /\ OneReporter /\ ~prop.dump /\ ~prop.modemOnly /\ Reported

LEMMA LoadReports ==
  ASSUME Calm, NEW t \in Boots, Load(t) PROVE Reported'
<1> USE DEF Calm
<1>1. t \in Named /\ t \in {"main", "lc"}
  BY DEF Boots, Named
<1>2. /\ pc[t] = "load" /\ pc'[t] = "start" /\ \A u \in Named \ {t} : pc'[u] = pc[u]
      /\ \A e \in Panics : pc'[e] = pc[e]
  BY <1>1, MovesOne DEF Load
<1>3. /\ modem' = "off" /\ ~zSent' /\ left' = left
      /\ UNCHANGED <<rd, laterReset, waiter, rfds, buf, pipe>>
      /\ dev' = dev \/ dev' = [d \in Devs |-> << >>]
  BY DEF Load, locals, KeepCon, conVars
<1>4. ~Asserted /\ ~Heard /\ ~TimedOut /\ ~Asked
  <2>1. CASE t = "lc"
    BY <1>2, <2>1 DEF Reported, OneReport, Acting
  <2>2. CASE t = "main"
    BY <1>2, <2>2 DEF Reported, OneReport, LoadStages
  <2> QED BY <1>1, <2>1, <2>2
<1>5. ~InDev("Assert")' /\ ~InDev("Reset")'
  <2>1. CASE dev' = dev
    BY <1>4, <2>1 DEF Reported, Undisturbed, InDev, Asserted
  <2>2. CASE dev' = [d \in Devs |-> << >>]
    BY <2>2 DEF InDev, Devs
  <2> QED BY <1>3, <2>1, <2>2
<1>6. ~Asserted' /\ AssertIsLast'
  BY <1>5 DEF InDev, Asserted, AssertIsLast
<1>7. ~Heard' /\ ~TimedOut' /\ ~Asked'
  BY <1>1, <1>2, <1>3, <1>4 DEF Heard, TimedOut, Asked, Named
<1>8. ~Acting'
  <2>1. CASE t = "lc"
    BY <1>2, <2>1 DEF Acting
  <2>2. CASE t = "main"
    BY <1>2, <2>2 DEF Acting, LoadsFirst, Spawned, Named
  <2> QED BY <1>1, <2>1, <2>2
<1>9. Undisturbed'
  BY <1>1, <1>2, <1>3, <1>5 DEF Reported, Undisturbed, Named
<1>10. LoadStages'
  <2>1. CASE t = "lc"
    BY <1>2, <1>3, <2>1 DEF LoadStages, Boots, Named, LoadsFirst, Spawned
  <2>2. CASE t = "main"
    BY <1>2, <1>3, <2>2 DEF LoadStages, Boots, Named, LoadsFirst, Spawned
  <2> QED BY <1>1, <2>1, <2>2
<1> QED BY <1>3, <1>6, <1>7, <1>8, <1>9, <1>10 DEF Reported, OneReport, UpIsKnown

\* a boot thread that neither loads nor reports
LEMMA BootReports ==
  ASSUME Calm, NEW t \in Boots, Boot(t) PROVE Reported'
<1> USE DEF Calm
<1>1. t \in Named /\ t \in {"main", "lc"}
  BY DEF Boots, Named
<1>2. CASE Start(t)
  <2>1. /\ pc[t] = "start" /\ pc'[t] = "booting" /\ \A u \in Named \ {t} : pc'[u] = pc[u]
        /\ \A e \in Panics : pc'[e] = pc[e]
    BY <1>1, <1>2, MovesOne DEF Start
  <2>2. /\ modem' \in {"booting", "stuck"}
        /\ UNCHANGED <<dev, zSent, rd, laterReset, waiter, rfds, buf, pipe>>
    BY <1>2 DEF Start, locals, KeepCon, conVars
  <2>3. \A u \in {"block", "panic", "slow"} : left'[u] = left[u]
    BY <1>2, SpendsOther DEF Start
  <2>4. modem = "off" /\ ~Asserted /\ ~Heard /\ ~TimedOut /\ ~Asked /\ ~Acting
    BY <1>1, <2>1 DEF Reported, OneReport, LoadStages
  <2>5. ~Asserted' /\ AssertIsLast'
    BY <2>2, <2>4, SameDevice DEF Reported
  <2>6. ~Heard' /\ ~TimedOut' /\ ~Asked' /\ ~Acting'
    BY <1>1, <2>1, <2>2, <2>4 DEF Heard, TimedOut, Asked, Acting, Named
  <2>7. Undisturbed'
    BY <1>1, <2>1, <2>2, <2>3, StillUndisturbed DEF Reported, Undisturbed, Named
  <2>8. LoadStages'
    BY <1>1, <2>1, <2>2 DEF LoadStages, Boots, Named, LoadsFirst, Spawned
  <2> QED BY <2>2, <2>5, <2>6, <2>7, <2>8 DEF Reported, OneReport, UpIsKnown
<1>3. CASE Booting(t)
  <2>1. /\ pc[t] = "booting" /\ pc'[t] = "arm1" /\ \A u \in Named \ {t} : pc'[u] = pc[u]
        /\ \A e \in Panics : pc'[e] = pc[e]
    BY <1>1, <1>3, MovesOne DEF Booting
  <2>2. UNCHANGED <<modem, dev, zSent, rd, laterReset, waiter, rfds, buf, pipe, left>>
    BY <1>3 DEF Booting, locals, link, KeepCon, conVars
  <2>3. modem # "up"
    BY <1>1, <2>1 DEF Reported, LoadStages
  <2>4. (Asserted' <=> Asserted) /\ AssertIsLast'
    BY <2>2, SameDevice DEF Reported
  <2>5. (Heard' <=> Heard) /\ (TimedOut' <=> TimedOut) /\ (Asked' <=> Asked)
        /\ (Acting' <=> Acting)
    BY <1>1, <2>1, <2>2 DEF Heard, TimedOut, Asked, Acting, Named
  <2>6. Undisturbed'
    BY <1>1, <2>1, <2>2, StillUndisturbed DEF Reported, Undisturbed, Named
  <2>7. LoadStages'
    BY <1>1, <2>1, <2>2 DEF Reported, LoadStages, Boots, Named
  <2> QED BY <2>2, <2>3, <2>4, <2>5, <2>6, <2>7 DEF Reported, OneReport, UpIsKnown
<1>4. CASE StartWaitAlive(t) \/ TryRead(t)
  <2>1. PICK from \in {"arm1", "arm2", "try"}, to \in {"arm2", "try", "unlock", "idle"} :
          Goto(t, from, to)
    BY <1>1, <1>4 DEF StartWaitAlive, SetTimer, SetITimer, TryRead, AfterWait, OneReporter
  <2>2. /\ pc[t] = from /\ pc'[t] = to /\ \A u \in Named \ {t} : pc'[u] = pc[u]
        /\ \A e \in Panics : pc'[e] = pc[e]
    BY <1>1, <2>1, MovesOne
  <2>3. UNCHANGED <<modem, dev, zSent, rd, laterReset, waiter, rfds, buf, pipe, left, state>>
    BY <1>4 DEF StartWaitAlive, SetTimer, SetITimer, TryRead, locals, link, KeepCon, conVars
  <2>4. (Asserted' <=> Asserted) /\ AssertIsLast' /\ (InDev("Alive")' <=> InDev("Alive"))
    BY <2>3, SameDevice DEF Reported
  <2>5. (Heard' <=> Heard) /\ (TimedOut' <=> TimedOut) /\ (Asked' <=> Asked)
        /\ (Acting' <=> Acting)
    BY <1>1, <2>2, <2>3 DEF Heard, TimedOut, Asked, Acting, Named
  <2>6. Undisturbed'
    BY <1>1, <2>2, <2>3, StillUndisturbed DEF Reported, Undisturbed, Named
  <2>7. LoadStages'
    BY <1>1, <2>2, <2>3 DEF Reported, LoadStages, Boots, Named
  <2>8. UpIsKnown'
    BY <1>1, <2>2, <2>3, <2>4 DEF Reported, UpIsKnown, Named
  <2> QED BY <2>3, <2>4, <2>5, <2>6, <2>7, <2>8 DEF Reported, OneReport
<1> QED BY <1>2, <1>3, <1>4, LoadReports DEF Boot

\* A step of a thread that leaves the modem, its device and the dump waiters alone.
LEMMA StillReports ==
  ASSUME Calm, NEW t \in Named, NEW from, NEW to, Goto(t, from, to),
         UNCHANGED <<modem, dev, zSent, rd, laterReset, waiter, rfds>>,
         \A u \in {"block", "panic", "slow"} : left'[u] = left[u],
         t \in Boots => \/ {from, to} \cap {"load", "start", "booting"} = {}
                        \/ from = "reboot" /\ to = "load" /\ t = "lc"
  PROVE  /\ pc[t] = from /\ pc'[t] = to
         /\ \A u \in Named \ {t} : pc'[u] = pc[u]
         /\ \A e \in Panics : pc'[e] = pc[e]
         /\ Asserted' <=> Asserted
         /\ InDev("Alive")' <=> InDev("Alive")
         /\ AssertIsLast'
         /\ LoadStages'
<1> USE DEF Calm
<1>1. /\ pc[t] = from /\ pc'[t] = to /\ \A u \in Named \ {t} : pc'[u] = pc[u]
      /\ \A e \in Panics : pc'[e] = pc[e]
  BY MovesOne
<1>2. (Asserted' <=> Asserted) /\ AssertIsLast' /\ (InDev("Alive")' <=> InDev("Alive"))
  BY SameDevice DEF Reported
<1>3. LoadStages'
  BY <1>1 DEF Reported, LoadStages, Boots, Named
<1> QED BY <1>1, <1>2, <1>3

LEMMA AliveReports ==
  ASSUME Calm, NEW t \in {"main", "lm", "lc"}, ReportAlive(t) PROVE Reported'
<1> USE DEF Calm
<1> DEFINE Saying == {"stopA1", "stopA2", "setAlive", "tellAlive"}
<1>1. t \in Named /\ t \notin Panics
  BY PanicsAssumption DEF Named
<1>2. PICK from \in Saying, to \in Labels :
        /\ Goto(t, from, to)
        /\ \/ from = "stopA1" /\ to = "stopA2"
           \/ from = "stopA2" /\ to = "setAlive"
           \/ from = "setAlive" /\ to = "tellAlive" /\ state' = "ALIVE"
           \/ /\ from = "tellAlive"
              /\ to = IF t = "lm" THEN AfterAlive ELSE AfterWait(t)
        /\ from # "setAlive" => state' = state
  BY DEF ReportAlive, StopForAlive, SetTimer, SetITimer, SetState, TellFrom, AfterAlive, AfterReset,
         AfterWait, Labels
<1>3. /\ UNCHANGED <<modem, dev, zSent, rfds, buf, left>>
      /\ UNCHANGED <<rd, laterReset, waiter, pipe>>
  BY TellCalm
  DEF ReportAlive, StopForAlive, SetTimer, SetITimer, SetState, TellFrom, locals, link, KeepCon,
      conVars
<1>4. "Reset" \notin buf
  BY DEF Reported, Undisturbed
<1>5. /\ {from, to} \cap {"load", "start", "booting"} = {}
      /\ to \in Saying \cup {"setAssert", "unlock", "idle"}
      /\ to = "setAssert" => t = "lm" /\ "Assert" \in buf
      /\ t = "lm" /\ from = "tellAlive" /\ "Assert" \in buf => to = "setAssert"
      /\ t = "lm" /\ from # "setAlive" /\ from # "tellAlive" => to \in {"stopA2", "setAlive"}
  BY <1>2, <1>4 DEF AfterAlive, AfterReset, AfterWait
<1>6. /\ pc[t] = from /\ pc'[t] = to
      /\ \A u \in Named \ {t} : pc'[u] = pc[u]
      /\ \A e \in Panics : pc'[e] = pc[e]
      /\ Asserted' <=> Asserted
      /\ InDev("Alive")' <=> InDev("Alive")
      /\ AssertIsLast'
      /\ LoadStages'
  <2>1. \A u \in {"block", "panic", "slow"} : left'[u] = left[u]
    BY <1>3
  <2>2. UNCHANGED <<modem, dev, zSent, rd, laterReset, waiter, rfds>> /\ Goto(t, from, to)
    BY <1>2, <1>3
  <2> QED BY ONLY Calm, <1>1, <1>5, <2>1, <2>2, StillReports
<1>7. (TimedOut' <=> TimedOut) /\ (Asked' <=> Asked)
  BY <1>3, <1>6 DEF TimedOut, Asked, Named
<1>8. Heard' <=> Heard
  BY <1>2, <1>3, <1>5, <1>6 DEF Heard, Named
<1>9. Acting' <=> Acting
  BY <1>2, <1>5, <1>6 DEF Acting, Named
<1>10. Undisturbed'
  <2>1. pc'["lc"] \notin {"diag", "poll"}
    BY <1>2, <1>5, <1>6 DEF Reported, Undisturbed, Named
  <2>2. /\ pc'["lm"] \notin {"setReset", "tellReset", "clearFlag"}
        /\ pc'["lm"] \in {"setAssert", "tellAssert"} => "Assert" \in buf'
    BY <1>2, <1>3, <1>5, <1>6 DEF Reported, Undisturbed, Named
  <2> QED BY <1>3, <1>4, <1>6, <2>1, <2>2, StillUndisturbed DEF Reported
<1>11. UpIsKnown'
  BY <1>2, <1>3, <1>5, <1>6 DEF Reported, UpIsKnown, Named
<1> QED BY <1>3, <1>6, <1>7, <1>8, <1>9, <1>10, <1>11 DEF Reported, OneReport

(***************************************************************************)
(* lm: what it reads leaves the device.                                    *)
(***************************************************************************)
FirstOf(s, n) == {s[i] : i \in 1..n}
RestOf(s, n)  == SubSeq(s, n + 1, Len(s))

Occurs(s, m)  == \E i \in DOMAIN s : s[i] = m
LastOnly(s, m) == \A i \in DOMAIN s : s[i] = m => i = Len(s)

LEMMA ReadPrefix ==
  ASSUME NEW S, NEW s \in Seq(S), NEW n \in Nat, 1 <= n, n <= Len(s)
  PROVE  \A m : /\ Occurs(s, m) <=> (m \in FirstOf(s, n) \/ Occurs(RestOf(s, n), m))
                /\ LastOnly(s, m) => /\ LastOnly(RestOf(s, n), m)
                                     /\ m \in FirstOf(s, n) => ~Occurs(RestOf(s, n), m)
<1> DEFINE rest == RestOf(s, n)
           read == FirstOf(s, n)
           len == Len(s)
<1>1. len \in Nat /\ DOMAIN s = 1..len /\ n <= len
  OBVIOUS
<1>2. /\ DOMAIN rest = 1..(len - n) /\ Len(rest) = len - n
      /\ \A i \in 1..(len - n) : rest[i] = s[n + i]
  BY DEF RestOf
<1>3. \A m : m \in read <=> \E i \in 1..n : s[i] = m
  BY DEF FirstOf
<1> HIDE DEF rest, read, len
<1>4. ASSUME NEW m, NEW i \in DOMAIN s, s[i] = m
      PROVE  m \in read \/ \E j \in DOMAIN rest : rest[j] = m
  <2>1. i \in 1..n \/ (i - n \in 1..(len - n) /\ n + (i - n) = i)
    BY <1>1
  <2> QED BY <1>2, <1>3, <1>4, <2>1
<1>5. ASSUME NEW m, m \in read \/ \E j \in DOMAIN rest : rest[j] = m
      PROVE  \E i \in DOMAIN s : s[i] = m
  <2>1. \A j \in 1..(len - n) : n + j \in 1..len
    BY <1>1
  <2>2. \A j \in 1..n : j \in 1..len
    BY <1>1
  <2> QED BY <1>1, <1>2, <1>3, <1>5, <2>1, <2>2
<1>6. ASSUME NEW a, \A i \in DOMAIN s : s[i] = a => i = len,
             NEW i \in DOMAIN rest, rest[i] = a
      PROVE  i = Len(rest) /\ a \notin read
  <2>1. i \in 1..(len - n) /\ n + i \in 1..len /\ s[n + i] = a
    BY <1>1, <1>2, <1>6
  <2>2. n + i = len
    BY <1>1, <1>6, <2>1
  <2>3. i = Len(rest)
    BY <1>1, <1>2, <2>1, <2>2
  <2>4. \A j \in 1..n : j \in 1..len /\ j # len
    BY <1>1, <2>1, <2>2
  <2>5. \A j \in 1..n : s[j] # a
    BY <1>1, <1>6, <2>4
  <2> QED BY <1>3, <2>3, <2>5
<1> QED BY <1>4, <1>5, <1>6 DEF rest, read, len, Occurs, LastOnly

LEMMA ListenReadReports ==
  ASSUME Calm, ListenModemRead PROVE Reported'
<1> USE DEF Calm
<1>1. rfds = {"assert"} /\ Ready = {"assert"} /\ rfds' = {"assert"}
  BY DEF Reported, Undisturbed, ListenModemRead, Ready
<1>2. ReadDev("assert")
  BY <1>1 DEF ListenModemRead
<1>3. dev["assert"] \in Seq(DevMsgs) /\ dev \in [Devs -> Seq(DevMsgs)] /\ "assert" \in Devs
  BY DEF TypeOK, CtlTypeOK, Devs
<1>4. PICK n \in 1..Len(dev["assert"]) :
        /\ buf' = {dev["assert"][i] : i \in 1..n}
        /\ dev' = [dev EXCEPT !["assert"] = SubSeq(dev["assert"], n + 1, Len(dev["assert"]))]
  BY <1>2 DEF ReadDev
<1>5. dev'["assert"] = SubSeq(dev["assert"], n + 1, Len(dev["assert"]))
  BY <1>3, <1>4
<1>6. \A m : /\ InDev(m) <=> Occurs(dev["assert"], m)
             /\ InDev(m)' <=> Occurs(dev'["assert"], m)
  BY DEF InDev, Occurs
<1>7. /\ \A m : InDev(m) <=> (m \in buf' \/ InDev(m)')
      /\ LastOnly(dev'["assert"], "Assert") /\ ("Assert" \in buf' => ~InDev("Assert")')
  <2>1. n \in Nat /\ 1 <= n /\ n <= Len(dev["assert"])
    BY <1>3
  <2>2. buf' = FirstOf(dev["assert"], n) /\ dev'["assert"] = RestOf(dev["assert"], n)
    BY <1>4, <1>5 DEF FirstOf, RestOf
  <2>3. LastOnly(dev["assert"], "Assert")
    BY DEF Reported, AssertIsLast, LastOnly
  <2> QED BY ONLY <1>3, <1>6, <2>1, <2>2, <2>3, ReadPrefix
<1>8. AssertIsLast' /\ ("Assert" \in buf' => ~Asserted')
  BY <1>7 DEF AssertIsLast, LastOnly, Asserted
<1>9. "Reset" \notin buf' /\ ~InDev("Reset")'
  BY <1>7 DEF Reported, Undisturbed
<1> DEFINE to == IF "Alive" \in buf' THEN "stopA1" ELSE AfterAlive'
<1>10. /\ to = IF "Alive" \in buf' THEN "stopA1"
               ELSE IF "Assert" \in buf' THEN "setAssert" ELSE "unlock"
       /\ Goto("lm", "idle", to)
  BY <1>9 DEF ListenModemRead, AfterAlive, AfterReset
<1> HIDE DEF to
<1>11. /\ pc["lm"] = "idle" /\ pc'["lm"] = to
       /\ \A u \in Named \ {"lm"} : pc'[u] = pc[u]
       /\ \A e \in Panics : pc'[e] = pc[e]
  BY <1>10, MovesOne DEF Named
<1>12. UNCHANGED <<modem, zSent, rd, laterReset, waiter, pipe, left, state>>
  BY DEF ListenModemRead, KeepCon, conVars
<1>13. (TimedOut' <=> TimedOut) /\ (Asked' <=> Asked) /\ (Acting' <=> Acting) /\ ~Heard
  BY <1>11, <1>12 DEF TimedOut, Asked, Acting, Heard, Named
<1>14. (Heard' => Asserted /\ ~Asserted') /\ (Asserted' => Asserted)
  BY <1>7, <1>8, <1>11 DEF Heard, Asserted
<1>15. OneReport'
  BY <1>12, <1>13, <1>14 DEF Reported, OneReport
<1>16. Undisturbed'
  BY <1>1, <1>9, <1>10, <1>11, <1>12 DEF Reported, Undisturbed, Named
<1>17. LoadStages'
  BY <1>11, <1>12 DEF Reported, LoadStages, Named, Boots
<1>18. UpIsKnown'
  BY <1>7, <1>10, <1>11, <1>12 DEF Reported, UpIsKnown, Named
<1> QED BY <1>8, <1>15, <1>16, <1>17, <1>18 DEF Reported

(***************************************************************************)
(* The other steps of the threads.  A report that moves leaves the place   *)
(* it was at.                                                              *)
(***************************************************************************)
Moved(t, from, to) ==
  /\ Goto(t, from, to)
  /\ UNCHANGED <<modem, dev, zSent, rd, laterReset, waiter, rfds>>
  /\ \A u \in {"block", "panic", "slow"} : left'[u] = left[u]
  /\ t \in Boots => \/ {from, to} \cap {"load", "start", "booting"} = {}
                    \/ from = "reboot" /\ to = "load" /\ t = "lc"
  /\ (buf' = buf) \/ (buf' = {} /\ from = "unlock" /\ t = "lm")
  /\ to \notin {"diag", "poll", "setReset", "tellReset", "clearFlag"}
  /\ t = "lm" => \/ from = "setAssert" /\ to = "tellAssert"
                 \/ to \in {"idle", "unlock"} /\ from \in {"unlock", "tellAssert"}
  /\ TimedOut' => TimedOut
  /\ Acting' => Acting \/ (Asked /\ ~Asked')
  /\ Asked' => Asked \/ (Heard /\ ~Heard') \/ (TimedOut /\ ~TimedOut')
  /\ state' = state \/ modem # "up" \/ (to = "sysrq" /\ t = "sp")
  /\ t = "sp" => from # "sysrq"

LEMMA MovedReports ==
  ASSUME Calm, NEW t \in Named, NEW from, NEW to, Moved(t, from, to)
  PROVE  Reported'
<1> USE DEF Calm, Moved
<1>1. /\ pc[t] = from /\ pc'[t] = to
      /\ \A u \in Named \ {t} : pc'[u] = pc[u]
      /\ \A e \in Panics : pc'[e] = pc[e]
      /\ Asserted' <=> Asserted
      /\ InDev("Alive")' <=> InDev("Alive")
      /\ AssertIsLast'
      /\ LoadStages'
  <2>1. /\ Goto(t, from, to)
        /\ UNCHANGED <<modem, dev, zSent, rd, laterReset, waiter, rfds>>
        /\ \A u \in {"block", "panic", "slow"} : left'[u] = left[u]
        /\ t \in Boots => \/ {from, to} \cap {"load", "start", "booting"} = {}
                          \/ from = "reboot" /\ to = "load" /\ t = "lc"
    OBVIOUS
  <2> QED BY ONLY Calm, <2>1, t \in Named, StillReports
<1>2. Undisturbed'
  <2>1. "Reset" \notin buf'
    BY DEF Reported, Undisturbed
  <2>2. pc'["lc"] \notin {"diag", "poll"}
    BY <1>1 DEF Reported, Undisturbed, Named
  <2>3. /\ pc'["lm"] \notin {"setReset", "tellReset", "clearFlag"}
        /\ pc'["lm"] \in {"setAssert", "tellAssert"} => "Assert" \in buf'
    BY <1>1 DEF Reported, Undisturbed, Named
  <2> QED BY <1>1, <2>1, <2>2, <2>3, StillUndisturbed DEF Reported
<1>3. Heard' => Heard
  BY <1>1 DEF Heard, Named
<1>4. OneReport'
  BY <1>1, <1>3 DEF Reported, OneReport
<1>5. UpIsKnown'
  BY <1>1 DEF Reported, UpIsKnown, Named
<1> QED BY <1>1, <1>2, <1>4, <1>5 DEF Reported

LEMMA SetAssertReports ==
  ASSUME Calm, SetState("lm", "setAssert", "tellAssert", "ASSERT") PROVE Reported'
<1> USE DEF Calm
<1>1. Goto("lm", "setAssert", "tellAssert") /\ "lm" \in Named
  BY DEF SetState, Named
<1>2. UNCHANGED <<modem, dev, zSent, rd, laterReset, waiter, rfds, buf, left, pipe>>
  BY DEF SetState, locals, link, KeepCon, conVars
<1>3. pc["lm"] = "setAssert" /\ \A u \in Named \ {"lm"} : pc'[u] = pc[u]
  BY <1>1, MovesOne
<1>4. Heard /\ modem # "up"
  BY <1>3 DEF Reported, Undisturbed, OneReport, Heard
<1>5. (TimedOut' <=> TimedOut) /\ (Acting' <=> Acting) /\ (Asked' <=> Asked)
  BY <1>2, <1>3 DEF TimedOut, Acting, Asked, Named
<1>6. Moved("lm", "setAssert", "tellAssert")
  BY <1>1, <1>2, <1>4, <1>5 DEF Moved, Boots
<1> QED BY <1>1, <1>6, MovedReports

\* lm and al hand the report on to the pipe
LEMMA TellAssertReports ==
  ASSUME Calm, NEW t \in {"lm", "al"}, NEW to, to = IF t = "lm" THEN "unlock" ELSE "idle",
         TellFrom(t, "tellAssert", to, "Assert")
  PROVE  Reported'
<1> USE DEF Calm
<1>1. Goto(t, "tellAssert", to) /\ t \in Named /\ t \notin Boots
  BY DEF TellFrom, Named, Boots
<1>2. UNCHANGED <<modem, dev, zSent, rd, laterReset, waiter, rfds, buf, left, state>>
  BY TellCalm DEF TellFrom, locals, link
<1>3. pc[t] = "tellAssert" /\ pc'[t] = to /\ \A u \in Named \ {t} : pc'[u] = pc[u]
  BY <1>1, MovesOne
<1>4. Acting' <=> Acting
  BY <1>3 DEF Acting, Named
<1>5. t = "lm" => Moved(t, "tellAssert", to)
  <2> HAVE t = "lm"
  <2>1. Heard /\ ~Heard' /\ (TimedOut' <=> TimedOut)
    BY <1>3 DEF Reported, Undisturbed, Heard, TimedOut, Named
  <2> QED BY <1>1, <1>2, <1>4, <2>1 DEF Moved
<1>6. t = "al" => Moved(t, "tellAssert", to)
  <2> HAVE t = "al"
  <2>1. TimedOut /\ ~TimedOut' /\ (Heard' <=> Heard)
    BY <1>2, <1>3 DEF Heard, TimedOut, Named
  <2> QED BY <1>1, <1>2, <1>4, <2>1 DEF Moved
<1>7. Moved(t, "tellAssert", to)
  BY <1>5, <1>6
<1> QED BY <1>1, <1>7, MovedReports

LEMMA UnlockReports ==
  ASSUME Calm, NEW t \in {"lm", "lc", "sp"}, Unlock(t) PROVE Reported'
<1> USE DEF Calm
<1>1. Goto(t, "unlock", "idle") /\ t \in Named
  BY DEF Unlock, Named
<1>2. UNCHANGED <<modem, dev, zSent, rd, laterReset, waiter, rfds, left, state, pipe>>
  BY DEF Unlock, link, KeepCon, conVars
<1>3. buf' = IF t = "lm" THEN {} ELSE buf
  BY DEF Unlock
<1>4. pc[t] = "unlock" /\ pc'[t] = "idle" /\ \A u \in Named \ {t} : pc'[u] = pc[u]
  BY <1>1, MovesOne
<1>5. (TimedOut' <=> TimedOut) /\ (Acting' <=> Acting) /\ (Asked' <=> Asked)
  BY <1>2, <1>4 DEF TimedOut, Acting, Asked, Named
<1>6. Moved(t, "unlock", "idle")
  BY <1>1, <1>2, <1>3, <1>5 DEF Moved
<1> QED BY <1>1, <1>6, MovedReports

LEMMA ListenModemReports ==
  ASSUME Calm, ListenModem PROVE Reported'
<1>1. pc["lm"] \notin {"setReset", "tellReset", "clearFlag"}
  BY DEF Calm, Reported, Undisturbed
<1>2. ~SetState("lm", "setReset", "tellReset", "RESET")
      /\ ~TellFrom("lm", "tellReset", "clearFlag", "Reset") /\ ~ClearWaitReset
  BY <1>1 DEF SetState, TellFrom, ClearWaitReset, Goto
<1> QED
  BY <1>2, ListenReadReports, AliveReports, SetAssertReports, TellAssertReports, UnlockReports
  DEF ListenModem

\* A step that moves no thread and leaves the report where it is.
LEMMA AsideReports ==
  ASSUME Calm, UNCHANGED <<pc, modem, dev, zSent, rd, laterReset, waiter, rfds, buf, pipe, state>>,
         \A u \in {"block", "panic", "slow"} : left'[u] = left[u]
  PROVE  Reported'
<1> USE DEF Calm
<1>1. (\A m : InDev(m)' <=> InDev(m)) /\ (Asserted' <=> Asserted) /\ AssertIsLast'
  BY SameDevice DEF Reported
<1>2. Undisturbed'
  BY StillUndisturbed DEF Reported, Undisturbed
<1>3. OneReport'
  BY <1>1 DEF Reported, OneReport, Heard, TimedOut, Asked, Acting
<1>4. LoadStages' /\ UpIsKnown'
  BY <1>1 DEF Reported, LoadStages, UpIsKnown
<1> QED BY <1>1, <1>2, <1>3, <1>4 DEF Reported

LEMMA ReadErrorReports ==
  ASSUME Calm, ListenModemReadError PROVE Reported'
<1> USE DEF Calm
<1>1. rfds' = rfds
  BY DEF Reported, Undisturbed, ListenModemReadError
<1>2. \A u \in {"block", "panic", "slow"} : left'[u] = left[u]
  BY SpendsOther DEF ListenModemReadError
<1>3. UNCHANGED <<pc, modem, dev, zSent, rd, laterReset, waiter, buf, pipe, state>>
  BY DEF ListenModemReadError, link, KeepCon, conVars
<1> QED BY <1>1, <1>2, <1>3, AsideReports

(***************************************************************************)
(* lc: it takes the report from the pipe and ends it by a load or skips it. *)
(***************************************************************************)
LEMMA ReadPipeReports ==
  ASSUME Calm, ListenClientsRead PROVE Reported'
<1> USE DEF Calm
<1>1. Goto("lc", "idle", "block") /\ "lc" \in Named
  BY DEF ListenClientsRead, Named
<1>2. /\ UNCHANGED <<modem, dev, zSent, rd, laterReset, waiter, rfds, buf, left, state>>
      /\ Asked /\ ~Asked'
  BY DEF ListenClientsRead, link, Asked
<1>3. \A u \in Named \ {"lc"} : pc'[u] = pc[u]
  BY <1>1, MovesOne
<1>4. TimedOut' <=> TimedOut
  BY <1>3 DEF TimedOut, Named
<1>5. Moved("lc", "idle", "block")
  BY <1>1, <1>2, <1>4 DEF Moved
<1> QED BY <1>1, <1>5, MovedReports

\* the steps from the command to load_modem_img; with a report the modem is not up
LEMMA ActingReports ==
  ASSUME Calm, NEW from, NEW to, Goto("lc", from, to),
         from \in {"block", "guard", "prepare", "stop1", "stop2", "reboot"},
         to \in {"guard", "idle", "unlock", "prepare", "stop1", "stop2", "reboot", "load"},
         to = "load" => from = "reboot",
         UNCHANGED <<modem, dev, zSent, rd, laterReset, waiter, rfds, buf, left, pipe>>
  PROVE  Reported'
<1> USE DEF Calm
<1>1. /\ "lc" \in Named /\ pc["lc"] = from /\ pc'["lc"] = to
      /\ \A u \in Named \ {"lc"} : pc'[u] = pc[u]
  BY MovesOne DEF Named
<1>2. Acting /\ modem # "up"
  BY <1>1 DEF Acting, Reported, OneReport
<1>3. (TimedOut' <=> TimedOut) /\ (Asked' <=> Asked)
  BY <1>1 DEF TimedOut, Asked, Named
<1>4. Moved("lc", from, to)
  BY <1>2, <1>3 DEF Moved
<1> QED BY <1>1, <1>4, MovedReports

LEMMA ListenClientsReports ==
  ASSUME Calm, ListenClients PROVE Reported'
<1> USE DEF Calm
<1> DEFINE Kept == UNCHANGED <<modem, dev, zSent, rd, laterReset, waiter, rfds, buf, left, pipe>>
<1>1. CASE HandleBlocked
  <2>1. Kept
    BY <1>1 DEF HandleBlocked, locals, KeepCon, conVars
  <2> QED BY <1>1, <2>1, ActingReports DEF HandleBlocked
<1>2. CASE Guard
  <2>1. Kept
    BY <1>2 DEF Guard, link, KeepCon, conVars
  <2>2. GuardLabel \in {"idle", "stop1", "prepare", "unlock"}
    BY DEF GuardLabel
  <2> QED BY <1>2, <2>1, <2>2, ActingReports DEF Guard
<1>3. CASE StopForReset
  <2>1. Kept
    BY <1>3 DEF StopForReset, SetTimer, SetITimer, locals, link, KeepCon, conVars
  <2> QED BY <1>3, <2>1, ActingReports DEF StopForReset, SetTimer, SetITimer
<1>4. CASE Reboot
  <2>1. Kept
    BY <1>4 DEF Reboot, locals, link, KeepCon, conVars
  <2> QED BY <1>4, <2>1, ActingReports DEF Reboot
<1>5. CASE Prepare
  <2>1. Kept
    BY <1>5 DEF Prepare, link, KeepCon, conVars
  <2> QED BY <1>5, <2>1, ActingReports DEF Prepare
<1>6. ~PrepareResetModem /\ ~PollWaitReset
  BY DEF Reported, Undisturbed, PrepareResetModem, PollWaitReset, Goto
<1>7. "lc" \in Boots
  BY DEF Boots
<1> QED
  BY <1>1, <1>2, <1>3, <1>4, <1>5, <1>6, <1>7, ReadPipeReports, BootReports, AliveReports,
     UnlockReports
  DEF ListenClients

(***************************************************************************)
(* al: the timer of a modem that is up does not expire unheard, because    *)
(* its alive message is known or still to be read.                         *)
(***************************************************************************)
LEMMA AlarmReports ==
  ASSUME Calm, Alarm PROVE Reported'
<1> USE DEF Calm
<1>1. Overdue /\ UNCHANGED left
  BY SpendsNone DEF Alarm, Reported
<1>2. UNCHANGED <<modem, dev, zSent, rd, laterReset, waiter, rfds, buf, pipe, state>>
  BY DEF Alarm, locals, link, KeepCon, conVars
<1>3. CASE UNCHANGED pc
  BY <1>1, <1>2, <1>3, AsideReports
<1>4. CASE state # "ALIVE" /\ Goto("al", "idle", "flush")
  <2>1. /\ \A t \in Named : pc[t] = "idle"
        /\ pipe = << >> /\ dev["assert"] = << >> /\ modem # "booting"
    BY <1>1, NamedThreads DEF Overdue, Ready, Reported, Undisturbed, Named
  <2>2. \A m : ~InDev(m)
    BY <2>1 DEF InDev
  <2>3. ~Asserted /\ ~Heard /\ ~Asked /\ ~Acting
    BY <2>1, <2>2 DEF Asserted, Heard, Asked, Acting, Named
  <2>4. modem \in {"dead", "stuck"}
    <3>1. modem \notin {"off", "up", "booting"}
      BY <1>4, <2>1, <2>2 DEF Reported, LoadStages, UpIsKnown, Named
    <3> QED BY <3>1 DEF TypeOK, CtlTypeOK
  <2>5. /\ "al" \in Named /\ "al" \notin Boots /\ \A u \in Named \ {"al"} : pc'[u] = pc[u]
        /\ \A e \in Panics : pc'[e] = pc[e]
    BY <1>4, MovesOne DEF Named, Boots
  <2>6. ~Asserted' /\ AssertIsLast' /\ ~Heard' /\ ~Asked' /\ ~Acting'
    BY <1>2, <2>3, <2>5, SameDevice DEF Reported, Heard, Asked, Acting, Named
  <2>7. Undisturbed'
    BY <1>1, <1>2, <2>5, StillUndisturbed DEF Reported, Undisturbed, Named
  <2>8. LoadStages'
    BY <1>2, <2>5 DEF Reported, LoadStages, Boots, Named
  <2> QED BY <1>2, <2>4, <2>6, <2>7, <2>8 DEF Reported, OneReport, UpIsKnown
<1> QED BY <1>3, <1>4 DEF Alarm

LEMMA SysrqReports ==
  ASSUME Calm, NEW t, Sysrq(t) PROVE Reported'
<1>1. UNCHANGED <<pc, modem, dev, zSent, rd, laterReset, waiter, rfds, buf, pipe, state, left>>
  BY DEF Sysrq, locals, link, KeepCon, conVars
<1> QED BY <1>1, AsideReports

LEMMA AliveTimeoutReports ==
  ASSUME Calm, AliveTimeout PROVE Reported'
<1> USE DEF Calm
<1>1. CASE AlarmDecides
  <2>1. PICK to \in {"sysrq", "tellAssert"} : Goto("al", "flush", to)
    BY <1>1 DEF AlarmDecides, SetState
  <2>2. UNCHANGED <<modem, dev, zSent, rd, laterReset, waiter, rfds, buf, left, pipe>>
    BY <1>1 DEF AlarmDecides, SetState, locals, link, KeepCon, conVars
  <2>3. /\ "al" \in Named /\ "al" \notin Boots /\ pc["al"] = "flush"
        /\ \A u \in Named \ {"al"} : pc'[u] = pc[u]
    BY <2>1, MovesOne DEF Named, Boots
  <2>4. TimedOut /\ modem # "up"
    BY <2>3 DEF TimedOut, Reported, OneReport
  <2>5. (Acting' <=> Acting) /\ (Asked' <=> Asked)
    BY <2>2, <2>3 DEF Acting, Asked, Named
  <2>6. Moved("al", "flush", to)
    BY <2>1, <2>2, <2>3, <2>4, <2>5 DEF Moved
  <2> QED BY <2>3, <2>6, MovedReports
<1> QED BY <1>1, TellAssertReports, SysrqReports DEF AliveTimeout

(***************************************************************************)
(* sp.                                                                     *)
(***************************************************************************)
LEMMA ListenSpReadReports ==
  ASSUME Calm, ListenSpRead PROVE Reported'
<1> USE DEF Calm
<1>1. \A u \in {"block", "panic", "slow"} : left'[u] = left[u]
  BY SpendsOther DEF ListenSpRead
<1>2. UNCHANGED <<modem, dev, zSent, rd, laterReset, waiter, rfds, buf, pipe>>
  BY DEF ListenSpRead, locals, link, KeepCon, conVars
<1>3. CASE UNCHANGED <<pc, state>>
  BY <1>1, <1>2, <1>3, AsideReports
<1>4. ASSUME NEW to \in {"sysrq", "tellParm"}, Goto("sp", "idle", to),
             state' = state \/ to = "sysrq"
      PROVE  Reported'
  <2>1. "sp" \in Named /\ "sp" \notin Boots /\ \A u \in Named \ {"sp"} : pc'[u] = pc[u]
    BY <1>4, MovesOne DEF Named, Boots
  <2>2. (TimedOut' <=> TimedOut) /\ (Acting' <=> Acting) /\ (Asked' <=> Asked)
    BY <1>2, <2>1 DEF TimedOut, Acting, Asked, Named
  <2>3. Moved("sp", "idle", to)
    BY <1>1, <1>2, <1>4, <2>1, <2>2 DEF Moved
  <2> QED BY <2>1, <2>3, MovedReports
<1> QED BY <1>3, <1>4 DEF ListenSpRead

LEMMA ListenSpReports ==
  ASSUME Calm, ListenSp PROVE Reported'
<1> USE DEF Calm
<1>1. CASE TellFrom("sp", "tellParm", "unlock", "P-ARM Assert")
  <2>1. Goto("sp", "tellParm", "unlock")
    BY <1>1 DEF TellFrom
  <2>2. UNCHANGED <<modem, dev, zSent, rd, laterReset, waiter, rfds, buf, left, pipe, state>>
    <3>1. Tell("P-ARM Assert")
      BY <1>1 DEF TellFrom
    <3>2. ASSUME NEW m, Tell(m), m = "P-ARM Assert" PROVE UNCHANGED <<rd, laterReset, waiter, pipe>>
      <4>1. m \notin {"Assert", "Reset"}
        BY <3>2
      <4> QED BY <3>2, <4>1, TellCalm
    <3>4. UNCHANGED <<rd, laterReset, waiter, pipe>>
      BY <3>1, <3>2
    <3>3. UNCHANGED <<modem, dev, zSent, rfds, buf, left, state>>
      BY <1>1 DEF TellFrom, locals, link
    <3> QED BY <3>3, <3>4
  <2>3. "sp" \in Named /\ "sp" \notin Boots /\ \A u \in Named \ {"sp"} : pc'[u] = pc[u]
    BY <2>1, MovesOne DEF Named, Boots
  <2>4. (TimedOut' <=> TimedOut) /\ (Acting' <=> Acting) /\ (Asked' <=> Asked)
    BY <2>2, <2>3 DEF TimedOut, Acting, Asked, Named
  <2>5. Moved("sp", "tellParm", "unlock")
    BY <2>1, <2>2, <2>3, <2>4 DEF Moved
  <2> QED BY <2>3, <2>5, MovedReports
<1> QED BY <1>1, UnlockReports, SysrqReports DEF ListenSp

(***************************************************************************)
(* The modem and the clients.                                              *)
(***************************************************************************)
\* the modem writes to the assert device
LEMMA WriteAssert ==
  ASSUME TypeOK, NEW m \in DevMsgs, Write("assert", m)
  PROVE  /\ dev'["assert"] = Append(dev["assert"], m)
         /\ \A a : InDev(a)' <=> (InDev(a) \/ a = m)
         /\ ~Asserted => AssertIsLast'
<1> DEFINE s == dev["assert"]
           r == dev'["assert"]
<1>1. s \in Seq(DevMsgs) /\ r = Append(s, m)
  BY DEF TypeOK, CtlTypeOK, Write, Devs
<1>2. /\ Len(s) \in Nat /\ DOMAIN s = 1..Len(s) /\ Len(r) = Len(s) + 1
      /\ DOMAIN r = 1..(Len(s) + 1) /\ r[Len(s) + 1] = m
      /\ \A i \in 1..Len(s) : r[i] = s[i]
  BY <1>1
<1> HIDE DEF s, r
<1>3. \A i : i \in DOMAIN r <=> (i \in DOMAIN s \/ i = Len(r))
  BY ONLY <1>2
<1>4. \A a : (\E i \in DOMAIN r : r[i] = a) <=> ((\E i \in DOMAIN s : s[i] = a) \/ a = m)
  BY ONLY <1>2, <1>3
<1>5. (\A i \in DOMAIN s : s[i] # "Assert") => \A i \in DOMAIN r : r[i] = "Assert" => i = Len(r)
  BY ONLY <1>2, <1>3
<1> QED BY <1>1, <1>4, <1>5 DEF s, r, InDev, Asserted, AssertIsLast

LEMMA ModemBootsReports ==
  ASSUME Calm, ModemBoots PROVE Reported'
<1> USE DEF Calm
<1>1. ~SettingUp /\ UNCHANGED left
  BY SpendsNone DEF ModemBoots, Reported
<1>2. Write("assert", "Alive") /\ modem = "booting" /\ modem' = "up" /\ "Alive" \in DevMsgs
  BY DEF ModemBoots, OneReporter, DevMsgs
<1>3. UNCHANGED <<pc, zSent, rd, laterReset, waiter, rfds, buf, pipe, state>>
  BY DEF ModemBoots, KeepDaemon, locals, KeepCon, conVars
<1>4. ~Asserted /\ ~Heard /\ ~TimedOut /\ ~Asked /\ ~Acting
  BY <1>2 DEF Reported, OneReport
<1>5. AssertIsLast' /\ \A a : InDev(a)' <=> (InDev(a) \/ a = "Alive")
  BY <1>2, <1>4, WriteAssert
<1>6. InDev("Alive")' /\ ~Asserted' /\ (InDev("Reset")' <=> InDev("Reset"))
  BY <1>4, <1>5 DEF Asserted
<1>7. ~Heard' /\ ~TimedOut' /\ ~Asked' /\ ~Acting'
  BY <1>3, <1>4 DEF Heard, TimedOut, Asked, Acting
<1>8. Undisturbed'
  BY <1>1, <1>3, <1>6 DEF Reported, Undisturbed
<1>9. LoadStages'
  BY <1>1, <1>2, <1>3 DEF Reported, LoadStages, SettingUp, Boots
<1> QED BY <1>5, <1>6, <1>7, <1>8, <1>9 DEF Reported, OneReport, UpIsKnown

LEMMA ModemAssertsReports ==
  ASSUME Calm, ModemAsserts PROVE Reported'
<1> USE DEF Calm
<1>1. \A u \in {"block", "panic", "slow"} : left'[u] = left[u]
  BY SpendsOther DEF ModemAsserts
<1>2. Write("assert", "Assert") /\ modem = "up" /\ modem' = "dead" /\ "Assert" \in DevMsgs
  BY DEF ModemAsserts, DevMsgs
<1>3. UNCHANGED <<pc, zSent, rd, laterReset, waiter, rfds, buf, pipe, state>>
  BY DEF ModemAsserts, KeepDaemon, locals, KeepCon, conVars
<1>4. ~Asserted /\ ~Heard /\ ~TimedOut /\ ~Asked /\ ~Acting
  BY <1>2 DEF Reported, OneReport
<1>5. AssertIsLast' /\ \A a : InDev(a)' <=> (InDev(a) \/ a = "Assert")
  BY <1>2, <1>4, WriteAssert
<1>6. InDev("Reset")' <=> InDev("Reset")
  BY <1>5
<1>7. ~Heard' /\ ~TimedOut' /\ ~Asked' /\ ~Acting'
  BY <1>3, <1>4 DEF Heard, TimedOut, Asked, Acting
<1>8. Undisturbed'
  BY <1>1, <1>3, <1>6 DEF Reported, Undisturbed
<1>9. LoadStages'
  BY <1>2, <1>3 DEF Reported, LoadStages, Boots
<1> QED BY <1>2, <1>5, <1>7, <1>8, <1>9 DEF Reported, OneReport, UpIsKnown

LEMMA ClientsReport ==
  ASSUME Calm, Clients PROVE Reported'
<1> USE DEF Calm
<1>1. rd = "select" /\ ~laterReset /\ \A w \in Waiters : waiter[w] = "none"
  BY DEF Reported, Undisturbed
<1>2. laterReset \in BOOLEAN
  BY DEF TypeOK, ConTypeOK
<1>3. UNCHANGED ctlVars
  BY DEF Clients, DumpWaits, Aside
<1>4. UNCHANGED <<rd, laterReset, waiter, pipe>>
  <2>1. CASE ReadAgdsp
    BY <2>1 DEF ReadAgdsp, Broadcast, AskForReset
  <2>2. ASSUME NEW m \in Says, ReadOther(m) PROVE UNCHANGED <<rd, laterReset, waiter, pipe>>
    BY <1>1, <1>2, <2>2 DEF ReadOther, SignalDumpCond
  <2>3. ~Dispatch /\ \A w \in Waiters : ~DumpWaiter(w)
    BY <1>1 DEF Dispatch, BlockedCheck, BlockedInform, BlockedDecide, DumpWaiter, WaiterWaits,
               WaiterTimesOut, WaiterAsks
  <2> QED BY <2>1, <2>2, <2>3 DEF Clients, DumpWaits
<1>5. UNCHANGED <<pc, modem, dev, zSent, rfds, buf, state, left>>
  BY <1>3 DEF ctlVars
<1> QED BY <1>4, <1>5, AsideReports

\* what Undisturbed excludes
LEMMA NoneReport ==
  ASSUME Calm
  PROVE  /\ ~ModemAnswers /\ ~ClientBlocked
         /\ \A e \in Panics : ~PanicEvent(e) /\ ~PanicProcess(e)
<1> USE DEF Calm
<1>1. Undisturbed
  BY DEF Reported
<1>2. ~ModemAnswers
  BY <1>1 DEF Undisturbed, ModemAnswers
<1>3. ~ClientBlocked
  BY <1>1, SpendsNone DEF ClientBlocked
<1>4. ASSUME NEW e \in Panics PROVE ~PanicEvent(e)
  BY <1>1, SpendsNone DEF PanicEvent
<1>5. ASSUME NEW e \in Panics PROVE ~PanicProcess(e)
  <2>1. pc[e] = "idle"
    BY <1>1 DEF Undisturbed
  <2> QED BY <2>1 DEF PanicProcess, SetMiniapPanic, GetPreState, SetState, TellFrom, Goto
<1> QED BY <1>2, <1>3, <1>4, <1>5

\* nobody sets the properties
LEMMA PropsKept == ASSUME [Next]_vars PROVE prop' = prop
<1>1. KeepCon => prop' = prop
  BY DEF KeepCon, conVars
<1>2. \A m : Tell(m) => prop' = prop
  BY DEF Tell, Broadcast
<1>3. \A t : Boot(t) \/ ReportAlive(t) => prop' = prop
  BY <1>1, <1>2 DEF Boot, Load, Start, Booting, StartWaitAlive, SetTimer, SetITimer, TryRead,
     ReportAlive, StopForAlive, SetState, TellFrom
<1>4. ListenModem \/ ListenModemReadError => prop' = prop
  BY <1>1, <1>2, <1>3 DEF ListenModem, ListenModemRead, ListenModemReadError, SetState, TellFrom,
     ClearWaitReset, Unlock
<1>5. ListenClients => prop' = prop
  BY <1>1, <1>3 DEF ListenClients, ListenClientsRead, HandleBlocked, Guard, StopForReset, SetTimer,
     SetITimer, Reboot, Prepare, PrepareResetModem, PollWaitReset, Unlock
<1>6. Alarm \/ AliveTimeout \/ ListenSpRead \/ ListenSp => prop' = prop
  BY <1>1, <1>2 DEF Alarm, AliveTimeout, AlarmDecides, SetState, TellFrom, Sysrq, ListenSpRead,
     ListenSp, Unlock
<1>7. \A e \in Panics : PanicEvent(e) \/ PanicProcess(e) => prop' = prop
  BY <1>1, <1>2 DEF PanicEvent, PanicProcess, SetMiniapPanic, GetPreState, SetState, TellFrom
<1>8. ModemBoots \/ ModemAsserts \/ ModemAnswers => prop' = prop
  BY <1>1 DEF ModemBoots, ModemAsserts, ModemAnswers, KeepDaemon
<1>9. ClientBlocked \/ Clients => prop' = prop
  BY DEF ClientBlocked, ReadBlocked, Clients, ReadAgdsp, Broadcast, ReadOther, Dispatch,
     BlockedCheck, BlockedInform, BlockedDecide, DumpWaits, DumpWaiter, WaiterWaits,
     WaiterTimesOut, WaiterAsks
<1>10. UNCHANGED vars => prop' = prop
  BY DEF vars, conVars
<1> QED BY <1>3, <1>4, <1>5, <1>6, <1>7, <1>8, <1>9, <1>10 DEF Next, BootModem

LEMMA NextReports ==
  ASSUME TypeOK, Supervision, ReportInv, [Next]_vars PROVE ReportInv'
<1> SUFFICES ASSUME OneReporter, ~prop.dump, ~prop.modemOnly PROVE Reported'
  BY PropsKept DEF ReportInv
<1>1. Calm
  BY DEF Calm, ReportInv, Supervision
<1>2. CASE BootModem
  BY <1>1, <1>2, BootReports, AliveReports DEF BootModem, Boots
<1>3. CASE UNCHANGED vars
  <2>1. UNCHANGED <<pc, modem, dev, zSent, rd, laterReset, waiter, rfds, buf, pipe, state, left>>
    BY <1>3 DEF vars, conVars, ctlVars
  <2> QED BY <1>1, <2>1, AsideReports
<1> QED
  BY <1>1, <1>2, <1>3, NoneReport, ListenModemReports, ReadErrorReports, ListenClientsReports,
     AlarmReports, AliveTimeoutReports, ListenSpReadReports, ListenSpReports, ModemBootsReports,
     ModemAssertsReports, ClientsReport
  DEF Next

LEMMA InitReports == Init => ReportInv
<1> SUFFICES ASSUME Init, OneReporter PROVE Reported
  BY DEF ReportInv
<1>1. PICK m \in {[modem |-> "up", main |-> "idle"], [modem |-> "booting", main |-> "arm1"],
                  [modem |-> "off", main |-> "load"]} :
        /\ modem = m.modem
        /\ pc = [t \in Threads |-> IF t = "main" THEN m.main ELSE "idle"]
        /\ dev = [d \in Devs |-> IF m.modem = "up" /\ d = AliveDev THEN <<"Alive">> ELSE << >>]
  BY DEF Init, CtlInit
<1>2. /\ \A t \in Named \ {"main"} : pc[t] = "idle"
      /\ \A e \in Panics : pc[e] = "idle"
      /\ pc["main"] = m.main
  BY <1>1, NamedThreads, PanicsAssumption DEF Named
<1>3. dev["assert"] = IF modem = "up" THEN <<"Alive">> ELSE << >>
  BY <1>1 DEF OneReporter, Devs
<1>4. /\ ~InDev("Assert") /\ ~InDev("Reset") /\ (modem = "up" => InDev("Alive"))
  BY <1>3 DEF InDev
<1>5. ~Asserted /\ ~Heard /\ ~TimedOut /\ ~Asked /\ ~Acting /\ AssertIsLast
  BY <1>2, <1>4
  DEF Asserted, Heard, TimedOut, Asked, Acting, AssertIsLast, InDev, Init, ConInit, Named
<1>6. LoadStages
  BY <1>1, <1>2 DEF LoadStages, Boots, Named
<1>7. Undisturbed
  BY <1>2, <1>4 DEF Undisturbed, Init, ConInit, CtlInit, OneReporter, Devs, Named
<1> QED BY <1>4, <1>5, <1>6, <1>7 DEF Reported, OneReport, UpIsKnown

(***************************************************************************)
(* Where neither a dump nor a handshake delays the reset and a crash has   *)
(* one reporter, listen_clients never reloads a modem that is up: for any  *)
(* number of crashes, failed boots, expiries of the timer, P-ARM asserts   *)
(* and read errors, and however lm cuts what it reads into messages.       *)
(***************************************************************************)
THEOREM HealthyModemKept == Spec => []HealthyModemIsKept
<1>1. ReportInv => HealthyModemIsKept
  BY DEF ReportInv, HealthyModemIsKept, Reported, OneReport, Acting
<1> QED
  BY <1>1, InitType, NextType, InitSupervision, NextKeepsSupervision, InitReports, NextReports, PTL
  DEF Spec
=============================================================================
