----------------------------- MODULE ModemCtrl -----------------------------
(***************************************************************************)
(* The control threads of the daemon, built with FEATURE_EXTERNAL_MODEM    *)
(* (modem_control.c, external_modem_control.c, modem_event.c), composed    *)
(* with the client side of ModemConnect and with a modem.  The threads:    *)
(*   main   modem_ctrl_boot_modem                                          *)
(*   lm     modem_ctrl_listen_modem, reads the assert and alive devices    *)
(*   lc     modem_ctrl_listen_clients, reads the pipe, the only thread     *)
(*          that reloads the modem once main has booted it                 *)
(*   al     modem_ctrl_alive_timeout, the SIGALRM handler                  *)
(*   sp     modem_ctrl_listen_sp                                           *)
(*   Panics the threads the event monitor starts, one per CP_CRASH uevent  *)
(* The read thread and the dump waiters are those of ModemConnect.         *)
(* Assignments to shared variables that other threads race with are steps  *)
(* of their own; a call of modem_write_data_to_clients is one step.        *)
(***************************************************************************)
EXTENDS ModemConnect

CONSTANTS
  Panics,     \* threads that handle a CP_CRASH uevent
  AliveDev,   \* the board's alive device: the tty, the assert device, or its own
  Budgets     \* how often the environment may do each unusual thing: a choice of each run

VARIABLES
  state,      \* g_modem_state
  timer,      \* s_wait_alive_timer.it_value is not zero
  armed,      \* the kernel's ITIMER_REAL runs
  waitReset,  \* wait_modem_reset
  panic,      \* b_miniap_panic
  wake,       \* the kernel's wake lock "modem_control"
  pc,         \* where each thread stands
  rfds,       \* the devices in lm's fd_set
  buf,        \* what lm read: the messages found in its buffer
  cmd,        \* what lc read: the first message of the pipe
  preState,   \* pre_state of each panic thread
  modem,      \* the modem: off, booting, stuck (will not boot), up, dead
  dev,        \* what the modem wrote to the assert and to the alive device
  tty,        \* "Modem Alive" waits on the tty (old board)
  zSent,      \* the modem got the reset command 'z'
  down,       \* the kernel took the sysrq: the system is gone
  left        \* what is left of the budget

timers == <<timer, armed>>
flags  == <<waitReset, panic, wake>>
locals == <<rfds, buf, cmd, preState>>
link   == <<modem, dev, tty, zSent>>

ctlVars == <<state, timer, armed, waitReset, panic, wake, pc, rfds, buf, cmd,
             preState, modem, dev, tty, zSent, down, left>>
vars == <<conVars, ctlVars>>

Threads == {"main", "lm", "lc", "al", "sp"} \cup Panics
Boots   == {"main", "lc"}          \* the threads that load and wait for the modem

States == {"INIT", "LOADING", "BOOTING", "ALIVE", "ASSERT", "BLOCK", "RESET",
           "REBOOT_EXT", "REBOOT_SYS"}
Devs    == {"assert", "alive"}
DevMsgs == {"Alive", "Reset", "Assert"}
Unusual == {"crash", "block", "panic", "stuck", "slow", "diag", "parm", "ioerr"}

Labels ==
  {"idle", "load", "start", "booting", "arm1", "arm2", "try",
   "stopA1", "stopA2", "setAlive", "tellAlive", "setReset", "tellReset",
   "clearFlag", "setAssert", "tellAssert", "unlock", "block", "guard",
   "stop1", "stop2", "reboot", "prepare", "diag", "poll", "flush", "panicked",
   "preState", "setPanic", "tellParm", "sysrq"}

ASSUME BudgetsAssumption == Budgets \subseteq [Unusual -> Nat]
ASSUME BoardAssumption  == AliveDev \in {"tty", "assert", "alive"}
ASSUME PanicsAssumption == Panics \cap {"main", "lm", "lc", "al", "sp"} = {}

CtlTypeOK ==
  /\ state \in States
  /\ timer \in BOOLEAN
  /\ armed \in BOOLEAN
  /\ waitReset \in BOOLEAN
  /\ panic \in BOOLEAN
  /\ wake \in BOOLEAN
  /\ pc \in [Threads -> Labels]
  /\ rfds \in SUBSET Devs
  /\ buf \in SUBSET DevMsgs
  /\ cmd \in Commands \cup {"none"}
  /\ preState \in [Panics -> States]
  /\ modem \in {"off", "booting", "stuck", "up", "dead"}
  /\ dev \in [Devs -> Seq(DevMsgs)]
  /\ tty \in BOOLEAN
  /\ zSent \in BOOLEAN
  /\ down \in BOOLEAN
  /\ left \in [Unusual -> Nat]

TypeOK == ConTypeOK /\ CtlTypeOK

(***************************************************************************)
(* main starts after init_modem_img_info.  modem_has_been_boot may find a  *)
(* modem that the boot loader started, or not; only with modem=shutdown on *)
(* the command line does the daemon load a modem that is not there.        *)
(***************************************************************************)
CtlInit ==
  /\ state = "INIT"
  /\ timer = FALSE
  /\ armed = FALSE
  /\ waitReset = FALSE
  /\ panic = FALSE
  /\ wake = FALSE
  /\ \E m \in {[modem |-> "up", main |-> "idle"], [modem |-> "booting", main |-> "arm1"],
               [modem |-> "off", main |-> "load"]} :
       /\ modem = m.modem
       /\ pc = [t \in Threads |-> IF t = "main" THEN m.main ELSE "idle"]
       /\ dev = [d \in Devs |-> IF m.modem = "up" /\ d = AliveDev THEN <<"Alive">> ELSE << >>]
  /\ rfds = {"assert"} \cup ({AliveDev} \cap Devs)
  /\ buf = {}
  /\ cmd = "none"
  /\ preState = [e \in Panics |-> "INIT"]
  /\ tty = FALSE
  /\ zSent = FALSE
  /\ down = FALSE
  /\ left \in Budgets

Init == ConInit /\ CtlInit

-----------------------------------------------------------------------------
\* no thread moves once the system is gone
Goto(t, from, to) == ~down /\ pc[t] = from /\ pc' = [pc EXCEPT ![t] = to]

Spend(what) == left[what] > 0 /\ left' = [left EXCEPT ![what] = @ - 1]

\* a broadcast by a thread of this module leaves the read thread alone
Tell(m) == Broadcast(m) /\ UNCHANGED <<rd, rdMsg, dumpState, laterReset>>

KeepCon == UNCHANGED conVars

\* the modem writes to a device
Write(d, m) == dev' = [dev EXCEPT ![d] = Append(@, m)]

\* modem_ctrl_boot_modem creates lm (which creates lc) and sp after its own load
Spawned == pc["main"] \notin {"load", "start", "booting"}

-----------------------------------------------------------------------------
(***************************************************************************)
(* Pieces that several threads call.                                       *)
(***************************************************************************)
\* load_modem_img (module ModemLoad has its details): the modem is stopped ...
Load(t) ==
  /\ Goto(t, "load", "start")
  /\ wake' = TRUE
  /\ state' = "LOADING"
  /\ modem' = "off"
  /\ zSent' = FALSE
  /\ tty' = FALSE
  /\ dev' \in {dev, [d \in Devs |-> << >>]}
  /\ UNCHANGED <<timers, waitReset, panic, locals, down, left>>
  /\ KeepCon

\* ... modem_load_start: it boots, or does not come up ...
Start(t) ==
  /\ Goto(t, "start", "booting")
  /\ \/ modem' = "booting" /\ UNCHANGED left
     \/ modem' = "stuck" /\ Spend("stuck")
  /\ UNCHANGED <<state, timers, flags, locals, dev, tty, zSent, down>>
  /\ KeepCon

\* a mutation: nobody starts the wait-alive timer
BootingUnwatched(t) ==
  /\ Goto(t, "booting", "try")
  /\ state' = "BOOTING"
  /\ wake' = FALSE
  /\ UNCHANGED <<timers, waitReset, panic, locals, link, down, left>>
  /\ KeepCon

\* ... and the state is BOOTING, whatever happened meanwhile
Booting(t) ==
  /\ Goto(t, "booting", "arm1")
  /\ state' = "BOOTING"
  /\ wake' = FALSE
  /\ UNCHANGED <<timers, waitReset, panic, locals, link, down, left>>
  /\ KeepCon

\* assign s_wait_alive_timer.it_value, then pass the shared struct to setitimer
SetTimer(t, from, to, value) ==
  /\ Goto(t, from, to)
  /\ timer' = value
  /\ UNCHANGED <<state, armed, flags, locals, link, down, left>>
  /\ KeepCon

SetITimer(t, from, to) ==
  /\ Goto(t, from, to)
  /\ armed' = timer
  /\ UNCHANGED <<state, timer, flags, locals, link, down, left>>
  /\ KeepCon

\* modem_ctrl_start_wait_alive_timer
StartWaitAlive(t) == SetTimer(t, "arm1", "arm2", TRUE) \/ SetITimer(t, "arm2", "try")

AfterWait(t) == IF t = "lc" THEN "unlock" ELSE "idle"

\* modem_ctrl_try_read_modem_alive: only an old board reads the tty here, for a
\* time that depends on an uninitialised counter
TryRead(t) ==
  /\ \/ Goto(t, "try", AfterWait(t)) /\ UNCHANGED tty
     \/ AliveDev = "tty" /\ tty /\ timer /\ Goto(t, "try", "stopA1") /\ tty' = FALSE
  /\ UNCHANGED <<state, timers, flags, locals, modem, dev, zSent, down, left>>
  /\ KeepCon

AfterReset == IF "Assert" \in buf THEN "setAssert" ELSE "unlock"
AfterAlive == IF "Reset" \in buf THEN "setReset" ELSE AfterReset

\* the modem is alive: stop the timer, set the state, tell the clients
StopForAlive(t) == SetTimer(t, "stopA1", "stopA2", FALSE) \/ SetITimer(t, "stopA2", "setAlive")

SetState(t, from, to, s) ==
  /\ Goto(t, from, to)
  /\ state' = s
  /\ UNCHANGED <<timers, flags, locals, link, down, left>>
  /\ KeepCon

TellFrom(t, from, to, m) ==
  /\ Goto(t, from, to)
  /\ Tell(m)
  /\ UNCHANGED <<state, timers, flags, locals, link, down, left>>

ReportAlive(t) ==
  \/ StopForAlive(t)
  \/ SetState(t, "setAlive", "tellAlive", "ALIVE")
  \/ TellFrom(t, "tellAlive", IF t = "lm" THEN AfterAlive ELSE AfterWait(t), "Alive")

\* modem_ctrl_enable_wake_lock(0), last step of a loop; what was read is forgotten
Unlock(t) ==
  /\ Goto(t, "unlock", "idle")
  /\ wake' = FALSE
  /\ buf' = IF t = "lm" THEN {} ELSE buf
  /\ cmd' = IF t = "lc" THEN "none" ELSE cmd
  /\ UNCHANGED <<state, timers, waitReset, panic, rfds, preState, link, down, left>>
  /\ KeepCon

\* modem_ctrl_reboot_all_system after its sleep: the kernel panics
Sysrq(t) ==
  /\ ~down
  /\ pc[t] = "sysrq"
  /\ down' = TRUE
  /\ UNCHANGED <<state, timers, flags, pc, locals, link, left>>
  /\ KeepCon

-----------------------------------------------------------------------------
(***************************************************************************)
(* lm: modem_ctrl_listen_modem.  select leaves in rfds the devices that    *)
(* are ready, and nobody puts the others back.  One read may return        *)
(* several messages; the three tests that follow are not exclusive.        *)
(***************************************************************************)
Ready == {d \in rfds : dev[d] # << >>}

ReadDev(d) ==
  \E n \in 1..Len(dev[d]) :
    /\ buf' = {dev[d][i] : i \in 1..n}
    /\ dev' = [dev EXCEPT ![d] = SubSeq(@, n + 1, Len(@))]

ListenModemRead ==
  /\ Spawned
  /\ Ready # {}
  /\ rfds' = Ready
  /\ ReadDev(IF "assert" \in Ready THEN "assert" ELSE "alive")
  /\ Goto("lm", "idle", IF "Alive" \in buf' THEN "stopA1" ELSE AfterAlive')
  /\ wake' = TRUE
  /\ UNCHANGED <<state, timers, waitReset, panic, cmd, preState, modem, tty,
                 zSent, down, left>>
  /\ KeepCon

\* read returned nothing: the wake lock was taken and is released
ListenModemReadError ==
  /\ ~down
  /\ Spawned
  /\ pc["lm"] = "idle"
  /\ Spend("ioerr")
  /\ rfds' \in (SUBSET rfds) \ {{}}
  /\ wake' = FALSE
  /\ UNCHANGED <<state, timers, waitReset, panic, pc, buf, cmd, preState, link,
                 down>>
  /\ KeepCon

\* the flag is cleared after "Modem Reset" went to the clients and to the pipe
ClearWaitReset ==
  /\ Goto("lm", "clearFlag", AfterReset)
  /\ waitReset' = FALSE
  /\ UNCHANGED <<state, timers, panic, wake, locals, link, down, left>>
  /\ KeepCon

ListenModem ==
  \/ ListenModemRead
  \/ ReportAlive("lm")
  \/ SetState("lm", "setReset", "tellReset", "RESET")
  \/ TellFrom("lm", "tellReset", "clearFlag", "Reset")
  \/ ClearWaitReset
  \/ SetState("lm", "setAssert", "tellAssert", "ASSERT")
  \/ TellFrom("lm", "tellAssert", "unlock", "Assert")
  \/ Unlock("lm")

-----------------------------------------------------------------------------
(***************************************************************************)
(* lc: modem_ctrl_listen_clients.  The read empties the pipe, but strstr   *)
(* sees the first message only: each is written with its final NUL.        *)
(***************************************************************************)
ListenClientsRead ==
  /\ Spawned
  /\ pipe # << >>
  /\ Goto("lc", "idle", "block")
  /\ cmd' = Head(pipe)
  /\ pipe' = << >>
  /\ wake' = TRUE
  /\ UNCHANGED <<state, timers, waitReset, panic, rfds, buf, preState, link, down,
                 left, prop, conState, nvitemd, waiter, rd, rdMsg, dumpState,
                 laterReset, alives, blockResets>>

\* "Modem Blocked": with save dump on, modem_load_assert_modem crashes the modem
HandleBlocked ==
  /\ Goto("lc", "block", "guard")
  /\ state' = IF cmd = "Blocked" THEN "BLOCK" ELSE state
  /\ IF cmd = "Blocked" /\ prop.dump /\ modem = "up"
     THEN modem' = "dead" /\ Write("assert", "Assert")
     ELSE UNCHANGED <<modem, dev>>
  /\ UNCHANGED <<timers, flags, locals, tty, zSent, down, left>>
  /\ KeepCon

\* mutations: no test of the state, and one that forgets the asserts
GuardLabelAnyState ==
  IF cmd = "Reset" THEN "stop1" ELSE IF cmd = "Prepare" THEN "prepare" ELSE "unlock"

GuardLabelNoAssert ==
  IF state \notin {"BLOCK", "RESET"} THEN "idle" ELSE GuardLabelAnyState

\* a command that meets a modem that is not in trouble is skipped
GuardLabel ==
  IF state \notin {"BLOCK", "ASSERT", "RESET"} THEN "idle"
  ELSE IF cmd = "Reset" THEN "stop1"
  ELSE IF cmd = "Prepare" THEN "prepare"
  ELSE "unlock"

Guard ==
  /\ Goto("lc", "guard", GuardLabel)
  /\ cmd' = IF GuardLabel = "idle" THEN "none" ELSE cmd
  /\ UNCHANGED <<state, timers, flags, rfds, buf, preState, link, down, left>>
  /\ KeepCon

StopForReset == SetTimer("lc", "stop1", "stop2", FALSE) \/ SetITimer("lc", "stop2", "reboot")

\* a mutation: the command is stored in place of a state
RebootStoresCommand ==
  /\ Goto("lc", "reboot", "load")
  /\ state' = cmd
  /\ UNCHANGED <<timers, flags, locals, link, down, left>>
  /\ KeepCon

\* modem_ctrl_reboot_external_modem, or straight to load_modem_img(LOAD_MODEM_IMG)
Reboot ==
  /\ Goto("lc", "reboot", "load")
  /\ state' = IF cmd = "Reset" /\ prop.modemOnly THEN state ELSE "REBOOT_EXT"
  /\ UNCHANGED <<timers, flags, locals, link, down, left>>
  /\ KeepCon

\* "Prepare Reset": b_miniap_panic is cleared, then the property alone decides
Prepare ==
  /\ Goto("lc", "prepare", IF prop.modemOnly THEN "diag" ELSE "stop1")
  /\ panic' = FALSE
  /\ UNCHANGED <<state, timers, waitReset, wake, rfds, buf, cmd, preState, link, down, left>>
  /\ KeepCon

\* prepare_reset_modem: without the diag device no flag is set and no 'z' is sent
PrepareResetModem ==
  /\ Goto("lc", "diag", "poll")
  /\ \/ waitReset' = TRUE /\ zSent' = TRUE /\ UNCHANGED left
     \/ Spend("diag") /\ UNCHANGED <<waitReset, zSent>>
  /\ UNCHANGED <<state, timers, panic, wake, locals, modem, dev, tty, down>>
  /\ KeepCon

\* a mutation: no forced reset after the 5 s
PollWaitResetGivesUp ==
  /\ Goto("lc", "poll", "unlock")
  /\ UNCHANGED <<state, timers, flags, locals, link, down, left>>
  /\ KeepCon

\* up to 5 s of polling end when lm cleared the flag, or by a forced reset
PollWaitReset ==
  /\ Goto("lc", "poll", IF waitReset THEN "stop1" ELSE "unlock")
  /\ UNCHANGED <<state, timers, flags, locals, link, down, left>>
  /\ KeepCon

Boot(t) == Load(t) \/ Start(t) \/ Booting(t) \/ StartWaitAlive(t) \/ TryRead(t)

ListenClients ==
  \/ ListenClientsRead \/ HandleBlocked \/ Guard
  \/ StopForReset \/ Reboot \/ Boot("lc") \/ ReportAlive("lc")
  \/ Prepare \/ PrepareResetModem \/ PollWaitReset
  \/ Unlock("lc")

BootModem == Boot("main") \/ ReportAlive("main")

-----------------------------------------------------------------------------
(***************************************************************************)
(* al: modem_ctrl_alive_timeout.  The 60 s are long: the timer expires     *)
(* when no modem is booting and no thread has anything left to do, and at  *)
(* any other time as often as the budget of slow boots and slow threads    *)
(* says.                                                                   *)
(***************************************************************************)
Overdue ==
  /\ modem # "booting"
  /\ \A t \in Threads : pc[t] = "idle"
  /\ rd = "select" /\ Ready = {} /\ pipe = << >>

\* a mutation: the handler does not test the state
AlarmAnyState ==
  /\ ~down
  /\ armed
  /\ armed' = FALSE
  /\ IF Overdue THEN UNCHANGED left ELSE Spend("slow")
  /\ IF ~timer
     THEN pc["al"] = "idle" /\ UNCHANGED <<pc, timer>>
     ELSE Goto("al", "idle", "flush") /\ timer' = FALSE
  /\ UNCHANGED <<state, flags, locals, link, down>>
  /\ KeepCon

Alarm ==
  /\ ~down
  /\ armed
  /\ armed' = FALSE
  /\ IF Overdue THEN UNCHANGED left ELSE Spend("slow")
  /\ IF state = "ALIVE" \/ ~timer
     THEN pc["al"] = "idle" /\ UNCHANGED <<pc, timer>>
     ELSE Goto("al", "idle", "flush") /\ timer' = FALSE
  /\ UNCHANGED <<state, flags, locals, link, down>>
  /\ KeepCon

\* after 6 s for the logs: reboot the system, or report a modem that is not alive
AlarmDecides ==
  IF prop.reset /\ ~prop.sysdump
  THEN SetState("al", "flush", "sysrq", "REBOOT_SYS")
  ELSE SetState("al", "flush", "tellAssert", "ASSERT")

AliveTimeout == AlarmDecides \/ TellFrom("al", "tellAssert", "idle", "Assert") \/ Sysrq("al")

(***************************************************************************)
(* sp: modem_ctrl_listen_sp.  A read error and any other message leave the *)
(* loop body with `continue', the wake lock held.                          *)
(***************************************************************************)
ListenSpRead ==
  /\ ~down
  /\ Spawned
  /\ \/ /\ Spend("parm")
        /\ Goto("sp", "idle", IF prop.reset THEN "sysrq" ELSE "tellParm")
        /\ state' = IF prop.reset THEN "REBOOT_SYS" ELSE state
     \/ pc["sp"] = "idle" /\ Spend("ioerr") /\ UNCHANGED <<pc, state>>
  /\ wake' = TRUE
  /\ UNCHANGED <<timers, waitReset, panic, locals, link, down>>
  /\ KeepCon

ListenSp == TellFrom("sp", "tellParm", "unlock", "P-ARM Assert") \/ Unlock("sp") \/ Sysrq("sp")

(***************************************************************************)
(* A CP_CRASH uevent: the monitor starts a thread, in which                *)
(* modem_event_triger calls modem_event_panic_process.                     *)
(***************************************************************************)
PanicEvent(e) ==
  /\ modem # "off"
  /\ Goto(e, "idle", "panicked")
  /\ Spend("panic")
  /\ modem' = "dead"
  /\ UNCHANGED <<state, timers, flags, locals, dev, tty, zSent, down>>
  /\ KeepCon

SetMiniapPanic(e) ==
  /\ Goto(e, "panicked", "preState")
  /\ panic' = TRUE
  /\ UNCHANGED <<state, timers, waitReset, wake, locals, link, down, left>>
  /\ KeepCon

GetPreState(e) ==
  /\ Goto(e, "preState", "setPanic")
  /\ preState' = [preState EXCEPT ![e] = state]
  /\ UNCHANGED <<state, timers, flags, rfds, buf, cmd, link, down, left>>
  /\ KeepCon

PanicProcess(e) ==
  \/ SetMiniapPanic(e)
  \/ GetPreState(e)
  \/ SetState(e, "setPanic", IF preState[e] = "BLOCK" THEN "idle" ELSE "tellAssert", "ASSERT")
  \/ TellFrom(e, "tellAssert", "idle", "Assert")

-----------------------------------------------------------------------------
(***************************************************************************)
(* The modem.                                                              *)
(***************************************************************************)
KeepDaemon ==
  /\ ~down
  /\ UNCHANGED <<state, timers, flags, pc, locals, down>>
  /\ KeepCon

\* a boot takes longer than the few instructions from modem_ioctrl_start to
\* setitimer, unless the thread is slow; a modem the boot loader started may be early
SettingUp == pc["main"] = "booting" \/ pc["lc"] \in {"booting", "arm1", "arm2"}

ModemBoots ==
  /\ modem = "booting"
  /\ modem' = "up"
  /\ IF SettingUp THEN Spend("slow") ELSE UNCHANGED left
  /\ IF AliveDev = "tty" THEN tty' = TRUE /\ UNCHANGED dev
                          ELSE Write(AliveDev, "Alive") /\ UNCHANGED tty
  /\ UNCHANGED zSent
  /\ KeepDaemon

ModemAsserts ==
  /\ modem = "up"
  /\ Spend("crash")
  /\ modem' = "dead"
  /\ Write("assert", "Assert")
  /\ UNCHANGED <<tty, zSent>>
  /\ KeepDaemon

\* the modem answers 'z' with "Modem Reset", in time or late
ModemAnswers ==
  /\ zSent
  /\ modem = "dead"
  /\ zSent' = FALSE
  /\ Write("assert", "Reset")
  /\ UNCHANGED <<modem, tty, left>>
  /\ KeepDaemon

ClientBlocked == ~down /\ Spend("block") /\ ReadBlocked
                 /\ UNCHANGED <<state, timers, flags, pc, locals, link, down>>

\* the other steps of ModemConnect
Aside == ~down /\ UNCHANGED ctlVars

DumpWaits(w) == DumpWaiter(w) /\ Aside

Clients ==
  \/ ReadAgdsp /\ Aside
  \/ \E m \in Says : ReadOther(m) /\ Aside
  \/ Dispatch /\ Aside
  \/ \E w \in Waiters : DumpWaits(w)

Next ==
  \/ BootModem \/ ListenModem \/ ListenModemReadError \/ ListenClients
  \/ Alarm \/ AliveTimeout \/ ListenSpRead \/ ListenSp
  \/ \E e \in Panics : PanicEvent(e) \/ PanicProcess(e)
  \/ ModemBoots \/ ModemAsserts \/ ModemAnswers
  \/ ClientBlocked \/ Clients

Spec == Init /\ [][Next]_vars

(***************************************************************************)
(* Every thread of the daemon keeps running while the system is up, timers *)
(* expire, and a modem that boots gets there.  Nothing is assumed of the   *)
(* modem's answer to 'z', of clients and of panics.                        *)
(***************************************************************************)
Fairness ==
  /\ WF_vars(BootModem)
  /\ WF_vars(ListenModem)
  /\ WF_vars(ListenClients)
  /\ WF_vars(Alarm)
  /\ WF_vars(AliveTimeout)
  /\ WF_vars(ListenSp)
  /\ WF_vars(ModemBoots)
  /\ WF_vars(Dispatch /\ Aside)
  /\ \A e \in Panics : WF_vars(PanicProcess(e))
  /\ \A w \in Waiters : WF_vars(DumpWaits(w))

FairSpec == Spec /\ Fairness

-----------------------------------------------------------------------------
\* a thread between the decision that the modem is alive and saying so in g_modem_state
SayingAlive == \E t \in {"main", "lm", "lc"} : pc[t] \in {"stopA1", "stopA2", "setAlive"}

\* a thread that loads the modem or sets up the wait for it
Loading == \E t \in Boots : pc[t] \in {"booting", "arm1", "arm2"}

(***************************************************************************)
(* A modem that was started is never left unwatched: whenever the state is *)
(* BOOTING and no thread is still setting up the wait, the alive timer     *)
(* runs, or its handler has taken over, or a thread is about to declare    *)
(* the modem alive.  start_ and stop_wait_alive_timer share one struct and *)
(* run in different threads without a lock.                                *)
(***************************************************************************)
BootIsSupervised ==
  state = "BOOTING" =>
    Loading \/ (armed /\ timer) \/ pc["al"] = "flush" \/ SayingAlive

(***************************************************************************)
(* Why it holds, as an inductive invariant: lc waits for main's load; once *)
(* lc has passed the guard the state is not BOOTING until its own load     *)
(* says so; and from then on, when the time is not set or the timer does   *)
(* not run, the thread that saw to that will take the state out of BOOTING.*)
(***************************************************************************)
Resetting == {"prepare", "diag", "poll", "stop1", "stop2", "reboot", "load", "start",
              "booting"}

LoadsFirst == ~Spawned => pc["lc"] = "idle"

ResetIsNotBooting == pc["lc"] \in Resetting => state # "BOOTING"

LeavesBooting == pc["al"] = "flush" \/ SayingAlive

TimeIsSet ==
  state = "BOOTING" /\ ~timer => (\E t \in Boots : pc[t] = "arm1") \/ LeavesBooting

TimerRuns ==
  state = "BOOTING" /\ timer /\ ~armed =>
    (\E t \in Boots : pc[t] \in {"arm1", "arm2"}) \/ LeavesBooting

Supervision == LoadsFirst /\ ResetIsNotBooting /\ TimeIsSet /\ TimerRuns

(***************************************************************************)
(* With MODEM_RESET set, a modem that crashed runs again or the system is  *)
(* rebooted, whether its dump is awaited or not and however often it fails *)
(* to boot: the assert, the dump waiter, the pipe, the guard, the reload   *)
(* and the alive timer hand the recovery on without dropping it.           *)
(***************************************************************************)
CrashIsRecovered == prop.reset /\ modem = "dead" ~> modem = "up" \/ down

(***************************************************************************)
(* A crash is reported once: the alive message and the assert come over    *)
(* one device, neither a client nor a uevent reports it too, and no boot   *)
(* takes so long that the timer expires before its alive message.          *)
(***************************************************************************)
OneReporter ==
  AliveDev = "assert" /\ \A b \in Budgets : \A u \in {"block", "panic", "slow"} : b[u] = 0

(***************************************************************************)
(* listen_clients does not reload a modem that is up: what one crash left  *)
(* in the pipe or in the device does not reset its successor, if neither a *)
(* dump nor a handshake delays the reset and a crash has one reporter.     *)
(***************************************************************************)
HealthyModemIsKept ==
  OneReporter /\ ~prop.dump /\ ~prop.modemOnly
    /\ pc["lc"] \in {"stop1", "stop2", "reboot", "load"} => modem # "up"

(***************************************************************************)
(* Why it holds.  The report of a crash is in one place at a time: in the  *)
(* device, in what lm read, with the handler of the timer, in the pipe or  *)
(* with lc; meanwhile the modem is down, and lc ends it by a load.         *)
(***************************************************************************)
InDev(m) == \E i \in DOMAIN dev["assert"] : dev["assert"][i] = m

Asserted == InDev("Assert")

Heard == /\ pc["lm"] \in {"stopA1", "stopA2", "setAlive", "tellAlive", "setAssert", "tellAssert"}
         /\ "Assert" \in buf

TimedOut == pc["al"] \in {"flush", "tellAssert"}

Asked == pipe # << >>

Acting == pc["lc"] \in {"block", "guard", "prepare", "stop1", "stop2", "reboot", "load"}

OneReport ==
  /\ Asserted \/ Heard \/ TimedOut \/ Asked \/ Acting => modem \in {"dead", "stuck"}
  /\ Asserted => ~(Heard \/ TimedOut \/ Asked \/ Acting)
  /\ Heard => ~(TimedOut \/ Asked \/ Acting)
  /\ TimedOut => ~(Asked \/ Acting)
  /\ Asked => ~Acting

\* a modem that asserted writes nothing more
AssertIsLast ==
  \A i \in DOMAIN dev["assert"] : dev["assert"][i] = "Assert" => i = Len(dev["assert"])

\* the load keeps the modem off until it starts it
LoadStages ==
  /\ modem = "off" <=> (pc["main"] \in {"load", "start"} \/ pc["lc"] = "start")
  /\ \A t \in Boots : pc[t] = "booting" => modem \in {"booting", "stuck"}

\* the timer cannot take a modem that is up for one that is not
UpIsKnown ==
  modem = "up" =>
    \/ state = "ALIVE"
    \/ InDev("Alive")
    \/ pc["lm"] \in {"stopA1", "stopA2", "setAlive"}
    \/ pc["sp"] = "sysrq"

\* what needs a client, a uevent, a dump or a handshake does not happen
Undisturbed ==
  /\ \A u \in {"block", "panic", "slow"} : left[u] = 0
  /\ rd = "select" /\ ~laterReset /\ ~zSent
  /\ \A w \in Waiters : waiter[w] = "none"
  /\ \A e \in Panics : pc[e] = "idle"
  /\ rfds = {"assert"}
  /\ "Reset" \notin buf /\ ~InDev("Reset")
  /\ pc["lc"] \notin {"diag", "poll"}
  /\ pc["lm"] \notin {"setReset", "tellReset", "clearFlag"}
  /\ pc["lm"] \in {"setAssert", "tellAssert"} => "Assert" \in buf

Reported == Undisturbed /\ LoadStages /\ OneReport /\ AssertIsLast /\ UpIsKnown

ReportInv == OneReporter /\ ~prop.dump /\ ~prop.modemOnly => Reported

(***************************************************************************)
(* "set all valid fd" ... "listen assert" (modem_ctrl_listen_modem): what  *)
(* the modem writes to the assert device is read.                          *)
(***************************************************************************)
AssertIsHeard == dev["assert"] # << >> ~> dev["assert"] = << >> \/ down
=============================================================================
