---------------------------- MODULE EventMonitor ----------------------------
(***************************************************************************)
(* Kernel uevents (eventmonitor.c, modem_event.c) and what hangs on them   *)
(* with FEATURE_PCIE_RESCAN: removing the modem's PCIe endpoint and its    *)
(* bridge and rescanning the bus (modem_pcie_control.c), which threads of  *)
(* the monitor do after a panic of the modem, listen_clients (lc) in       *)
(* modem_reboot_all_modem, and load_modem_img in the middle of a load, and *)
(* which makes uevents of its own.                                         *)
(*                                                                         *)
(* The monitor parses a uevent in a buffer on its stack and starts a       *)
(* thread.  The thread gets a copy of MODEM_STAT, but pointers into the    *)
(* buffer for ACTION and DEVPATH, which the next uevent overwrites.        *)
(***************************************************************************)
EXTENDS Naturals, Sequences

CONSTANTS
  Handlers,  \* threads that can exist at once (uevent_handle_thread)
  Budget     \* how often the environment may do each thing

\* ep: the endpoint's file cannot be given away or written to; bus: the bridge's cannot,
\* or the write that rescans fails, or what was removed is not found again
Happens == {"uevent", "reboot", "nothread", "ep", "bus"}
ASSUME BudgetAssumption   == Budget \in [Happens -> Nat]
ASSUME HandlersAssumption == "lc" \notin Handlers

Subsystems == {"modem_ctrl", "pci", "other"}
Uevents == [ep: BOOLEAN, sub: Subsystems, act: {"change", "add", "remove"},
            stat: {"WARM_RESET", "CP_CRASH", "none"}]

Threads == Handlers \cup {"lc"}

VARIABLES
  queue,    \* uevents that the monitor has not received
  pc,       \* where each thread stands
  info,     \* the uevent a handler was started for; its stat is a copy
  later,    \* the uevents that the monitor has received into the same buffer since, as
            \* long as the handler still looks at it
  inload,   \* lc's rescan is the one of load_modem_img
  ep,       \* the endpoint's remove file: absent, or whose it is
  bridge,   \* the bridge's
  overlap,  \* history: two threads rescanned at the same time
  missed,   \* history: a uevent was dropped, or its handler read another one's text
  left      \* what is left of Budget

vars == <<queue, pc, info, later, inload, ep, bridge, overlap, missed, left>>
pci  == <<ep, bridge, overlap>>

Files  == {"absent", "root", "system"}
Rescan == {"own1", "own2", "rmEp", "rmBridge", "rescan", "enum"}
Labels == Rescan \cup {"idle", "action", "path", "chown1", "chown2", "spl", "panic", "load", "end"}

TypeOK ==
  /\ queue \in Seq(Uevents)
  /\ pc \in [Threads -> Labels]
  /\ info \in [Threads -> Uevents]
  /\ later \in [Threads -> SUBSET Uevents]
  /\ inload \in BOOLEAN
  /\ ep \in Files
  /\ bridge \in Files
  /\ overlap \in BOOLEAN
  /\ missed \in BOOLEAN
  /\ left \in [Happens -> Nat] /\ \A what \in Happens : left[what] <= Budget[what]

Uevent(sub, act, stat, isEp) == [ep |-> isEp, sub |-> sub, act |-> act, stat |-> stat]

Nothing == Uevent("other", "change", "none", FALSE)

\* modem_pcie_init found the endpoint and its bridge, and made the files its own; at boot
\* the load is main's, before listen_clients exists
Init ==
  /\ queue = << >>
  /\ \E boot \in {"idle", "load"} : pc = [t \in Threads |-> IF t = "lc" THEN boot ELSE "idle"]
  /\ info = [t \in Threads |-> Nothing]
  /\ later = [t \in Threads |-> {}]
  /\ inload = FALSE
  /\ ep = "system"
  /\ bridge = "system"
  /\ overlap = FALSE
  /\ missed = FALSE
  /\ left = Budget

Spend(what) == left[what] > 0 /\ left' = [left EXCEPT ![what] = @ - 1]
Failed(what) == left[what] < Budget[what]

Looking == {"action", "path"}

\* thread t goes on; at the end of a handler its info is freed
Goto(t, from, to) ==
  /\ pc[t] = from
  /\ pc' = [pc EXCEPT ![t] = to]
  /\ info' = [info EXCEPT ![t] = IF to = "idle" THEN Nothing ELSE @]
  /\ later' = [later EXCEPT ![t] = IF to \in Looking THEN @ ELSE {}]

-----------------------------------------------------------------------------
(***************************************************************************)
(* The kernel sends uevents; others' come at any time.                     *)
(***************************************************************************)
KernelSends(e) ==
  /\ Spend("uevent")
  /\ queue' = Append(queue, e)
  /\ UNCHANGED <<pc, info, later, inload, missed, pci>>

Kernel ==
  \/ KernelSends(Uevent("modem_ctrl", "change", "WARM_RESET", FALSE))
  \/ KernelSends(Uevent("modem_ctrl", "change", "CP_CRASH", FALSE))
  \/ KernelSends(Nothing)

(***************************************************************************)
(* uevent_monitor_thread: receive, parse, look the client up, start a      *)
(* thread.  Two clients are registered, modem_ctrl and pci.                *)
(***************************************************************************)
Registered == {"modem_ctrl", "pci"}

\* the next uevent is received into msg, where the handlers' pointers lead
Receive ==
  /\ queue # << >>
  /\ queue' = Tail(queue)
  /\ later' = [t \in Threads |->
                IF pc[t] \in Looking THEN later[t] \cup {Head(queue)} ELSE {}]

\* a uevent for nobody, or one that is too long, has no memory for its info or no thread
Discard ==
  /\ Receive
  /\ IF Head(queue).sub \in Registered
     THEN Spend("nothread") /\ missed' = TRUE
     ELSE UNCHANGED <<left, missed>>
  /\ UNCHANGED <<pc, info, inload, pci>>

Dispatch(h) ==
  /\ Receive
  /\ Head(queue).sub \in Registered
  /\ pc[h] = "idle"
  /\ pc' = [pc EXCEPT ![h] = "action"]
  /\ info' = [info EXCEPT ![h] = Head(queue)]
  /\ UNCHANGED <<inload, missed, pci, left>>

-----------------------------------------------------------------------------
(***************************************************************************)
(* What strcmp(info->action, a) and strstr(info->path, dev) find behind    *)
(* the pointers: the handler's own words as long as nothing was received   *)
(* since.  Afterwards they are there still (the later uevent was shorter), *)
(* or one that was received since has its own there, or none has.          *)
(***************************************************************************)
Behind(h, own, others) == IF later[h] = {} THEN {own} ELSE {FALSE, own} \cup others

ActionIs(h, a) == Behind(h, info[h].act = a, {(e.act = a) : e \in later[h]})
PathIsEp(h)    == Behind(h, info[h].ep, {e.ep : e \in later[h]})

\* modem_event_triger
ModemEventTriger(h) ==
  /\ info[h].sub = "modem_ctrl"
  /\ \E change \in ActionIs(h, "change") :
       /\ Goto(h, "action", IF ~change THEN "idle"
                            ELSE CASE info[h].stat = "WARM_RESET" -> "spl"
                                   [] info[h].stat = "CP_CRASH" -> "panic"
                                   [] OTHER -> "idle")
       /\ missed' = (missed \/ change # (info[h].act = "change"))
  /\ UNCHANGED <<queue, inload, pci, left>>

\* a mutation: the files change hands when the bridge comes back
PcieEventBridge(h) ==
  /\ info[h].sub = "pci"
  /\ \/ \E add \in ActionIs(h, "add") :
          /\ Goto(h, "action", IF add THEN "path" ELSE "idle")
          /\ missed' = (missed \/ add # (info[h].act = "add"))
     \/ \E isEp \in PathIsEp(h) :
          /\ Goto(h, "path", IF isEp THEN "idle" ELSE "chown1")
          /\ missed' = (missed \/ isEp # info[h].ep)
  /\ UNCHANGED <<queue, inload, pci, left>>

\* modem_pcie_event: "if the ep device path has been add, all the paths have been add"
PcieEvent(h) ==
  /\ info[h].sub = "pci"
  /\ \/ \E add \in ActionIs(h, "add") :
          /\ Goto(h, "action", IF add THEN "path" ELSE "idle")
          /\ missed' = (missed \/ add # (info[h].act = "add"))
     \/ \E isEp \in PathIsEp(h) :
          /\ Goto(h, "path", IF isEp THEN "chown1" ELSE "idle")
          /\ missed' = (missed \/ isEp # info[h].ep)
  /\ UNCHANGED <<queue, inload, pci, left>>

\* load_spl_img (ModemLoad) and the thread's end
LoadSpl(h) == Goto(h, "spl", "idle") /\ UNCHANGED <<queue, inload, missed, pci, left>>

Rescanning == {t \in Threads : pc[t] \in Rescan}

BeginRescan(t, from) ==
  /\ Goto(t, from, "own1")
  /\ overlap' = (overlap \/ Rescanning # {})
  /\ UNCHANGED <<queue, ep, bridge, missed>>

\* modem_event_panic_process (ModemCtrl) and then the rescan
Panic(h) == BeginRescan(h, "panic") /\ UNCHANGED <<inload, left>>

Handle(h) == ModemEventTriger(h) \/ PcieEvent(h) \/ LoadSpl(h) \/ Panic(h)

-----------------------------------------------------------------------------
(***************************************************************************)
(* modem_rescan_ep_device.  The daemon is the user system and may change   *)
(* owners (CAP_CHOWN); it can write only to files of its own.  The file of *)
(* the rescan itself does not come and go, and is the daemon's since       *)
(* modem_pcie_init.                                                        *)
(***************************************************************************)
\* a mutation: the file is given to another user
OwnedByRadio(f) == IF f = "absent" THEN f ELSE "radio"

Owned(f) == IF f = "absent" THEN f ELSE "system"

\* chown of the endpoint's file and of the bridge's: an error is logged
ChownEp ==
  /\ \/ ep' = Owned(ep) /\ UNCHANGED left
     \/ Spend("ep") /\ UNCHANGED ep
  /\ UNCHANGED bridge

ChownBridge ==
  /\ \/ bridge' = Owned(bridge) /\ UNCHANGED left
     \/ Spend("bus") /\ UNCHANGED bridge
  /\ UNCHANGED ep

\* modem_chane_ep_device_owner, called by a rescan or by modem_pcie_event
ChangeOwner(t) ==
  /\ \/ (Goto(t, "own1", "own2") \/ Goto(t, "chown1", "chown2")) /\ ChownEp
     \/ (Goto(t, "own2", "rmEp") \/ Goto(t, "chown2", "idle")) /\ ChownBridge
  /\ UNCHANGED <<queue, overlap>>

\* a rescan is over: a handler is done, load_modem_img gives up if it failed, and
\* modem_reboot_all_modem tries until it succeeds
Over(t, from, ok) ==
  Goto(t, from, IF t # "lc" THEN "idle"
                ELSE IF inload THEN "end"
                ELSE IF ok THEN "load" ELSE "own1")

\* a write fails because the file is not the daemon's, or for another reason
WriteFails(file, what) == (file # "system" /\ UNCHANGED left) \/ Spend(what)

Send(acts) == queue' = queue \o acts

Gone(isEp) == Uevent("pci", "remove", "none", isEp)
Back(isEp) == Uevent("pci", "add", "none", isEp)

\* a mutation: the bridge is removed first, and the endpoint goes with it
RemoveEpBridgeFirst(t) ==
  /\ pc[t] = "rmEp"
  /\ IF bridge = "system"
     THEN bridge' = "absent" /\ ep' = "absent" /\ Send(<<Gone(FALSE)>>)
          /\ Goto(t, "rmEp", "rmBridge")
     ELSE Over(t, "rmEp", FALSE) /\ UNCHANGED <<ep, bridge, queue>>
  /\ UNCHANGED <<overlap, left>>

RemoveEp(t) ==
  /\ pc[t] = "rmEp"
  /\ \/ /\ ep = "system"
        /\ ep' = "absent"
        /\ Send(<<Gone(TRUE)>>)
        /\ Goto(t, "rmEp", "rmBridge")
        /\ UNCHANGED left
     \/ /\ WriteFails(ep, "ep")
        /\ Over(t, "rmEp", FALSE)
        /\ UNCHANGED <<ep, queue>>
  /\ UNCHANGED <<bridge, overlap>>

\* the bridge takes an endpoint that has come back with it
RemoveBridge(t) ==
  /\ pc[t] = "rmBridge"
  /\ \/ /\ bridge = "system"
        /\ bridge' = "absent"
        /\ ep' = "absent"
        /\ Send(IF ep = "absent" THEN <<Gone(FALSE)>> ELSE <<Gone(TRUE), Gone(FALSE)>>)
        /\ Goto(t, "rmBridge", "rescan")
        /\ UNCHANGED left
     \/ /\ WriteFails(bridge, "bus")
        /\ Over(t, "rmBridge", FALSE)
        /\ UNCHANGED <<ep, bridge, queue>>
  /\ UNCHANGED overlap

\* the write fails, or nothing is found, or the bridge is there again, with root's file ...
RescanBus(t) ==
  /\ pc[t] = "rescan"
  /\ \/ /\ bridge' = IF bridge = "absent" THEN "root" ELSE bridge
        /\ Send(IF bridge = "absent" THEN <<Back(FALSE)>> ELSE << >>)
        /\ Goto(t, "rescan", "enum")
        /\ UNCHANGED left
     \/ /\ Spend("bus")
        /\ \E ok \in BOOLEAN : Over(t, "rescan", ok)
        /\ UNCHANGED <<bridge, queue>>
  /\ UNCHANGED <<ep, overlap>>

\* ... and then, if its link comes up, the endpoint behind it
EnumerateEp(t) ==
  /\ \/ /\ ep = "absent" /\ bridge # "absent"
        /\ ep' = "root"
        /\ Send(<<Back(TRUE)>>)
        /\ UNCHANGED left
     \/ /\ ep # "absent" \/ bridge = "absent"
        /\ UNCHANGED <<ep, queue, left>>
     \/ Spend("bus") /\ UNCHANGED <<ep, queue>>
  /\ Over(t, "enum", TRUE)
  /\ UNCHANGED <<bridge, overlap>>

RescanEpDevice(t) ==
  /\ ChangeOwner(t) \/ RemoveEp(t) \/ RemoveBridge(t) \/ RescanBus(t) \/ EnumerateEp(t)
  /\ UNCHANGED <<inload, missed>>

\* modem_reboot_all_modem; the load that follows is the subject of ModemLoad
RebootAllModem ==
  /\ Spend("reboot")
  /\ BeginRescan("lc", "idle")
  /\ UNCHANGED inload

\* load_modem_img rescans itself when the modem's head has made it set a BAR
LoadRescans ==
  /\ BeginRescan("lc", "load")
  /\ inload' = TRUE
  /\ UNCHANGED left

Loaded ==
  /\ Goto("lc", "load", "idle") \/ Goto("lc", "end", "idle")
  /\ inload' = FALSE
  /\ UNCHANGED <<queue, missed, pci, left>>

Next ==
  \/ Kernel
  \/ Discard
  \/ \E h \in Handlers : Dispatch(h) \/ Handle(h)
  \/ \E t \in Threads : RescanEpDevice(t)
  \/ RebootAllModem
  \/ LoadRescans
  \/ Loaded

Spec == Init /\ [][Next]_vars

\* the threads run
FairSpec ==
  /\ Spec
  /\ \A t \in Threads : WF_vars(RescanEpDevice(t))
  /\ \A h \in Handlers : WF_vars(Handle(h))
  /\ WF_vars(Loaded)

-----------------------------------------------------------------------------
(***************************************************************************)
(* A rescan that runs by itself leaves the endpoint on the bus: it is      *)
(* absent only between its removal and the rescan, whichever of its three  *)
(* callers rescans, whatever handlers change owners meanwhile and however  *)
(* often the endpoint's own file cannot be given away or written to.  It   *)
(* can be lost when the bus fails, and when two rescan at a time: one      *)
(* removes the endpoint when the other has changed the owner of its file,  *)
(* but not yet of the bridge's.                                            *)
(***************************************************************************)
EpComesBack ==
  ~overlap /\ ~Failed("bus") /\ (ep = "absent" \/ bridge = "absent") =>
    \E t \in Threads : pc[t] \in {"rmBridge", "rescan", "enum"}

(***************************************************************************)
(* "if the ep device path has been add, all the paths have been add"       *)
(* (modem_pcie_event): when the rescans' uevents are all handled, the      *)
(* files that came back as root's are the daemon's again, although only    *)
(* the endpoint's uevent is acted upon, and the bridge's file is changed   *)
(* by it as well.  It takes that no uevent was missed and no chown failed; *)
(* rescans may overlap.                                                    *)
(***************************************************************************)
FilesAreOurs ==
  /\ queue = << >>
  /\ \A h \in Handlers : pc[h] = "idle"
  /\ Rescanning = {}
  /\ ~missed /\ ~Failed("ep") /\ ~Failed("bus")
  => ep # "root" /\ bridge # "root"

(***************************************************************************)
(* "if rescan ep failed, can't load, continue rescan"                      *)
(* (modem_reboot_all_modem): the loop ends and the modem is loaded,        *)
(* however often the endpoint's file cannot be given away or written to,   *)
(* unless rescans overlapped or the bus failed.                            *)
(***************************************************************************)
RebootLoads ==
  pc["lc"] = "own1" /\ ~inload ~> pc["lc"] = "load" \/ overlap \/ Failed("bus")

-----------------------------------------------------------------------------
(***************************************************************************)
(* The inductive invariant for EpComesBack.  As long as rescans have not   *)
(* overlapped, one thread at a time rescans, and as long as the bus has    *)
(* not failed, what it is about to write to is there and the bridge's file *)
(* its own before the endpoint is removed; a uevent handler that changes   *)
(* owners meanwhile can only give the files to the same user.              *)
(***************************************************************************)
OneRescan == ~overlap => \A t, u \in Rescanning : t = u

FilesReady ==
  ~overlap /\ ~Failed("bus") =>
    \A t \in Threads :
      /\ pc[t] \in {"own1", "own2"} => ep # "absent" /\ bridge # "absent"
      /\ pc[t] = "rmEp" => ep # "absent" /\ bridge = "system"
      /\ pc[t] = "rmBridge" => bridge = "system"
      /\ pc[t] = "enum" => bridge # "absent"

RescanInv == TypeOK /\ OneRescan /\ FilesReady /\ EpComesBack

(***************************************************************************)
(* For FilesAreOurs: a file of root's is one whose change of owner is      *)
(* still to come, in a uevent of the endpoint that waits in the queue or   *)
(* has a handler, or, for the bridge, one that will be sent.               *)
(***************************************************************************)
Coming(labels) ==
  \/ \E i \in 1..Len(queue) : queue[i] = Back(TRUE)
  \/ \E h \in Handlers : info[h] = Back(TRUE) /\ pc[h] \in labels

OwnersInv ==
  /\ bridge = "absent" => ep = "absent"
  /\ ~missed /\ ~Failed("ep") /\ ~Failed("bus") =>
       /\ ep = "root" => Coming({"action", "path", "chown1"})
       /\ bridge = "root" =>
            \/ Coming({"action", "path", "chown1", "chown2"})
            \/ ep = "absent" /\ \E t \in Threads : pc[t] = "enum"
=============================================================================
