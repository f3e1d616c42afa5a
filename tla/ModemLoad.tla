----------------------------- MODULE ModemLoad -----------------------------
(***************************************************************************)
(* Loading the external modem (modem_load.c, FEATURE_EXTERNAL_MODEM, with  *)
(* the ioctl interface of modem_io_control.c): load_modem_img, which main  *)
(* and then listen_clients run, and load_spl_img, which a thread per       *)
(* WARM_RESET uevent runs at the same time.  They share the devices' write *)
(* locks, the region the next write goes to, the bus monitor and the word  *)
(* of flags through which daemon and modem signal progress to each other.  *)
(***************************************************************************)
EXTENDS Integers, Sequences, FiniteSetsExt

CONSTANTS
  Warms,     \* threads that handle a WARM_RESET uevent
  CpTable,   \* cp_load_info.load_table: records [flags, kind]
  Budget     \* how often the environment may do each thing

(***************************************************************************)
(* An entry's kind says how it is loaded: "image" by modem_load_image,     *)
(* whose result counts; "data" (NV, cmdline) and "code" (boot code) by     *)
(* writers of their own, whose results do not.  The writer of the boot     *)
(* code leaves the bus monitor alone.  Entries of size 0 are not listed.   *)
(***************************************************************************)
ImgFlags == {"SPL", "SML", "UBOOT", "BOOT", "HEAD", "MODEM", "DSP", "OTHER", "ADSP"}
Entries  == DOMAIN CpTable

ASSUME TableAssumption ==
  CpTable \in Seq([flags: SUBSET ImgFlags, kind: {"image", "data", "code"}])

\* image, spl: a copy fails; ddr: the modem does not answer; region, clear, ioctl: an ioctl
\* fails that sets the region, clears the flags, or sets or gets them; rescan: of the bus
Events == {"load", "warm", "image", "spl", "ddr", "region", "clear", "ioctl", "rescan"}
ASSUME BudgetAssumption == Budget \in [Events -> Nat]
ASSUME WarmsAssumption == "ld" \notin Warms /\ "free" \notin Warms

VARIABLES
  pc,       \* where each thread stands: a phase of the load
  type,     \* load_type of load_modem_img
  start,    \* start_img of load_modem_img
  at,       \* the loop index of load_img_from_table, per thread
  io,       \* what that loop does with the entry: pick, open, copy
  err,      \* ret # 0 in that loop
  lock,     \* who took the write lock of each device last, or "free"
  region,   \* the cp region that the kernel will write to, 0 before one was set
  mem,      \* the modem's memory: the entry each region holds, 0 for none
  flags,    \* the remote flags
  warm,     \* history: the flags are those of load_spl_img
  ddr,      \* the modem's DDR works
  running,  \* the modem has been started
  bus,      \* the bus monitor (and the DMC MPU) watches
  wake,     \* load_modem_img holds the wake lock
  state,    \* g_modem_state, as far as load_modem_img sets it
  gaveup,   \* history: a load or a handler returned without giving its lock back
  left      \* what is left of Budget

loop   == <<at, io, err>>
remote == <<flags, warm, ddr, running>>
vars == <<pc, type, start, at, io, err, lock, region, mem, flags, warm, ddr, running, bus,
          wake, state, gaveup, left>>

Threads == {"ld"} \cup Warms
Devices == {"sp", "dp", "cp"}
Types   == {"SP", "MODEM", "DP", "MINIAP", "AGDSP"}    \* bits of load_type

LOADL_ALL_EXTERNAL_IMG == Types \ {"SP"}
LOAD_ALL_IMG           == Types
LOAD_MODEM_IMG         == {"MODEM"}

\* MODEM_IMAGE_DONE_FLAG and MODEM_WARM_RESET_FLAG are the same bit
Flags == {"DDR", "BIT1", "UBOOT", "BOOT", "HEAD", "SPL"}

\* the calls of load_modem_img that do something, in their order
Phases == <<"spStop", "sp", "spStart", "dpStop", "cpStop", "dp", "clear", "spl", "wait",
            "audio", "uboot", "boot", "head", "bar", "modem", "dpStart", "cpStart", "finish">>
Tables   == {"sp", "dp", "spl", "audio", "uboot", "boot", "head", "modem"}
CpTables == Tables \ {"sp", "dp"}
Labels == Range(Phases) \cup {"idle", "boot!", "lock", "relock", "unlock"}

Remaining == {f \in [Events -> Nat] : \A e \in Events : f[e] <= Budget[e]}

TypeOK ==
  /\ pc \in [Threads -> Labels]
  /\ type \in SUBSET Types
  /\ start \in SUBSET Types
  /\ at \in [Threads -> Nat]
  /\ io \in [Threads -> {"pick", "open", "copy"}]
  /\ err \in [Threads -> BOOLEAN]
  /\ lock \in [Devices -> Threads \cup {"free"}]
  /\ region \in {0} \cup Entries
  /\ mem \in [Entries -> {0} \cup Entries]
  /\ flags \in SUBSET Flags
  /\ warm \in BOOLEAN
  /\ ddr \in BOOLEAN
  /\ running \in BOOLEAN
  /\ bus \in BOOLEAN
  /\ wake \in BOOLEAN
  /\ state \in {"other", "LOADING", "BOOTING"}
  /\ gaveup \in BOOLEAN
  /\ left \in Remaining

Init ==
  /\ \E on \in BOOLEAN :    \* the boot loader started the modem, or main will
       /\ pc = [t \in Threads |-> IF t = "ld" /\ ~on THEN "boot!" ELSE "idle"]
       /\ mem = [i \in Entries |-> IF on THEN i ELSE 0]
       /\ ddr = on
       /\ running = on
  /\ type = {}
  /\ start = {}
  /\ at = [t \in Threads |-> 1]
  /\ io = [t \in Threads |-> "pick"]
  /\ err = [t \in Threads |-> FALSE]
  /\ lock = [d \in Devices |-> "free"]
  /\ region = 0
  /\ flags = {}
  /\ warm = FALSE
  /\ bus = TRUE
  /\ wake = FALSE
  /\ state = "other"
  /\ gaveup = FALSE
  /\ left = Budget

Spend(what)  == left[what] > 0 /\ left' = [left EXCEPT ![what] = @ - 1]
Failed(what) == left[what] < Budget[what]

-----------------------------------------------------------------------------
(***************************************************************************)
(* The kernel's side of the ioctls.                                        *)
(***************************************************************************)
\* modem_lock_write: blocks while the lock is taken; locks outlive the open file
LockWrite(t, d)   == lock[d] = "free" /\ lock' = [lock EXCEPT ![d] = t]
UnlockWrite(d) == lock' = [lock EXCEPT ![d] = "free"]

\* modem_set_remote_flag: 0 clears the word; whether other values are added to the
\* word or replace it is the driver's choice.  No caller looks at the result
SetRemoteFlag(fs) ==
  \/ flags' \in (IF fs = {} THEN {{}} ELSE {fs, flags \cup fs}) /\ UNCHANGED left
  \/ Spend(IF fs = {} THEN "clear" ELSE "ioctl") /\ UNCHANGED flags

-----------------------------------------------------------------------------
(***************************************************************************)
(* load_img_from_table.                                                    *)
(***************************************************************************)
LoadFlags(p) ==
  CASE p = "spl"   -> {"SPL"}
    [] p = "audio" -> {"ADSP"}
    [] p = "uboot" -> {"SML", "UBOOT"}
    [] p = "boot"  -> {"BOOT"}
    [] p = "head"  -> {"HEAD"}
    [] p = "modem" -> {"HEAD", "MODEM", "DSP", "OTHER"}

SkipFlags(p) == IF p = "modem" THEN {"HEAD"} ELSE {}

Wanted(p, i) == /\ CpTable[i].flags \cap SkipFlags(p) = {}
                /\ CpTable[i].flags \cap LoadFlags(p) # {}

\* the first entry from i on to load; the tables of sp and dp have one entry, 1
Entry(p, i) ==
  IF p \in {"sp", "dp"} THEN i
  ELSE Min({j \in Entries : j >= i /\ Wanted(p, j)} \cup {Len(CpTable) + 1})

\* a mutation: the walk goes one entry too far
EndPast(p) == IF p \in {"sp", "dp"} THEN 3 ELSE Len(CpTable) + 2

End(p) == IF p \in {"sp", "dp"} THEN 2 ELSE Len(CpTable) + 1

\* thread t goes on to phase p; a table is walked from its first wanted entry
Enter(t, p) ==
  /\ pc' = [pc EXCEPT ![t] = p]
  /\ at' = [at EXCEPT ![t] = IF p \in Tables THEN Entry(p, 1) ELSE 1]
  /\ io' = [io EXCEPT ![t] = "pick"]
  /\ err' = [err EXCEPT ![t] = FALSE]

Walking(t) == pc[t] \in Tables /\ at[t] < End(pc[t])
OnCp(t)    == pc[t] \notin {"sp", "dp"}
Guarded(t) == OnCp(t) => CpTable[at[t]].kind # "code"
Checked(t) == OnCp(t) /\ CpTable[at[t]].kind = "image"

\* modem_set_write_region; if it fails the write goes to the region that was set before
SelectRegion(t) ==
  /\ Walking(t)
  /\ io[t] = "pick"
  /\ io' = [io EXCEPT ![t] = "open"]
  /\ \/ region' = (IF OnCp(t) THEN at[t] ELSE region) /\ UNCHANGED left
     \/ OnCp(t) /\ Spend("region") /\ UNCHANGED region
  /\ UNCHANGED <<pc, type, start, at, err, lock, mem, remote, bus, wake, state, gaveup>>

ToMem(t) == OnCp(t) /\ region # 0

\* modem_load_image: the bus monitor is off while the copy overwrites the region
CopyBegin(t) ==
  /\ Walking(t)
  /\ io[t] = "open"
  /\ io' = [io EXCEPT ![t] = "copy"]
  /\ bus' = (bus /\ ~Guarded(t))
  /\ mem' = IF ToMem(t) THEN [mem EXCEPT ![region] = 0] ELSE mem
  /\ UNCHANGED <<pc, type, start, at, err, lock, region, remote, wake, state, gaveup, left>>

\* its end; a failed copy of an image counts, and the loop goes on all the same
CopyEnd(t) ==
  /\ Walking(t)
  /\ io[t] = "copy"
  /\ io' = [io EXCEPT ![t] = "pick"]
  /\ at' = [at EXCEPT ![t] = Entry(pc[t], @ + 1)]
  /\ bus' = (bus \/ Guarded(t))
  /\ \/ /\ mem' = IF ToMem(t) THEN [mem EXCEPT ![region] = at[t]] ELSE mem
        /\ UNCHANGED <<err, left>>
     \/ /\ Spend(IF pc[t] = "spl" THEN "spl" ELSE "image")
        /\ err' = [err EXCEPT ![t] = @ \/ Checked(t)]
        /\ UNCHANGED mem
  /\ UNCHANGED <<pc, type, start, lock, region, remote, wake, state, gaveup>>

TableWalked(t, p) == pc[t] = p /\ ~Walking(t) /\ io[t] = "pick"

LoadImages(t) == SelectRegion(t) \/ CopyBegin(t) \/ CopyEnd(t)

-----------------------------------------------------------------------------
(***************************************************************************)
(* load_modem_img.                                                         *)
(***************************************************************************)
Needed(p, ty, st) ==
  \/ p \in {"spStop", "sp", "spStart"} /\ "SP" \in ty
  \/ p \in {"dpStop", "dpStart"} /\ "DP" \in st
  \/ p \in {"cpStop", "cpStart"} /\ st \cap {"MODEM", "MINIAP"} # {}
  \/ p = "dp" /\ "DP" \in ty
  \/ p = "clear" /\ ty # {}
  \/ p \in {"spl", "uboot", "boot", "head"} /\ "MINIAP" \in ty
  \/ p = "audio" /\ "AGDSP" \in ty
  \/ p = "modem" /\ "MODEM" \in ty
  \/ p = "finish"

Place(p) == CHOOSE i \in DOMAIN Phases : Phases[i] = p

\* the next call to be made after phase p
After(p, ty, st) ==
  Phases[Min({i \in DOMAIN Phases : i > Place(p) /\ Needed(Phases[i], ty, st)})]

\* entry: start_img = load_type without the SP, which is started on its own
Begin(ty) ==
  /\ type' = ty
  /\ start' = ty \ {"SP"}
  /\ wake' = TRUE
  /\ state' = "LOADING"
  /\ Enter("ld", IF "SP" \in ty THEN "spStop" ELSE After("spStart", ty, ty))

\* modem_ctrl_boot_modem
BootLoad ==
  /\ pc["ld"] = "boot!"
  /\ Begin(LOAD_ALL_IMG)
  /\ UNCHANGED <<lock, region, mem, remote, bus, gaveup, left>>

\* listen_clients reloads the modem only ...
ReloadModem ==
  /\ pc["ld"] = "idle"
  /\ Spend("load")
  /\ Begin(LOAD_MODEM_IMG)
  /\ UNCHANGED <<lock, region, mem, remote, bus, gaveup>>

\* ... or everything: modem_reboot_all_modem first cuts its power, without a lock;
\* the daemon cannot rely on that to clear the flags
RebootAllModem ==
  /\ pc["ld"] = "idle"
  /\ Spend("load")
  /\ ddr' = FALSE
  /\ running' = FALSE
  /\ mem' = [i \in Entries |-> 0]
  /\ flags' \in {flags, {}}
  /\ Begin(LOADL_ALL_EXTERNAL_IMG)
  /\ UNCHANGED <<lock, region, warm, bus, gaveup>>

Device(p) == CASE p \in {"spStop", "spStart"} -> "sp"
               [] p \in {"dpStop", "dpStart"} -> "dp"
               [] p \in {"cpStop", "cpStart"} -> "cp"

\* modem_load_run(0, ...): lock, then stop
Stop(p) ==
  /\ pc["ld"] = p
  /\ LockWrite("ld", Device(p))
  /\ running' = (running /\ p # "cpStop")
  /\ Enter("ld", After(p, type, start))
  /\ UNCHANGED <<type, start, region, mem, flags, warm, ddr, bus, wake, state, gaveup, left>>

\* a mutation: the write lock is not released
StartKeepsLock(p) ==
  /\ pc["ld"] = p
  /\ running' = (running \/ p = "cpStart")
  /\ Enter("ld", After(p, type, start))
  /\ UNCHANGED <<type, start, lock, region, mem, flags, warm, ddr, bus, wake, state, gaveup, left>>

\* modem_load_run(1, ...): start, then unlock
Start(p) ==
  /\ pc["ld"] = p
  /\ UnlockWrite(Device(p))
  /\ running' = (running \/ p = "cpStart")
  /\ Enter("ld", After(p, type, start))
  /\ UNCHANGED <<type, start, region, mem, flags, warm, ddr, bus, wake, state, gaveup, left>>

\* a mutation: the flags of the load before stay
ClearFlagsNot ==
  /\ pc["ld"] = "clear"
  /\ Enter("ld", After("clear", type, start))
  /\ UNCHANGED <<type, start, lock, region, mem, remote, bus, wake, state, gaveup, left>>

ClearFlags ==
  /\ pc["ld"] = "clear"
  /\ SetRemoteFlag({})
  /\ warm' = (warm /\ flags' # {})
  /\ Enter("ld", After("clear", type, start))
  /\ UNCHANGED <<type, start, lock, region, mem, ddr, running, bus, wake, state, gaveup>>

\* the flag that tells the modem a table has been loaded, if there is one
DoneFlag(p) == CASE p = "spl" -> {"SPL"}   [] p = "uboot" -> {"UBOOT"}
                 [] p = "boot" -> {"BOOT"} [] p = "head" -> {"HEAD"}
                 [] p = "modem" -> {"BIT1"} [] OTHER -> {}

\* start_img = load_type = 0: nothing more is loaded, and nothing is started
GiveUp == type' = {} /\ start' = {} /\ gaveup' = TRUE
GoOn   == UNCHANGED <<type, start, gaveup>>

\* behind the SPL and the head of the modem that are complete the load has to wait
Then(p) == CASE p = "spl" /\ ~err["ld"] -> "wait"
             [] p = "head" /\ ~err["ld"] -> "bar"
             [] OTHER -> After(p, type', start')

\* an image failed: no flag, and the load goes on; but without SPL nothing follows
TableDone(p) ==
  /\ TableWalked("ld", p)
  /\ IF err["ld"] \/ DoneFlag(p) = {}
     THEN UNCHANGED <<flags, left>>
     ELSE SetRemoteFlag(DoneFlag(p))
  /\ IF p = "spl" /\ err["ld"] THEN GiveUp ELSE GoOn
  /\ Enter("ld", Then(p))
  /\ UNCHANGED <<lock, region, mem, warm, ddr, running, bus, wake, state>>

\* the modem's side: an SPL that was announced brings up the DDR
Spl == {i \in Entries : Wanted("spl", i) /\ CpTable[i].kind = "image"}

Answers == "SPL" \in flags /\ \A i \in Spl : mem[i] = i

\* a mutation: a timeout is not an error
WaitRemoteNoError ==
  /\ pc["ld"] = "wait"
  /\ ("DDR" \in flags /\ UNCHANGED left) \/ Spend("ddr")
  /\ Enter("ld", After("wait", type, start))
  /\ UNCHANGED <<type, start, lock, region, mem, remote, bus, wake, state, gaveup>>

(***************************************************************************)
(* modem_load_wait_remote for REMOTE_DDR_READY_FLAG.  When the ioctl fails *)
(* modem_get_remote_flag returns -1, in which every bit is set.            *)
(***************************************************************************)
WaitRemote ==
  /\ pc["ld"] = "wait"
  /\ \/ "DDR" \in flags /\ GoOn /\ UNCHANGED left
     \/ GoOn /\ Spend("ioctl")
     \/ /\ "DDR" \notin flags
        /\ Spend("ddr") \/ (~Answers /\ UNCHANGED left)
        /\ GiveUp
  /\ Enter("ld", After("wait", type', start'))
  /\ UNCHANGED <<lock, region, mem, remote, bus, wake, state>>

\* FEATURE_PCIE_RESCAN: a modem that has set its BAR makes the load rescan the bus
\* (EventMonitor); "if rescan ep failed, can't load any image again"
RescanBar ==
  /\ pc["ld"] = "bar"
  /\ \/ GoOn /\ UNCHANGED left
     \/ GiveUp /\ Spend("rescan")
  /\ Enter("ld", After("bar", type', start'))
  /\ UNCHANGED <<lock, region, mem, remote, bus, wake, state>>

\* the state is BOOTING and the wake lock is released, whatever was started
Finish ==
  /\ pc["ld"] = "finish"
  /\ state' = "BOOTING"
  /\ wake' = FALSE
  /\ Enter("ld", "idle")
  /\ UNCHANGED <<type, start, lock, region, mem, remote, bus, gaveup, left>>

LoadModemImg ==
  \/ \E p \in {"spStop", "dpStop", "cpStop"} : Stop(p)
  \/ \E p \in {"spStart", "dpStart", "cpStart"} : Start(p)
  \/ ClearFlags
  \/ LoadImages("ld")
  \/ \E p \in Tables : TableDone(p)
  \/ WaitRemote
  \/ RescanBar
  \/ Finish

-----------------------------------------------------------------------------
(***************************************************************************)
(* load_spl_img, in the thread of one WARM_RESET uevent of a modem that    *)
(* runs.  Its error path calls modem_lock_write a second time, "relock":   *)
(* the lock is its own, so that call does not return.                      *)
(***************************************************************************)
WarmReset(w) ==
  /\ pc[w] = "idle"
  /\ running
  /\ Spend("warm")
  /\ ddr' = FALSE
  /\ Enter(w, "lock")
  /\ UNCHANGED <<type, start, lock, region, mem, flags, warm, running, bus, wake, state, gaveup>>

\* a mutation: load_spl_img does not lock
LockForSplNot(w) ==
  /\ pc[w] = "lock"
  /\ Enter(w, "clear")
  /\ UNCHANGED <<type, start, lock, region, mem, remote, bus, wake, state, gaveup, left>>

LockForSpl(w) ==
  /\ pc[w] = "lock"
  /\ LockWrite(w, "cp")
  /\ Enter(w, "clear")
  /\ UNCHANGED <<type, start, region, mem, remote, bus, wake, state, gaveup, left>>

ClearForSpl(w) ==
  /\ pc[w] = "clear"
  /\ SetRemoteFlag({})
  /\ Enter(w, "spl")
  /\ UNCHANGED <<type, start, lock, region, mem, warm, ddr, running, bus, wake, state, gaveup>>

SplLoaded(w) ==
  /\ TableWalked(w, "spl")
  /\ \/ /\ err[w]
        /\ gaveup' = TRUE
        /\ Enter(w, "relock")
        /\ UNCHANGED <<flags, warm, left>>
     \/ /\ ~err[w]
        /\ SetRemoteFlag({"SPL", "BIT1"})
        /\ warm' = (warm \/ "BIT1" \in flags')
        /\ Enter(w, "unlock")
        /\ UNCHANGED gaveup
  /\ UNCHANGED <<type, start, lock, region, mem, ddr, running, bus, wake, state>>

\* a mutation: the lock is kept
UnlockAfterSplNot(w) ==
  /\ pc[w] = "unlock"
  /\ Enter(w, "idle")
  /\ UNCHANGED <<type, start, lock, region, mem, remote, bus, wake, state, gaveup, left>>

UnlockAfterSpl(w) ==
  /\ pc[w] = "unlock"
  /\ UnlockWrite("cp")
  /\ Enter(w, "idle")
  /\ UNCHANGED <<type, start, region, mem, remote, bus, wake, state, gaveup, left>>

LoadSplImg(w) ==
  \/ LockForSpl(w) \/ ClearForSpl(w) \/ LoadImages(w) \/ SplLoaded(w)
  \/ UnlockAfterSpl(w)

-----------------------------------------------------------------------------
DdrReady ==
  /\ Answers
  /\ "DDR" \notin flags
  /\ flags' = flags \cup {"DDR"}
  /\ ddr' = TRUE
  /\ UNCHANGED <<pc, type, start, loop, lock, region, mem, warm, running, bus, wake, state,
                 gaveup, left>>

Next ==
  \/ BootLoad \/ ReloadModem \/ RebootAllModem \/ LoadModemImg
  \/ \E w \in Warms : WarmReset(w) \/ LoadSplImg(w)
  \/ DdrReady

Spec == Init /\ [][Next]_vars

\* the threads run, and a modem with its SPL answers; nothing is assumed of resets
FairSpec == /\ Spec
            /\ WF_vars(LoadModemImg)
            /\ \A w \in Warms : WF_vars(LoadSplImg(w))
            /\ WF_vars(DdrReady)

-----------------------------------------------------------------------------
(***************************************************************************)
(* modem_set_write_region and the write that follows are two calls on two  *)
(* files: no interleaving of load_modem_img and load_spl_img puts an image *)
(* into the region of another one, as long as modem_set_write_region does  *)
(* not fail: load_img_from_table ignores its result and writes over the    *)
(* region that was set last.                                               *)
(***************************************************************************)
ImageInItsRegion == ~Failed("region") => \A r \in Entries : mem[r] \in {0, r}

\* load_modem_img before it has cleared the flags of the load before
Preparing == pc["ld"] \in {"spStop", "sp", "spStart", "dpStop", "cpStop", "dp", "clear"}

\* an XML table may list an entry for several parts; then each of them loads it again
Only(p, i) == Wanted(p, i) /\ \A q \in CpTables \ {p} : ~Wanted(q, i)

TrueFlags ==
  ~Preparing =>
    \A p \in {"spl", "uboot", "boot", "head", "modem"} :
      DoneFlag(p) \subseteq flags /\ ~(p = "modem" /\ warm) =>
        \A i \in Entries : Only(p, i) /\ CpTable[i].kind = "image" => mem[i] = i

(***************************************************************************)
(* A done flag that the modem can see tells the truth: every image whose   *)
(* result counts and that only this flag stands for is complete in the     *)
(* modem's memory, through reloads of a part, failed copies, done flags    *)
(* that could not be set and SPL reloads.  Bit 1 set by load_spl_img means *)
(* a warm reset instead.  It takes that the ioctls which clear the flags   *)
(* and set the region have not failed: their results are ignored, and the  *)
(* flags of the load before stay.                                          *)
(***************************************************************************)
Reliable       == ~Failed("region") /\ ~Failed("clear")
FlagsTellTruth == Reliable => TrueFlags

(***************************************************************************)
(* "if ep ddr not ready, can't load any image again" (load_modem_img): a   *)
(* load of everything writes what lives in the modem's DDR only when the   *)
(* SPL of this very load has brought it up, through reloads and warm       *)
(* resets.  Not so once the ioctl that asks for the flags has failed,      *)
(* whose result reads as all flags set, or the one that clears those of    *)
(* the load before.                                                        *)
(***************************************************************************)
NoImageWithoutDdr ==
  /\ ~Failed("ioctl") /\ ~Failed("clear")
  /\ "MINIAP" \in type
  /\ pc["ld"] \in {"audio", "uboot", "boot", "head", "bar", "modem"}
  => ddr

(***************************************************************************)
(* While reloads and SPL reloads overlap, the bus monitor never watches    *)
(* during a copy into the modem's memory.                                  *)
(***************************************************************************)
BusQuietWhileCopying ==
  \A t \in Threads : Walking(t) /\ io[t] = "copy" /\ Guarded(t) => ~bus

\* how far load_modem_img has come, for the rest of the daemon
Phase ==
  CASE pc["ld"] \in {"idle", "boot!"} -> "idle"
    [] pc["ld"] \in {"spStop", "sp", "spStart", "dpStop", "cpStop"} -> "called"
    [] OTHER -> IF lock["cp"] = "ld" THEN "stopped" ELSE "started"

Contract == INSTANCE LoadContract WITH phase <- Phase, excl <- (lock["cp"] = "ld")

(***************************************************************************)
(* load_modem_img keeps its contract: whatever is loaded, whatever fails   *)
(* and however SPL reloads interfere, each load stops the modem before it  *)
(* starts it, starts it at most once, and no other thread takes its lock   *)
(* or starts the modem in between.                                         *)
(***************************************************************************)
KeepsContract == Contract!Spec

\* load_modem_img from the stop of the modem to its start, and of each device
Exclusive == {"dp", "clear", "spl", "wait", "audio", "uboot", "boot", "head", "bar",
              "modem", "dpStart", "cpStart"}

InLoad(d) == \/ d = "sp" /\ pc["ld"] \in {"sp", "spStart"}
             \/ d = "dp" /\ pc["ld"] \in {"cpStop"} \cup (Exclusive \ {"cpStart"})
             \/ d = "cp" /\ pc["ld"] \in Exclusive

(***************************************************************************)
(* The write locks outlive the files they were taken through, so nobody    *)
(* but their taker releases them: as long as no load or handler gave up, a *)
(* write lock that is taken is held by a thread that has its unlock still  *)
(* ahead.  load_modem_img may then wait for the modem's lock with another  *)
(* one in hand, but whoever has the modem's lock waits for no lock.        *)
(***************************************************************************)
NoLockIsOrphaned ==
  ~gaveup =>
    \A d \in Devices :
      \/ lock[d] = "free"
      \/ lock[d] = "ld" /\ InLoad(d)
      \/ d = "cp" /\ \E w \in Warms : lock[d] = w /\ pc[w] \in {"clear", "spl", "unlock"}

(***************************************************************************)
(* Reloads and SPL reloads never block one another for good: every load    *)
(* and every handler of a warm reset ends, unless a load or a handler gave *)
(* up without releasing its locks.                                         *)
(***************************************************************************)
NobodyBlocks == /\ wake ~> ~wake \/ gaveup
                /\ \A w \in Warms : pc[w] = "lock" ~> pc[w] = "idle" \/ gaveup

(***************************************************************************)
(* "get wake_lock" ... "release wake_lock" (load_modem_img): every load    *)
(* that begins comes to its end.                                           *)
(***************************************************************************)
LoadReturns == wake ~> ~wake

-----------------------------------------------------------------------------
(***************************************************************************)
(* The inductive invariant.  First, who may do what: load_modem_img has    *)
(* the write lock of the modem from its stop to its start, load_spl_img    *)
(* from its lock to its unlock, and the one load that runs without it, of  *)
(* the SP, runs before the modem can have asked for a warm reset.          *)
(***************************************************************************)
Places ==
  /\ pc["ld"] \in Range(Phases) \cup {"idle", "boot!"}
  /\ \A w \in Warms : pc[w] \in {"idle", "lock", "clear", "spl", "relock", "unlock"}

LoadTypes == {LOAD_ALL_IMG, LOADL_ALL_EXTERNAL_IMG, LOAD_MODEM_IMG}

Jobs == pc["ld"] \in Range(Phases) \ {"finish"} =>
          type \in LoadTypes /\ start = type \ {"SP"}

Owners ==
  /\ pc["ld"] \in Exclusive => lock["cp"] = "ld" /\ ~running
  /\ \A w \in Warms : pc[w] \in {"clear", "spl", "relock", "unlock"} => lock["cp"] = w

FirstLoad == pc["ld"] \in {"boot!", "spStop", "sp", "spStart"} =>
               ~running /\ \A w \in Warms : pc[w] = "idle"

\* where the loop over a table stands
Positions ==
  \A t \in Threads :
    /\ pc[t] \in CpTables => at[t] \in 1..Len(CpTable) + 1
    /\ pc[t] \in CpTables /\ at[t] \in Entries => Wanted(pc[t], at[t])
    /\ io[t] # "pick" => Walking(t)
    /\ ~Failed("region") /\ io[t] # "pick" /\ OnCp(t) => region = at[t]

LoadInv == TypeOK /\ Places /\ Jobs /\ Owners /\ FirstLoad /\ Positions

(***************************************************************************)
(* Second, what the flags say: what a walk has passed without an error is  *)
(* in memory, a load announces only what lies behind it, and an SPL reload *)
(* begins with no flag at all, as long as regions and flags can be relied  *)
(* on.  (A reboot of the whole modem may empty the memory under an SPL     *)
(* reload, but then it is Preparing.)                                      *)
(***************************************************************************)
Walked ==
  \A t \in Threads :
    pc[t] \in CpTables /\ ~err[t] /\ (t = "ld" \/ ~Preparing) =>
      \A i \in Entries :
        i < at[t] /\ Wanted(pc[t], i) /\ CpTable[i].kind = "image" => mem[i] = i

Announced ==
  /\ pc["ld"] \in Exclusive \ {"dp", "clear"} =>
       \A p \in {"spl", "uboot", "boot", "head", "modem"} :
         DoneFlag(p) \subseteq flags => Place(p) < Place(pc["ld"])
  /\ \A w \in Warms : pc[w] = "spl" => flags = {}

\* the flag of a DDR that works is never left from the load before
DdrTold == ~Failed("clear") /\ pc["ld"] \in Exclusive \ {"dp", "clear"} /\ "DDR" \in flags => ddr

FlagInv == LoadInv /\ Reliable /\ Walked /\ Announced /\ TrueFlags

(***************************************************************************)
(* Last, the locks: what makes the start of a device come up again after   *)
(* its stop.                                                               *)
(***************************************************************************)
Starts ==
  /\ pc["ld"] \in {"spStop", "sp", "spStart"} => "SP" \in type
  /\ pc["ld"] = "dpStop" => "DP" \in type
  /\ ~gaveup /\ lock["dp"] # "free" => "DP" \in type

LockInv == LoadInv /\ Starts /\ NoLockIsOrphaned
=============================================================================
