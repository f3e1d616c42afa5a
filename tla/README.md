# modem_control in TLA+

`modem_control` is the Android daemon that loads, starts, watches and resets the
modem of a Unisoc phone. This directory holds its TLA+ models, the TLC runs that
check them on small instances and the TLAPS proofs that hold for every instance.
All line numbers are of `src/`. The daemon's threads are modelled for the build with
`FEATURE_EXTERNAL_MODEM`, the only one in which `modem_control.c` compiles (line 518 uses a
variable that is declared under that flag only). `EventMonitor` adds `FEATURE_PCIE_RESCAN`,
which no makefile of the repository defines, and `ImageTable` and `SecureLoad` are the
internal modem's variant of `modem_load.c`, with `CONFIG_VBOOT_V2`.

## 1. Inventory

| part | state it keeps | operations |
|---|---|---|
| **control threads** (`modem_control.c`, `external_modem_control.c`, `main.c`) | `g_modem_state`, `wait_modem_reset`, `b_miniap_panic`, `s_wait_alive_timer`, the kernel's wake lock and interval timer | `modem_ctrl_boot_modem` (main), `modem_ctrl_listen_modem`, `modem_ctrl_listen_clients`, `modem_ctrl_listen_sp`, the SIGALRM handler `modem_ctrl_alive_timeout` |
| **client side** (`modem_connect.c`) | `s_modemState`, the pipe to `listen_clients`, the table of client sockets, the read thread's `state` and `later_reset`, the condition `s_dumpCond` | `modem_write_data_to_clients`, `modem_ctrl_read_thread`, `dispatch_modem_blocked`, `write_reset_to_modem_ctrl`, `modem_setup_clients_connect` |
| **kernel events** (`modem_event.c`, `eventmonitor.c`) | the table of handlers, the buffer of the last uevent | one thread per uevent: CP_CRASH -> `modem_event_panic_process`, WARM_RESET -> `load_spl_img`, pci -> `modem_pcie_event` |
| **PCIe rescan** (`modem_pcie_control.c`) | the paths of the endpoint and its bridge; in sysfs: which exist and who owns them | `modem_rescan_ep_device`, `modem_pcie_event` |
| **loading** (`modem_load.c`, `modem_io_control.c`) | tables of images; in the driver: write locks, the region to write to, the remote flags | `load_modem_img`, `load_spl_img`, `load_img_from_table`, `modem_load_wait_remote`, `modem_reboot_all_modem` |
| **NV data** (`nv_read.c`) | two partitions with a header each | `read_nv_partition` |
| **image tables** (`modem_load.c`, `xml_parse.c`, `modem_head_parse.c`) | the tables that loading walks, `item_arry`, the regions of the modem head | `init_modem_img_info`: defaults, ldinfo nodes, XML, head |
| **secure boot** (`secure_boot_load.c`, `modem_verify.c`) | `kbc_table`, what the trusted application is to verify | `secure_boot_load_img`, `secure_boot_verify_all`, `secure_boot_unlock_ddr` |
| **rest** (`internal_modem_control.c`, `modem_simlock.c`, `modem_ctrl_dbg.c`) | - | another build's listen loop, one-time input, debugging |

**How they interact.** `listen_modem` reads what the modem writes to the assert and the
alive device ("Modem Alive", "Modem Reset", "Modem Assert"), sets `g_modem_state` and
calls `modem_write_data_to_clients`. That call updates `s_modemState`, starts or stops
nvitemd, and on an assert either writes "Prepare Reset" into the pipe or starts a thread
that waits (up to 5 minutes) for slogmodem to have saved the dump and writes it then.
Clients report a blocked modem to the read thread, which writes "Modem Blocked" and later
"Modem Reset". `listen_clients` reads the pipe and is the only thread that reloads the
modem: directly, or after a handshake (`'z'` on the diag device, "Modem Reset" as
answer, 5 s). Every load is followed by the 60 s alive timer. Uevents run beside all
this in threads of their own.

**What is hard.** Nearly all shared state is written without a lock by six kinds of threads and a
signal handler; requests travel through a pipe whose reader sees one message per read; decisions
are taken on state read seconds earlier; an error path may leave a lock or a flag behind;
descriptors are closed and reused under a sleeping `select`; a uevent's handler points into a
buffer that the next uevent overwrites; tables are put together from four sources; results of
ioctls are ignored; power may be lost while the NV data is repaired. `PROJECT.json` lists these
hazards line by line, each with the properties that cover it, or with the reason why none does.

**What makes each part correct.**
- control threads: a modem that was started is never unwatched; a crash is recovered; a
  healthy modem is not reset; a wake lock that was taken is released.
- client side: requests to reset are neither lost nor multiplied; nvitemd and the
  waiters follow the modem's state and the dump; every client is told the modem's state
  and is heard.
- kernel events and PCIe: the endpoint comes back after a rescan, its files end up as the
  daemon's, and a reboot gets to its load.
- loading: an image lands in its own region, the flags the modem sees are true, nothing
  goes to DDR that is not up, a load stops and starts the modem once and returns.
- image tables and secure boot: each entry's address is from the source that has the last
  word; what is started is what was verified, in this load.
- NV data: no sequence of power failures loses it, and the modem gets data that was saved.

## 2. Modules

| module | models |
|---|---|
| `ModemConnect` | the client side; also a specification by itself (`ConSpec`), in which any thread may broadcast |
| `ModemCtrl` | EXTENDS `ModemConnect`: the control threads and uevents composed with it and with a modem |
| `ClientTable` | the table of client sockets under the accepting, the broadcasting and the reading thread |
| `EventMonitor` | uevents, their buffer and handler threads, and the PCIe rescan |
| `LoadContract` | abstract: what a load promises the rest of the daemon |
| `ModemLoad` | `load_modem_img` and concurrent `load_spl_img` over the ioctl driver; INSTANCEs `LoadContract` |
| `ImageTable` | `init_modem_img_info`: the tables of images |
| `SecureLoad` | EXTENDS `ImageTable`: the internal `load_modem_img` from those tables, with verified boot |
| `NvRead` | `read_nv_partition` against nvitemd, damage, I/O errors and power failures |
| `MC*` | constants for TLC |
| `*Proofs` | theorems and proofs |
| `Extrema` | the least and the greatest element of a set of naturals, for the proofs |

### ModemConnect
One call of `modem_write_data_to_clients` is one step (`Broadcast`): `s_writeMutex` is
held throughout, and every other access to `s_modemState` that changes it takes the
same mutex. `dispatch_modem_blocked` is four steps (`ReadBlocked`, `BlockedCheck`,
`BlockedInform`, `BlockedDecide`), because only its test-and-set is under the mutex. The
read thread's `state` is never reset, which is why it is a variable (`dumpState`).
Messages are names; `strstr` on them is a test of the name. The AT loop test
(466-495) changes nothing and is left out, as are the wake lock of lines 463 and 528
and the reading of the IMEI (`readIMEI`).
The history variables `alives` and `blockResets` count revivals and resets.

### ModemCtrl
`pc[t]` is the label of thread t; each label stands before one access to shared state.
The alive timer is two variables: `timer` is the global struct that start, stop and the
handler write (without a lock), `armed` is the kernel's timer, which `setitimer` sets
from the struct. So a start that races a stop may arm a timer of zero, as in the code.
`rfds` is `listen_modem`'s fd_set, which `select` overwrites and nobody refills.
`ListenClientsRead` takes the first message and drops the rest: each message is written
with its NUL, one `read` of 256 bytes empties the pipe, `strstr` stops at the first NUL.
`PipeCapacity` is at most 18 for that reason (18 messages of 14 bytes).
`TryRead` is `modem_ctrl_try_read_modem_alive`, whose loop counter is uninitialised
(line 64): the thread reads the alive message or gives up, at any time.

`Load`, `Start`, `Booting` abstract `load_modem_img` to what the threads can observe:
LOADING with the modem stopped, the start, BOOTING. Whether the load blocks on a lock
is ModemLoad's subject. Other simplifications: normal boot mode; the alive device, when
there is one, opens; the tests and the assignment of `modem_ctrl_alive_timeout` before
its sleep (499-507) are one step, as are `HandleBlocked`'s assignment and ioctl.

The modem is `off`, `booting`, `stuck` (started, will not come up), `up` or `dead`.
What it does is external: it boots, asserts, answers 'z' once, or does not.
`modem_load_assert_modem` crashes it. A behaviour takes one of `Budgets`, which says how
often each unusual thing may happen: `crash`, `block`, `panic`, `stuck`, `slow` (the alive
message comes while the boot is still being set up, or the timer expires although somebody is still
at work), `diag` (the device does not open), `parm`, `ioerr`.

### ClientTable
One step per access to `s_clientFd` or to the kernel. `file` maps a descriptor to the
connection behind it, so that a number which one thread closes and another gets from
`accept` means the new connection to whoever still holds the old number, as in the kernel;
`rd.set` holds the pairs that `select` was called with. `s_writeMutex` makes the callers of
`modem_write_data_to_clients` one process. A write to a client that hung up fails, and may
end the daemon (`dead`): nobody ignores SIGPIPE. `heard` has what each client was told since
the present state was set, `last` the last of it, and `overtaken` that a greeting or "Modem Blocked"
about another state was on its way when the present one was set. What a client's message does is
`ModemConnect`'s subject; here it only has to be read.

### EventMonitor
`info[h]` is the uevent a handler was started for. Its number MODEM_STAT is a copy; ACTION
and DEVPATH are pointers into the monitor's stack buffer. `later[h]` has the uevents that were
received into that buffer since: what the pointers show is then the handler's own word still
(the later text was shorter), the word of one of those uevents, or neither (`Behind`). A handler
that was misled, or a uevent that found no thread, is remembered in `missed`.
A rescan is the owner changes, the two removals, the rescan and the enumeration as steps of
their own. All three callers are there: a handler after a panic, `modem_reboot_all_modem`, which
tries until the call succeeds, and `load_modem_img` (`LoadRescans`, `inload`), which gives up if
it fails. Each chown and each write may fail, and bridge or endpoint may not be found again
(budgets `ep` and `bus`); the file of the rescan itself is the daemon's since the start. Removing
and rescanning put uevents into the queue, and a device that comes back has files owned by root.
External: the bus, and that a bridge takes its endpoint along.

### ModemLoad
The phases of `load_modem_img` in program order; `After` skips those that the load type does not
need. `lock`, `region` and `flags` are the driver's. A failed image counts, the result of the
writers of NV, cmdline and boot code does not; the loop goes on in either case. The ioctls whose
result nobody looks at may fail: a region that is not chosen leaves the one that was chosen before
(`SelectRegion`), flags that are not cleared or set stay (`SetRemoteFlag`), and flags that cannot
be asked for read as -1, all of them set (`WaitRemote`). The ioctls that lock, unlock, start and
stop are taken to succeed. `RescanBar` is the wait for the modem's BAR and the rescan behind it
(871-883); what a rescan does is EventMonitor's subject, and the two flags with which the modem
asks for it (`EP_SET_BAR_DONE`, `EP_RESCAN_DONE`) are not kept. The secure-boot steps of this load
are not modelled: unlocking (779-783) and `secure_boot_verify_all`, which comes at line 797, after
the SP was started at line 793. MODEM_IMAGE_DONE and MODEM_WARM_RESET share bit 1
(`modem_io_control.h:43-44`). External, and chosen weakly: whether a flag that is set is added to
the word or replaces it, and whether a power cycle clears the word. Write locks are assumed to
block and to outlive the descriptor (each ioctl opens and closes the device, so a lock that did
not would protect nothing).

**Refinement.** `LoadContract` has five variables and four actions (`Call`, `Stop`, `Start`,
`Return`) and knows nothing of tables, images or flags. `Phase` and the owner of the cp
write lock map ModemLoad's state to it; `running`, `state` and `wake` are the same. The
property `KeepsContract` is its whole specification: every step of the detailed load is one
of its actions or a stutter, through all failures and SPL reloads.

### ImageTable and SecureLoad
An entry is a name, an output path, its flags and `from`: which source gave its address and
size (`Nowhere` is size 0, which `load_img_from_table` skips). `board` is everything the
daemon may find at start: the type of modem, whether the drivers are there, the ldinfo
files, the two documents as sequences of tags, the head of the modem image, its SCI headers
(`IsBoard`). `Names` has every text that may be in them: all strings for TLC, and for the
proofs any set with the literals of the code (`NamesAssumption`).
`init_modem_img_info` runs once and alone; its calls are steps because the order in which
they overrule each other is what the properties are about.

`SecureLoad` then loads from these tables as often as `Budget` says. `mem` has what was last
written to each region and whether the copy came to its end, `kbc` what `secure_boot_load_img`
noted for verification; which slots that table has is a choice of the build (`NOT_VERIFY_MODEM`,
`SHARKL5_CDSP`) and the constant `Slots`. The driver's own table of regions is not a variable: if
it was not told (`modem_load.c:658`) or a region not chosen (336), a write may spoil any other
region of the device (`Misplaced`). The trusted application is external and chosen strict: it
accepts only images that are whole in memory and have their footer, and may refuse others too. A
refusal ends in `while(1)` (`pc` is `hang`), with the wake lock held.

### NvRead
A copy is a header and a body, each a version or nothing. A header is one 512 byte sector
and is written at once; a body is not, so each body write has a state in which it is
torn. Nothing in `nv_read.c` calls fsync, so there are the copies as they are read (`copy`, the page
cache) and as a power failure would leave them (`disk`); `WriteBack` takes a header or a body, whole
or torn, from one to the other at any moment and in any order. nvitemd is external: it saves to one
copy and then to the other, in either order, only while the modem runs, is taken to sync each copy
before it goes on, and can be stopped at any moment. `risky` remembers that a repair or a save
began to overwrite one copy while the other was damaged or not yet on the disk (after a repair that
failed, or that was not written back): then two copies can be bad at once, which this code does not
prevent. Two behaviours are in the model and
outside the properties: the result of `read_nv_partition` is ignored by its caller, and
a header whose length cannot be allocated ends the call although the other copy is good.

## 3. Runs

Passing runs:

| run | checks |
|---|---|
| `Connect` | types; `BlockResetsJustified`: at most one block reset per "Modem Alive"; `NvitemdOnlyWhileAlive`: nvitemd runs only for a modem known as alive, or until the handling of a block ends |
| `CtrlEvents` | `BootIsSupervised` on a board with a tty, where a miniap panics and the diag device fails, and either a client reports a block, or a boot or a thread is slow and another boot fails: the alarm races the late alive message |
| `CtrlRecovery` | `BootIsSupervised`, `HealthyModemIsKept` and, under fairness, `CrashIsRecovered`, through a crash, a stuck boot, a P-ARM assert and a read error: every way to reset with and without dump and handshake, and one setting without reset |
| `Load` | regions, done flags, DDR and bus monitor; `NoLockIsOrphaned`: a write lock that is taken has a holder that will release it; the refinement `KeepsContract`; under fairness `NobodyBlocks`. A full load, a reload and a warm reset; a copy, a copy of the SPL, the modem's answer, the rescan and each kind of ioctl (region, clear, set or get) fails once |
| `Nv` | `NvNotLost`, `ReadFindsSaved`, `DeliversSaved` with two saves, two damages, a read and a write error, any number of power failures and every order of write-back |
| `Clients` | `NoStateMissed`: a client in the table was told the present state, after it was set, and nothing older after it unless `overtaken`, whenever no greeting or broadcast is under way; `EveryClientIsWatched`: a sleeping `select` waits for every connection of the table |
| `Uevents` | `EpComesBack`: a rescan by itself leaves the endpoint on the bus; `FilesAreOurs`: when all uevents are handled, no file is left as root's; under fairness `RebootLoads`: the loop of rescans comes to the load. A reboot, a panic or a warm reset, and the first load, with two failures of the endpoint's file, one of the bus and a uevent that finds no thread |
| `Images` | where the entries of the tables are from (`ItemsAreTheDocuments`, `SpillsOnlySurplus`, `NodesDecide`, `HeadDecides`), what is copied (`CopiesTheModem`) and started (`RunsOnlyWhole`, `VerifiesThisLoad`), on 1,025 boards, the modem off or already booted |

The other runs (`V...`) expect a violation. Each states what a comment of the code
claims, and TLC shows a behaviour of the code that does not do it:

| run | the code |
|---|---|
| `VSignalledByDumpComplete` | any later message counts as DUMP COMPLETE once there was one (`modem_connect.c:256`) |
| `VLostReset` | a request that shares a read with another message is lost (`modem_connect.c:100`) |
| `VTwoDevices` | the assert device drops out of the fd_set (`external_modem_control.c:85`) |
| `VLoadReturns` | a DDR timeout leaves the write locks taken (`modem_load.c:832`) |

Also in the models, because they are in the code, and without a run of their own:
- a second block report cancels the reset that waits for the dump (`modem_connect.c:253`);
- nvitemd stays stopped for a modem that revived during the handling of a block
  (`modem_connect.c:511`): `NvitemdOnlyWhileAlive` is the direction that does hold;
- the alive timeout strikes a modem that came up during its 6 s sleep
  (`modem_control.c:511`);
- after a panic the property overwrites the decision to skip the handshake
  (`modem_control.c:630`);
- without the diag device no reset is forced and a crash is not recovered
  (`modem_control.c:351`);
- a skipped command keeps the wake lock until the next event (`modem_control.c:602`,
  and 749, 754 in `modem_ctrl_listen_sp`);
- a failed SPL reload locks where it means to unlock (`modem_load.c:748`);
- a region that could not be chosen makes an image overwrite another one's, and flags that could not
  be cleared announce images of the load before (`modem_load.c:336`, `743`, `818`);
- flags that could not be asked for read as -1, the DDR among them, and the load goes on without it
  (`modem_io_control.c:114`);
- a greeting is written after a broadcast that came later than the choice of its text, and so may be
  "Modem Blocked": the client's last word is the older state (`modem_connect.c:165`, `497`);
- a client that hung up may end the daemon by SIGPIPE (`modem_connect.c:76`), and the read thread
  may block on a number that was closed and given to a silent client (`235`);
- after a rescan that failed with the endpoint removed every retry fails at the file that is gone
  (`modem_pcie_control.c:260`);
- a repair of the NV data is not synced before nvitemd may save over the good copy (`nv_read.c:219`,
  `231`);
- a uevent whose text the next one overwrites is dropped or taken for the other
  (`eventmonitor.c:135`);
- a broadcast whose write fails and the read thread both close and clear the client's slot;
  the later one may clear a client that came in between (`modem_connect.c:82`, `241`);
- a client that takes the last slot of a full table is not told the state (`modem_connect.c:174`);
- two rescans at the same time can lose the endpoint for good (`modem_pcie_control.c:103`);
- without an ldinfo file of the SP the CP's nodes are read to one before the array, the last
  node is empty, and the empty name is part of every path: every size is 0
  (`modem_load.c:146`);
- a document with more partitions than its count writes past `item_arry` (`xml_parse.c:165`);
- a table of more than 20 entries, which a document may have, is not told to the driver and
  its regions are written all the same (`modem_load.c:628`, part of `Misplaced`);
- an SCI image without a modem block leaves the size unassigned (`modem_load.c:1192`);
- with the ioctl driver all outputs are the same device, so the images of the modem match no
  slot of `kbc_table` or all the same one (`secure_boot_load.c:216`).

Seen in the code and not in a model: the new head gives its boot code in bytes, and the reader
takes it for a number of instructions (`modem_head_parse.c:210`, `296`); the old head's count is
copied unchecked (`182`).

**Where the passing properties stop.** Each condition names a behaviour of the code, listed
above, that the property does not survive:
- `CrashIsRecovered` needs one source of reports at a time (else `VLostReset`) and a diag
  device; the run's budget has one crash. With a second one the alarm that a raced timer
  restart leaves behind can report the successor, and the crash in that window is lost.
- `HealthyModemIsKept` is about settings where a crash is answered by a reload at once
  (no dump, no handshake): a late answer to 'z', or that same alarm while a dump is awaited,
  does reset the successor. And a crash must have one reporter (`OneReporter`). Each of these
  alone breaks the property: a client's block report or a panic uevent, which put a second
  request behind that of the assert; a slow boot, whose alarm strikes during the 6 s sleep;
  an alive message on another device than the assert, which may be read after it. Under
  these conditions it holds for any number of crashes, which section 4 proves.
- `NobodyBlocks` and `NoLockIsOrphaned` hold until a load or a handler gives up with its lock: a
  failed SPL, DDR or rescan (`gaveup`, else `VLoadReturns`). `KeepsContract` lets such a load keep
  it.
- `ImageInItsRegion` holds until the ioctl for the region fails, `FlagsTellTruth` until that one or
  the clearing does, `NoImageWithoutDdr` until the clearing, setting or getting of flags does. An
  entry that an XML table lists for several parts is loaded again for each, so
  `FlagsTellTruth` is about the entries that one flag alone stands for.
- `NvNotLost` and `ReadFindsSaved` hold until `risky`.
- `NoStateMissed` excuses clients that took the last slot, and everything once a write of a
  broadcast has failed. That the present state is the last a client was told holds unless
  `overtaken`.
- `EpComesBack` and `RebootLoads` are about rescans that do not overlap and a bus that does not fail;
  `FilesAreOurs` allows overlap, and needs that no uevent was missed and no
  chown, write or enumeration failed.
- `ItemsAreTheDocuments` needs a document with one count that is large enough, and
  `SpillsOnlySurplus` that only a document with a count that is not so overruns the array.
- `NodesDecide` needs the SP's ldinfo file and node names that are not empty and of which none
  is part of another name; `CopiesTheModem` a last header and a modem block among the SCI headers,
  and an entry that is copied from a partition.
- `RunsOnlyWhole` and `VerifiesThisLoad` are about the internal load, and need a slot of
  `kbc_table` for each secure image: a document can list two images whose outputs match the same
  slot, and only the later one is verified.

**Bounds.** Two waiters: two asserts can wait for a dump at once, which is what
`pthread_cond_signal` tells apart. A pipe of three: a full pipe and a read of several
messages both occur. One warm reset of a modem that is loaded once or twice: each thread can wait
for the lock that the other holds. The table has the SPL, an image and an entry for two parts whose
result does not count. Two slots and three connections: the table fills, the last client is
replaced, and a closed number is reused. One handler thread, one uevent of others and those of up to
three rescans: the handler lags behind the buffer and rescans and changes owners while `lc` rescans;
two failures of the endpoint's file make the loop go round twice. These two instances are small
because liveness is checked with the rest; what they check but liveness is proved for any number of
threads and any table. Boards: every type of modem, ldinfo file,
head format, well-formed and malformed document and all sequences of three SCI headers. One or two
of each unusual event; each
run takes the combination that reaches the interleavings its property is about, and the
settings of the properties are initial states, so all of those a run names are covered.
`MaxAlives` bounds broadcasts in `ConSpec` only; `MaxVersion` bounds saves.

**Deadlock** is checked for `Connect` and `Nv`. The others may stop: the system is down
after a sysrq, and a modem with no events left is simply up.

**Fairness.** Weak fairness of each thread of the daemon (threads are scheduled, sleeps
and timeouts end), of the alive timer, and of a modem that is booting (`stuck` is the one
that does not). None of the modem's answer to 'z', of clients, of dumps (the waiter's
timeout is part of its fairness) or of uevents. In ModemLoad, weak fairness of each
thread and of a modem whose SPL was loaded and announced. In EventMonitor, weak fairness of
handlers, of the rescanning threads and of the load that follows; the monitor need not be
fair, a reboot does not depend on it.

## 4. Proofs

All for every value of the constants: any number of threads, uevents, slots, saves, loads and
faults, any table, any document. In brackets, the property of a run that a theorem states,
where its name is another one.

| module | theorems |
|---|---|
| `ModemConnectProofs` | `ConTypeCorrect`, `BlockResetsAreJustified`, `NvitemdRunsOnlyWhileAlive` |
| `ModemCtrlProofs` | `TypeCorrect`, `BootSupervised` (`BootIsSupervised`), `HealthyModemKept` (`HealthyModemIsKept`), `BlockResetsJustifiedInDaemon` |
| `NvReadProofs` | `NvTypeCorrect`, `NvIsKept` (`NvNotLost`), `OneCopySuffices` (`ReadFindsSaved`), `NvDelivered` (the action property `DeliversSaved`) |
| `ModemLoadProofs` | `TypeCorrect`, `RegionsAreSafe` (`ImageInItsRegion`), `BusStaysQuiet` (`BusQuietWhileCopying`), `FlagsAreTrue` (`FlagsTellTruth`), `DdrComesFirst` (`NoImageWithoutDdr`), `LocksAreReleased` (`NoLockIsOrphaned`), `LoadImplementsContract` (`KeepsContract`) |
| `ClientTableProofs` | `TypeCorrect`, `EveryClientIsHeard` (`EveryClientIsWatched`), `NoClientMissesTheState` (`NoStateMissed`) |
| `EventMonitorProofs` | `TypeCorrect`, `RescanBringsEpBack` (`EpComesBack`), `FilesChangeHands` (`FilesAreOurs`) |
| `SecureLoadProofs` | `TypeCorrect`, `ItemsFollowTheDocuments` (`ItemsAreTheDocuments`), `OnlySurplusSpills` (`SpillsOnlySurplus`), `NodesCorrectTheDefaults` (`NodesDecide`), `HeadHasTheLastWord` (`HeadDecides`), `ModemBlockIsCopied` (`CopiesTheModem`), `VerifiedBeforeItRuns` (`RunsOnlyWhole`), `WholeLoadIsVerified` (`VerifiesThisLoad`) |

The arguments, each with the inductive invariant, which is defined in the component's module:

- **ModemConnect.** `blockResets <= alives` is not inductive; `BlockBudget` adds to the left
  side the requests under way (a dispatch past its test-and-set, `later_reset`) and the revival
  not yet used (`s_modemState` ALIVE). The lemmas about its actions carry over to the composed
  daemon, whose other threads leave these variables alone or broadcast.
  `NvitemdOnlyWhileAlive` is inductive as it stands: whoever takes `s_modemState` from ALIVE
  stops nvitemd in the same step or is the dispatch that will.
- **ModemCtrl**, `Supervision`. listen_clients does not run before main's load is over; once
  it is past its guard the state is not BOOTING until its own load says so; while the state is
  BOOTING, a time that is not set or a timer that is not armed has a thread that is about to
  set it or about to leave BOOTING. The race of start and stop on one struct is harmless for
  this reason only: whoever stops the timer changes the state next.
  `ReportInv`, for `HealthyModemIsKept`: where a crash has one reporter, its report is in one
  place at a time (`OneReport`): in the device, in what listen_modem has read, with the alarm's
  handler, in the pipe, or with listen_clients, which ends it by a load. Nothing follows it in
  the device (`AssertIsLast`), the modem is down meanwhile and stays off until the load starts
  it (`LoadStages`); a modem that is up is known as alive, or the message that says so is on
  its way (`UpIsKnown`), so that the alarm cannot take it for one that failed to boot.
- **NvRead**, `NvInv`. A call and a save exclude each other (`SaveAlone`), what the call found
  valid is still what the partition holds (`GotIsCopy`), unless `risky` one copy is valid and on
  the disk and is not the one being written (`OneIsSafe`), and every header, in the cache or on
  the disk, lies between the last durable and the last begun save (`HeadersAreSaved`).
- **ModemLoad**, `LoadInv`: who may do what. load_modem_img has the cp write lock from its stop to
  its start and load_spl_img from its lock to its unlock (`Owners`), so the driver's one region
  variable belongs to whoever copies (`Positions`, until choosing it fails). The load of the SP
  runs without that lock, and is safe because it comes before the modem has ever run, so before
  any warm reset (`FirstLoad`). `FlagInv` adds that what a walk has passed without an error is in
  memory (`Walked`), that a load announces only phases behind it, and that an SPL reload begins
  with no flag (`Announced`), as long as regions and clearing can be relied on (`Reliable`).
  `DdrTold`: the DDR flag that a load acts on was set in that load. `LockInv`, for the locks: a
  device is stopped only by a load whose type also starts it, and the order of the phases does not
  lead past that start (`Starts`); the ways out that keep a lock, a failed SPL, DDR or rescan, are
  those that `gaveup` remembers. `NobodyBlocks` adds that the holder gets there. For the
  refinement, `Phase` follows from pc and the owner of the lock (`PhaseIs`), and there is a lemma
  per phase: it maps to the contract's Call, Stop, Start or Return, or changes nothing that the
  contract sees.
- **ClientTable**, `TableInv`: an open number stands for one connection (`Numbering`), and the
  accepting thread's number is of the last one or closed. `Watched` is `EveryClientIsWatched`
  while the accepting thread is at work: only the connection that it will still report may be
  unknown to `select`. `StateInv`: a client that was not told the state is due to be told by
  the greeting or by the broadcast that is on its way to its slot (`Told`), which nobody can
  clear under it as long as no write of a broadcast failed (`Slotted`); and unless
  the state overtook a text, everything that is about to be written is the present state (`Fresh`),
  so that nothing else follows it (`LastHeard`).
- **EventMonitor.** `RescanInv`: as long as rescans have not overlapped one thread rescans
  (`OneRescan`), and as long as the bus has not failed the files it is about to write to are there
  and the bridge's its own (`FilesReady`); the uevents of its own rescan only give the files to
  the same user again. `OwnersInv`: a file of root's is one whose change of owner is still to
  come, in a uevent of the endpoint that is queued or has a handler (`Coming`) or, for the bridge,
  that the enumeration under way will send; and there is no endpoint without its bridge.
- **SecureLoad**, in four layers. `XmlInv`: after k tags the partition with j listed ones before
  it is entry j + 1 of the array, and the parser's index is their number (`ParsedTo`); the index
  that the document before left is reset by the count, and without a count there is no array
  to write to. `TablesInv`: where the entries are from after each source
  (`FromNodes`, `FromHead`).
  `MemoryInv`: a load stops only at entries that it wants (`Position`), and a region is empty
  or holds what a load makes of the entry with its index (`Memory`): it follows what is
  copied. `VerifyInv`: `kbc_table` has the secure images that this load came past (`Noted`; a
  slot filled a second time is filled for the same image, because the slots are apart), so a
  verification that accepts leaves no image of the devices to be started in part, and
  a device's regions are only written while it is stopped (`Running`).

The walks over tables in ModemLoad and SecureLoad take the first index that matches as `Min` of a
set; `Extrema` proves that there is one for every set of naturals, from the library's theorem
that they are well-founded.

Assumptions on constants are named in the modules, and TLC evaluates them in the runs: types
of budgets and bounds (`BudgetsAssumption`, `BudgetAssumption`, `VersionAssumption`,
`FaultAssumption`, `ConnsAssumption`, `PipeAssumption`, and the
`TableAssumption` of ModemLoad and of ClientTable),
names of threads that differ (`PanicsAssumption`, `HandlersAssumption`, `WarmsAssumption`),
inputs of the right form (`PropsAssumption`, `SaysAssumption`, `BoardAssumption`,
`BoardsAssumption`, `NamesAssumption`), and the slots that a build's `kbc_table` can have
(`SlotsAssumption`). The modem's table in ModemLoad may have any flags, as an XML document can.

Only model-checked:
- the liveness properties `CrashIsRecovered`, `NobodyBlocks` and `RebootLoads`: fairness is out of
  the prover's reach. Of `NobodyBlocks` the safety part is proved (`LocksAreReleased`); what of
  `CrashIsRecovered` is one is `BootSupervised`: the modem is watched all the time.

## 5. Not modelled

- `internal_modem_control.c`: ListenModem's loop with a watchdog device, in a build in which
  `modem_control.c` does not compile.
- `SECURE_BOOT_ENABLE` (`modem_verify.c`) and `CONFIG_SPRD_SECBOOT`: cryptography and image
  headers of older schemes; the order of their calls is that of `SecureLoad`.
- The SIM lock key (`modem_simlock.c`), the IMEI and the AT loop test: input and output.
- `modem_ctrl_dbg.c`: a separate program for testing the drivers.
- The secure-boot steps of the external load (`modem_load.c:779-783`, `795-798`), and failures of
  the ioctls that lock, unlock, start and stop.
- Bytes: checksums (a copy's matches or does not), addresses (an entry keeps their source), the
  boot code, the text of XML, heads and uevents (sequences of tags, regions and words).
- Finding the PCIe paths at start, calibration and recovery boot modes: inputs.

## 6. Plan

Every invariant and action property of the passing runs is proved. What is left:
1. `HealthyModemIsKept` with dumps or a handshake, where it does not hold: what can be said
   instead, for instance how often a crash can reset the modems that come after.
2. A statement of the whole start, from what the board has to what runs: the theorems of
   `SecureLoad` combined into one.
3. The internal modem, once that build compiles again.
