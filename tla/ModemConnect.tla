---------------------------- MODULE ModemConnect ----------------------------
(***************************************************************************)
(* The client side of the modem control daemon (modem_connect.c): what     *)
(* modem_write_data_to_clients does with a message before it reaches the   *)
(* sockets, the thread that reads the clients (read_thread), the threads   *)
(* that wait for the end of a modem dump, and the pipe through which all   *)
(* of them ask modem_control.c for a reset.                                *)
(*                                                                         *)
(* One call of modem_write_data_to_clients is one step: s_writeMutex makes *)
(* it atomic for every other writer of this module's state.                *)
(***************************************************************************)
EXTENDS Naturals, Sequences

CONSTANTS
  Waiters,       \* dump waiter threads (write_reset_to_modem_ctrl) that can exist at once
  Props,         \* the settings of the Android properties that a run considers
  PipeCapacity,  \* messages the pipe holds before a write blocks
  Says,          \* the messages, "Blocked" apart, that clients send
  MaxAlives      \* bound on "Modem Alive" broadcasts, for TLC

\* one read of 256 bytes empties a pipe of at most 18 messages of 14 bytes
ASSUME PipeAssumption == PipeCapacity \in 1..18

ASSUME PropsAssumption ==
  Props \subseteq [reset: BOOLEAN, dump: BOOLEAN, sysdump: BOOLEAN, modemOnly: BOOLEAN]

VARIABLES
  prop,        \* the properties: MODEM_RESET, SAVE_DUMP, SYSDUMP, REBOOT_MODEMONLY
  conState,    \* s_modemState
  nvitemd,     \* what init was last told about vendor.cp_diskserver
  pipe,        \* s_fdModemCtrlWrite -> s_fdModemCtrlRead
  waiter,      \* where each dump waiter stands
  rd,          \* where the read thread stands
  rdMsg,       \* controlinfo: what the read thread read last
  dumpState,   \* the read thread's local `state'
  laterReset,  \* the read thread's local `later_reset'
  alives,      \* history: how often clients were told "Modem Alive"
  blockResets  \* history: how often the block path asked for "Modem Reset"

conVars == <<prop, conState, nvitemd, pipe, waiter, rd, rdMsg, dumpState,
             laterReset, alives, blockResets>>

Commands   == {"Blocked", "Reset", "Prepare"}
ClientMsgs == {"DUMP_BEGIN", "DUMP_ONGOING", "DUMP_COMPLETE", "Blocked",
               "AGDSP", "Other"}

ConTypeOK ==
  /\ prop \in Props
  /\ conState \in {"OFFLINE", "ALIVE", "ASSERT"}
  /\ nvitemd \in {"none", "start", "stop"}
  /\ pipe \in Seq(Commands)
  /\ waiter \in [Waiters -> {"none", "created", "waiting", "signalled", "timedout"}]
  /\ rd \in {"select", "check", "inform", "decide"}
  /\ rdMsg \in ClientMsgs \cup {"none"}
  /\ dumpState \in {"none", "DUMP_BEGIN", "DUMP_ONGOING", "DUMP_COMPLETE"}
  /\ laterReset \in BOOLEAN
  /\ alives \in Nat
  /\ blockResets \in Nat

ConInit ==
  /\ prop \in Props
  /\ conState = "OFFLINE"
  /\ nvitemd = "none"
  /\ pipe = << >>
  /\ waiter = [w \in Waiters |-> "none"]
  /\ rd = "select"
  /\ rdMsg = "none"
  /\ dumpState = "none"
  /\ laterReset = FALSE
  /\ alives = 0
  /\ blockResets = 0

\* a write to the pipe blocks while the pipe is full
Post(c) == Len(pipe) < PipeCapacity /\ pipe' = Append(pipe, c)

(***************************************************************************)
(* modem_write_data_to_clients, with modem_ctrl_process_message.  A P-ARM  *)
(* assert clears s_needResetModem and the same call sets it again, so it   *)
(* changes nothing here.  Creating a dump waiter needs a free member of    *)
(* Waiters: that is the bound on their number.                             *)
(***************************************************************************)
ControlNvitemd(m) ==
  nvitemd' = IF m = "Alive" THEN "start"
             ELSE IF m \in {"Assert", "Reset"} THEN "stop" ELSE nvitemd

AskForReset(m) ==
  /\ IF m = "Reset" THEN Post("Reset")
     ELSE IF m = "Assert" /\ prop.reset /\ ~prop.dump THEN Post("Prepare")
     ELSE UNCHANGED pipe
  /\ IF m = "Assert" /\ prop.reset /\ prop.dump
     THEN \E w \in Waiters : waiter[w] = "none"
                             /\ waiter' = [waiter EXCEPT ![w] = "created"]
     ELSE UNCHANGED waiter

Broadcast(m) ==
  /\ conState' = IF m = "Alive" THEN "ALIVE"
                 ELSE IF m = "Assert" THEN "ASSERT" ELSE conState
  /\ ControlNvitemd(m)
  /\ AskForReset(m)
  /\ alives' = IF m = "Alive" THEN alives + 1 ELSE alives
  /\ UNCHANGED <<prop, blockResets>>

ASSUME SaysAssumption == Says \subseteq ClientMsgs

(***************************************************************************)
(* modem_ctrl_read_thread: one message of one client.  The local `state'   *)
(* is only overwritten by a dump message, whatever else is read.           *)
(***************************************************************************)
\* a mutation: any message overwrites the dump state
NewDumpStateAny(m) == m

NewDumpState(m) ==
  IF m \in {"DUMP_BEGIN", "DUMP_ONGOING", "DUMP_COMPLETE"} THEN m ELSE dumpState

ReadBlocked ==
  /\ rd = "select"
  /\ rdMsg' = "Blocked"
  /\ Post("Blocked")
  /\ rd' = "check"
  /\ UNCHANGED <<prop, conState, nvitemd, waiter, dumpState, laterReset, alives,
                 blockResets>>

ReadAgdsp ==
  /\ rd = "select"
  /\ "AGDSP" \in Says
  /\ rdMsg' = "AGDSP"
  /\ Broadcast("AGDSP")
  /\ UNCHANGED <<rd, dumpState, laterReset>>

\* pthread_cond_signal wakes one waiter, or nobody when none waits yet
SignalDumpCond ==
  IF \E w \in Waiters : waiter[w] = "waiting"
  THEN \E w \in Waiters : waiter[w] = "waiting"
                          /\ waiter' = [waiter EXCEPT ![w] = "signalled"]
  ELSE UNCHANGED waiter

ReadOther(m) ==
  /\ rd = "select"
  /\ m \notin {"Blocked", "AGDSP"}
  /\ rdMsg' = m
  /\ dumpState' = NewDumpState(m)
  /\ IF dumpState' = "DUMP_COMPLETE"
     THEN /\ SignalDumpCond
          /\ laterReset' = FALSE
          /\ IF laterReset THEN Post("Reset") ELSE UNCHANGED pipe
          /\ blockResets' = IF laterReset THEN blockResets + 1 ELSE blockResets
     ELSE UNCHANGED <<waiter, laterReset, pipe, blockResets>>
  /\ UNCHANGED <<prop, conState, nvitemd, rd, alives>>

(***************************************************************************)
(* dispatch_modem_blocked, after its first write to the pipe.  Only the    *)
(* test and set of s_modemState is under s_writeMutex; the loop test and   *)
(* the 5 s wait for the dump (neither changes anything) lie between        *)
(* BlockedCheck and BlockedInform.                                         *)
(***************************************************************************)
\* a mutation: the test of s_modemState without the assignment
BlockedCheckKeepsAlive ==
  /\ rd = "check"
  /\ IF conState = "ALIVE"
     THEN rd' = "inform" /\ UNCHANGED laterReset
     ELSE laterReset' = FALSE /\ rd' = "select"
  /\ UNCHANGED <<prop, conState, nvitemd, pipe, waiter, rdMsg, dumpState, alives, blockResets>>

BlockedCheck ==
  /\ rd = "check"
  /\ IF conState = "ALIVE"
     THEN conState' = "ASSERT" /\ rd' = "inform" /\ UNCHANGED laterReset
     ELSE laterReset' = FALSE /\ rd' = "select" /\ UNCHANGED conState
  /\ UNCHANGED <<prop, nvitemd, pipe, waiter, rdMsg, dumpState, alives, blockResets>>

BlockedInform ==
  /\ rd = "inform"
  /\ Broadcast("Blocked")
  /\ rd' = "decide"
  /\ UNCHANGED <<rdMsg, dumpState, laterReset>>

\* a mutation: nvitemd is not stopped for a blocked modem
BlockedDecideNvitemdRuns ==
  /\ rd = "decide"
  /\ UNCHANGED nvitemd
  /\ laterReset' = (prop.reset /\ prop.dump)
  /\ IF prop.reset /\ ~prop.dump
     THEN Post("Reset") /\ blockResets' = blockResets + 1
     ELSE UNCHANGED <<pipe, blockResets>>
  /\ rd' = "select"
  /\ UNCHANGED <<prop, conState, waiter, rdMsg, dumpState, alives>>

BlockedDecide ==
  /\ rd = "decide"
  /\ nvitemd' = "stop"
  /\ laterReset' = (prop.reset /\ prop.dump)
  /\ IF prop.reset /\ ~prop.dump
     THEN Post("Reset") /\ blockResets' = blockResets + 1
     ELSE UNCHANGED <<pipe, blockResets>>
  /\ rd' = "select"
  /\ UNCHANGED <<prop, conState, waiter, rdMsg, dumpState, alives>>

(***************************************************************************)
(* write_reset_to_modem_ctrl: a waiter thread computes its deadline, waits *)
(* once on s_dumpCond without testing any predicate, and asks for a reset. *)
(* The wait also returns after TIME_FOR_MD_DUMP.                           *)
(***************************************************************************)
WaiterWaits(w) ==
  /\ waiter[w] = "created"
  /\ waiter' = [waiter EXCEPT ![w] = "waiting"]
  /\ UNCHANGED <<prop, conState, nvitemd, pipe, rd, rdMsg, dumpState, laterReset,
                 alives, blockResets>>

WaiterTimesOut(w) ==
  /\ waiter[w] = "waiting"
  /\ waiter' = [waiter EXCEPT ![w] = "timedout"]
  /\ UNCHANGED <<prop, conState, nvitemd, pipe, rd, rdMsg, dumpState, laterReset,
                 alives, blockResets>>

WaiterAsks(w) ==
  /\ waiter[w] \in {"signalled", "timedout"}
  /\ waiter' = [waiter EXCEPT ![w] = "none"]
  /\ Post("Prepare")
  /\ UNCHANGED <<prop, conState, nvitemd, rd, rdMsg, dumpState, laterReset, alives,
                 blockResets>>

DumpWaiter(w) == WaiterWaits(w) \/ WaiterTimesOut(w) \/ WaiterAsks(w)

Dispatch == BlockedCheck \/ BlockedInform \/ BlockedDecide

-----------------------------------------------------------------------------
(***************************************************************************)
(* This component by itself: any thread may broadcast, and listen_clients  *)
(* may read the pipe (modem_read_data_from_clients), at any time.          *)
(***************************************************************************)
ReadPipe ==
  /\ pipe # << >>
  /\ pipe' = << >>
  /\ UNCHANGED <<prop, conState, nvitemd, waiter, rd, rdMsg, dumpState, laterReset,
                 alives, blockResets>>

AnyBroadcast ==
  \E m \in {"Alive", "Assert", "P-ARM Assert", "Reset"} :
    (m = "Alive" => alives < MaxAlives) /\ Broadcast(m) /\ UNCHANGED <<rd, rdMsg, dumpState, laterReset>>

ConNext ==
  \/ AnyBroadcast
  \/ ReadBlocked
  \/ ReadAgdsp
  \/ \E m \in Says : ReadOther(m)
  \/ Dispatch
  \/ \E w \in Waiters : DumpWaiter(w)
  \/ ReadPipe

ConSpec == ConInit /\ [][ConNext]_conVars

-----------------------------------------------------------------------------
(***************************************************************************)
(* However many clients report the modem as blocked, and however the       *)
(* reports interleave with asserts, dumps and revivals, the block path     *)
(* asks for at most one reset per "Modem Alive": s_modemState is taken     *)
(* from ALIVE under the mutex, and later_reset holds one request at most.  *)
(***************************************************************************)
BlockResetsJustified == blockResets <= alives

(***************************************************************************)
(* What makes it inductive: a request not yet written (a dispatch that won *)
(* the test and set, or later_reset) and a revival not yet used up are     *)
(* each worth one reset.                                                   *)
(***************************************************************************)
Worth(b) == IF b THEN 1 ELSE 0

BlockBudget ==
  blockResets + Worth(rd \in {"inform", "decide"}) + Worth(laterReset)
    + Worth(conState = "ALIVE") <= alives

(***************************************************************************)
(* "if it need save dump ... it will reset when receive SLOGMODEM DUMP     *)
(* COMPLETE or timeout" (process_message): a waiter is signalled only by a *)
(* DUMP COMPLETE message.                                                  *)
(***************************************************************************)
SignalledByDumpComplete ==
  [][\A w \in Waiters :
       waiter[w] = "waiting" /\ waiter'[w] = "signalled" => rdMsg' = "DUMP_COMPLETE"]_conVars

(***************************************************************************)
(* nvitemd writes the NV partitions, which a reload reads and repairs: it  *)
(* is started for a modem that is known as alive, and left running after   *)
(* that only until the dispatch of a block, which changes s_modemState     *)
(* seconds before it stops nvitemd, is over.                               *)
(***************************************************************************)
NvitemdOnlyWhileAlive ==
  nvitemd = "start" => conState = "ALIVE" \/ rd \in {"inform", "decide"}
=============================================================================
