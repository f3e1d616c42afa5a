------------------------- MODULE ModemConnectProofs -------------------------
(***************************************************************************)
(* The read thread and the broadcasters keep their types, and the block    *)
(* path asks for at most one reset per revival of the modem.  The lemmas   *)
(* are about single actions, so that the composition in ModemCtrlProofs    *)
(* can cite them as well.                                                  *)
(***************************************************************************)
EXTENDS ModemConnect, TLAPS

\* a broadcast, by whichever thread, keeps the types
LEMMA BroadcastType ==
  ASSUME NEW m, ConTypeOK, Broadcast(m),
         UNCHANGED <<rd, rdMsg, dumpState, laterReset>>
  PROVE  ConTypeOK'
<1>1. pipe' \in Seq(Commands)
  BY DEF ConTypeOK, Broadcast, AskForReset, Post, Commands
<1>2. waiter' \in [Waiters -> {"none", "created", "waiting", "signalled", "timedout"}]
  BY DEF ConTypeOK, Broadcast, AskForReset
<1>3. alives' \in Nat
  BY DEF ConTypeOK, Broadcast
<1> QED BY <1>1, <1>2, <1>3 DEF ConTypeOK, Broadcast, ControlNvitemd

LEMMA ReadBlockedType ==
  ASSUME ConTypeOK, ReadBlocked
  PROVE  ConTypeOK'
<1>1. pipe' \in Seq(Commands)
  BY DEF ConTypeOK, ReadBlocked, Post, Commands
<1> QED BY <1>1 DEF ConTypeOK, ReadBlocked, ClientMsgs

LEMMA ReadAgdspType ==
  ASSUME ConTypeOK, ReadAgdsp
  PROVE  ConTypeOK'
<1>1. pipe' \in Seq(Commands) /\ waiter' = waiter
  BY DEF ConTypeOK, ReadAgdsp, Broadcast, AskForReset
<1> QED BY <1>1 DEF ConTypeOK, ReadAgdsp, Broadcast, ControlNvitemd, ClientMsgs

LEMMA ReadOtherType ==
  ASSUME NEW m \in Says, ConTypeOK, ReadOther(m)
  PROVE  ConTypeOK'
<1>1. pipe' \in Seq(Commands)
  BY DEF ConTypeOK, ReadOther, Post, Commands
<1>2. waiter' \in [Waiters -> {"none", "created", "waiting", "signalled", "timedout"}]
  BY DEF ConTypeOK, ReadOther, SignalDumpCond
<1>3. blockResets' \in Nat
  BY DEF ConTypeOK, ReadOther
<1>6. laterReset' \in BOOLEAN
  BY DEF ConTypeOK, ReadOther
<1>4. m \in ClientMsgs
  BY SaysAssumption
<1>5. dumpState' \in {"none", "DUMP_BEGIN", "DUMP_ONGOING", "DUMP_COMPLETE"}
  BY DEF ConTypeOK, ReadOther, NewDumpState
<1> QED BY <1>1, <1>2, <1>3, <1>4, <1>5, <1>6 DEF ConTypeOK, ReadOther

LEMMA DispatchType ==
  ASSUME ConTypeOK, Dispatch
  PROVE  ConTypeOK'
<1>1. CASE BlockedCheck
  BY <1>1 DEF ConTypeOK, BlockedCheck
<1>2. CASE BlockedInform
  <2>1. pipe' \in Seq(Commands) /\ waiter' = waiter
    BY <1>2 DEF ConTypeOK, BlockedInform, Broadcast, AskForReset
  <2> QED BY <1>2, <2>1 DEF ConTypeOK, BlockedInform, Broadcast, ControlNvitemd
<1>3. CASE BlockedDecide
  <2>1. pipe' \in Seq(Commands) /\ blockResets' \in Nat
    BY <1>3 DEF ConTypeOK, BlockedDecide, Post, Commands
  <2>2. laterReset' \in BOOLEAN
    BY <1>3 DEF BlockedDecide
  <2> QED BY <1>3, <2>1, <2>2 DEF ConTypeOK, BlockedDecide
<1> QED BY <1>1, <1>2, <1>3 DEF Dispatch

LEMMA DumpWaiterType ==
  ASSUME NEW w \in Waiters, ConTypeOK, DumpWaiter(w)
  PROVE  ConTypeOK'
<1>1. pipe' \in Seq(Commands)
  BY DEF ConTypeOK, DumpWaiter, WaiterWaits, WaiterTimesOut, WaiterAsks, Post, Commands
<1>2. waiter' \in [Waiters -> {"none", "created", "waiting", "signalled", "timedout"}]
  BY DEF ConTypeOK, DumpWaiter, WaiterWaits, WaiterTimesOut, WaiterAsks
<1> QED BY <1>1, <1>2 DEF ConTypeOK, DumpWaiter, WaiterWaits, WaiterTimesOut, WaiterAsks

-----------------------------------------------------------------------------
(***************************************************************************)
(* BlockBudget, action by action.                                          *)
(***************************************************************************)
LEMMA BroadcastBudget ==
  ASSUME NEW m, ConTypeOK, BlockBudget, Broadcast(m), UNCHANGED <<rd, laterReset>>
  PROVE  BlockBudget'
BY DEF ConTypeOK, BlockBudget, Broadcast, Worth

LEMMA ReadBlockedBudget ==
  ASSUME ConTypeOK, BlockBudget, ReadBlocked
  PROVE  BlockBudget'
BY DEF ConTypeOK, BlockBudget, ReadBlocked, Worth

LEMMA ReadOtherBudget ==
  ASSUME NEW m, ConTypeOK, BlockBudget, ReadOther(m)
  PROVE  BlockBudget'
<1>1. CASE dumpState' = "DUMP_COMPLETE" /\ laterReset
  BY <1>1 DEF ConTypeOK, BlockBudget, ReadOther, Worth
<1>2. CASE dumpState' = "DUMP_COMPLETE" /\ ~laterReset
  BY <1>2 DEF ConTypeOK, BlockBudget, ReadOther, Worth
<1>3. CASE dumpState' # "DUMP_COMPLETE"
  BY <1>3 DEF ConTypeOK, BlockBudget, ReadOther, Worth
<1> QED BY <1>1, <1>2, <1>3

LEMMA DispatchBudget ==
  ASSUME ConTypeOK, BlockBudget, Dispatch
  PROVE  BlockBudget'
<1>1. CASE BlockedCheck
  BY <1>1 DEF ConTypeOK, BlockBudget, BlockedCheck, Worth
<1>2. CASE BlockedInform
  BY <1>2 DEF ConTypeOK, BlockBudget, BlockedInform, Broadcast, Worth
<1>3. CASE BlockedDecide
  <2>1. CASE prop.reset /\ ~prop.dump
    BY <1>3, <2>1 DEF ConTypeOK, BlockBudget, BlockedDecide, Worth
  <2>2. CASE ~(prop.reset /\ ~prop.dump)
    BY <1>3, <2>2 DEF ConTypeOK, BlockBudget, BlockedDecide, Worth
  <2> QED BY <2>1, <2>2
<1> QED BY <1>1, <1>2, <1>3 DEF Dispatch

LEMMA DumpWaiterBudget ==
  ASSUME NEW w, ConTypeOK, BlockBudget, DumpWaiter(w)
  PROVE  BlockBudget'
BY DEF ConTypeOK, BlockBudget, DumpWaiter, WaiterWaits, WaiterTimesOut, WaiterAsks, Worth

LEMMA BudgetSuffices ==
  ASSUME ConTypeOK, BlockBudget
  PROVE  BlockResetsJustified
BY DEF ConTypeOK, BlockBudget, BlockResetsJustified, Worth

LEMMA ConInitOK == ConInit => ConTypeOK /\ BlockBudget
<1> SUFFICES ASSUME ConInit PROVE ConTypeOK /\ BlockBudget
  OBVIOUS
<1>1. ConTypeOK
  <2>1. pipe \in Seq(Commands)
    BY DEF ConInit
  <2>2. waiter \in [Waiters -> {"none", "created", "waiting", "signalled", "timedout"}]
    BY DEF ConInit
  <2>3. alives \in Nat /\ blockResets \in Nat
    BY DEF ConInit
  <2>4. laterReset \in BOOLEAN
    BY DEF ConInit
  <2> QED BY <2>1, <2>2, <2>3, <2>4 DEF ConInit, ConTypeOK
<1>2. BlockBudget
  BY DEF ConInit, BlockBudget, Worth
<1> QED BY <1>1, <1>2

LEMMA BudgetIsKept == ConSpec => [](ConTypeOK /\ BlockBudget)
<1>1. ConTypeOK /\ BlockBudget /\ [ConNext]_conVars => (ConTypeOK /\ BlockBudget)'
  <2> SUFFICES ASSUME ConTypeOK, BlockBudget, [ConNext]_conVars
               PROVE  ConTypeOK' /\ BlockBudget'
    OBVIOUS
  <2>1. CASE AnyBroadcast
    <3>1. PICK m : Broadcast(m) /\ UNCHANGED <<rd, rdMsg, dumpState, laterReset>>
      BY <2>1 DEF AnyBroadcast
    <3> QED BY <3>1, BroadcastType, BroadcastBudget
  <2>2. CASE ReadBlocked
    BY <2>2, ReadBlockedType, ReadBlockedBudget
  <2>3. CASE ReadAgdsp
    <3>1. UNCHANGED <<rd, laterReset>> /\ Broadcast("AGDSP")
      BY <2>3 DEF ReadAgdsp
    <3> QED BY <2>3, <3>1, ReadAgdspType, BroadcastBudget
  <2>4. CASE \E m \in Says : ReadOther(m)
    BY <2>4, ReadOtherType, ReadOtherBudget
  <2>5. CASE Dispatch
    BY <2>5, DispatchType, DispatchBudget
  <2>6. CASE \E w \in Waiters : DumpWaiter(w)
    BY <2>6, DumpWaiterType, DumpWaiterBudget
  <2>7. CASE ReadPipe
    <3>1. ConTypeOK'
      BY <2>7 DEF ConTypeOK, ReadPipe
    <3>2. BlockBudget'
      BY <2>7 DEF BlockBudget, ReadPipe
    <3> QED BY <3>1, <3>2
  <2>8. CASE UNCHANGED conVars
    <3>1. ConTypeOK'
      BY <2>8 DEF ConTypeOK, conVars
    <3>2. BlockBudget'
      BY <2>8 DEF BlockBudget, conVars
    <3> QED BY <3>1, <3>2
  <2> QED
    BY <2>1, <2>2, <2>3, <2>4, <2>5, <2>6, <2>7, <2>8 DEF ConNext
<1> QED BY ConInitOK, <1>1, PTL DEF ConSpec

(***************************************************************************)
(* The client side by itself: whatever the threads broadcast and however   *)
(* often the pipe is emptied, no variable leaves its type.                 *)
(***************************************************************************)
THEOREM ConTypeCorrect == ConSpec => []ConTypeOK
BY BudgetIsKept, PTL

(***************************************************************************)
(* The resets that the client side asks for on behalf of blocked modems    *)
(* never outnumber the modem's revivals.                                   *)
(***************************************************************************)
THEOREM BlockResetsAreJustified == ConSpec => []BlockResetsJustified
<1>1. ConTypeOK /\ BlockBudget => BlockResetsJustified
  BY BudgetSuffices
<1> QED BY <1>1, BudgetIsKept, PTL

(***************************************************************************)
(* nvitemd runs for a modem that is known as alive, or until the dispatch  *)
(* of a block ends, whatever else is broadcast during that dispatch: every *)
(* change of s_modemState away from ALIVE stops nvitemd in the same step   *)
(* or leaves that to the dispatch, and nothing restarts it in between.     *)
(***************************************************************************)
THEOREM NvitemdRunsOnlyWhileAlive == ConSpec => []NvitemdOnlyWhileAlive
<1>1. ConInit => NvitemdOnlyWhileAlive
  BY DEF ConInit, NvitemdOnlyWhileAlive
<1>2. NvitemdOnlyWhileAlive /\ [ConNext]_conVars => NvitemdOnlyWhileAlive'
  <2> SUFFICES ASSUME NvitemdOnlyWhileAlive, [ConNext]_conVars
               PROVE  NvitemdOnlyWhileAlive'
    OBVIOUS
  <2> USE DEF NvitemdOnlyWhileAlive
  <2>1. CASE AnyBroadcast
    BY <2>1 DEF AnyBroadcast, Broadcast, ControlNvitemd
  <2>2. CASE ReadBlocked
    BY <2>2 DEF ReadBlocked
  <2>3. CASE ReadAgdsp
    BY <2>3 DEF ReadAgdsp, Broadcast, ControlNvitemd
  <2>4. CASE \E m \in Says : ReadOther(m)
    BY <2>4 DEF ReadOther
  <2>5. CASE Dispatch
    <3>1. CASE BlockedCheck
      BY <3>1 DEF BlockedCheck
    <3>2. CASE BlockedInform
      BY <3>2 DEF BlockedInform, Broadcast, ControlNvitemd
    <3>3. CASE BlockedDecide
      BY <3>3 DEF BlockedDecide
    <3> QED BY <2>5, <3>1, <3>2, <3>3 DEF Dispatch
  <2>6. CASE \E w \in Waiters : DumpWaiter(w)
    BY <2>6 DEF DumpWaiter, WaiterWaits, WaiterTimesOut, WaiterAsks
  <2>7. CASE ReadPipe
    BY <2>7 DEF ReadPipe
  <2>8. CASE UNCHANGED conVars
    BY <2>8 DEF conVars
  <2> QED
    BY <2>1, <2>2, <2>3, <2>4, <2>5, <2>6, <2>7, <2>8 DEF ConNext
<1> QED BY <1>1, <1>2, PTL DEF ConSpec
=============================================================================
