---------------------------- MODULE ClientTable ----------------------------
(***************************************************************************)
(* The sockets of the clients (modem_connect.c): the table s_clientFd and  *)
(* the three threads that use it without a common lock,                    *)
(*   acc  modem_setup_clients_connect, accepts connections                 *)
(*   bc   modem_write_data_to_clients; s_writeMutex lets one in at a time, *)
(*        so one process stands for all the threads that call it           *)
(*   rd   modem_ctrl_read_thread, reads the clients                        *)
(* with the kernel's table of open files, in which a number that was       *)
(* closed is given to the next connection.  What rd does with a message is *)
(* the subject of ModemConnect.                                            *)
(***************************************************************************)
EXTENDS Naturals, FiniteSetsExt

CONSTANTS
  N,         \* MAX_CLIENT_NUM
  MaxConns,  \* how many connections clients make
  Budget     \* how often the environment may do each thing

Events == {"broadcast", "block", "say", "hangup"}

ASSUME TableAssumption  == N \in Nat \ {0}
ASSUME ConnsAssumption  == MaxConns \in Nat \ {0}
ASSUME BudgetAssumption == Budget \in [Events -> Nat]

Slots  == 1..N
Conns  == 1..MaxConns            \* in the order in which they are accepted
Fds    == 1..MaxConns            \* enough: a connection has one number
NoFd   == 0                      \* -1 in the code
Closed == 0                      \* in place of a connection

VARIABLES
  table,     \* s_clientFd
  file,      \* the connection behind each file descriptor, or Closed
  peer,      \* the client's end: none, up, hungup
  unread,    \* connections with a message that nobody has read
  heard,     \* history: the states each connection was told since the state was set
  last,      \* history: the state each connection was told last
  overtaken, \* history: when the state was set, a text about another one was to be written yet
  state,     \* s_modemState
  blocked,   \* dispatch_modem_blocked has set the state, clients are not informed yet
  notified,  \* s_notifypipe holds something
  acc, bc, rd,  \* the threads: where they stand, and their locals
  accepted,  \* history: how many connections were accepted
  evictor,   \* history: connections that took the last slot of a full table
  clash,     \* history: a write of a broadcast has failed
  dead,      \* SIGPIPE has ended the daemon
  left       \* what is left of Budget

vars == <<table, file, peer, unread, heard, last, overtaken, state, blocked, notified, acc,
          bc, rd, accepted, evictor, clash, dead, left>>
clients == <<peer, unread>>
told    == <<heard, last, overtaken>>
history == <<accepted, evictor, clash>>

ModemStates == {"OFFLINE", "ALIVE", "ASSERT"}

TypeOK ==
  /\ table \in [Slots -> Fds \cup {NoFd}]
  /\ file \in [Fds -> Conns \cup {Closed}]
  /\ peer \in [Conns -> {"none", "up", "hungup"}]
  /\ unread \subseteq Conns
  /\ heard \in [Conns -> SUBSET ModemStates]
  /\ last \in [Conns -> ModemStates \cup {"nothing"}]
  /\ overtaken \in BOOLEAN
  /\ state \in ModemStates
  /\ blocked \in BOOLEAN
  /\ notified \in BOOLEAN
  /\ acc \in [pc: {"accept", "scan", "greet", "write", "close", "fill"},
              n: Fds \cup {NoFd}, i: Slots, s: ModemStates]
  /\ bc \in [pc: {"idle", "test", "write", "close", "clear"}, i: Slots, s: ModemStates]
  /\ rd \in [pc: {"build", "select", "walk", "read", "close", "clear"},
             set: SUBSET (Fds \X Conns), ready: SUBSET Fds, num: Nat, i: 1..N + 1,
             nfd: Fds \cup {NoFd}]
  /\ accepted \in 0..MaxConns
  /\ evictor \subseteq Conns
  /\ clash \in BOOLEAN
  /\ dead \in BOOLEAN
  /\ left \in [Events -> Nat]

\* nobody was told the state yet
Unheard == [c \in Conns |-> {}]

\* the threads at the head of their loops
Waiting  == [pc |-> "accept", n |-> NoFd, i |-> 1, s |-> "OFFLINE"]
Idle     == [pc |-> "idle", i |-> 1, s |-> "OFFLINE"]
Building == [pc |-> "build", set |-> {}, ready |-> {}, num |-> 0, i |-> 1, nfd |-> NoFd]

Init ==
  /\ table = [i \in Slots |-> NoFd]
  /\ file = [f \in Fds |-> Closed]
  /\ peer = [c \in Conns |-> "none"]
  /\ unread = {}
  /\ heard = Unheard
  /\ last = [c \in Conns |-> "nothing"]
  /\ overtaken = FALSE
  /\ state = "OFFLINE"
  /\ blocked = FALSE
  /\ notified = FALSE
  /\ acc = Waiting
  /\ bc = Idle
  /\ rd = Building
  /\ accepted = 0
  /\ evictor = {}
  /\ clash = FALSE
  /\ dead = FALSE
  /\ left = Budget

\* thread t stands at label l; no thread moves once the daemon has ended
At(t, l) == ~dead /\ t.pc = l

Spend(what) == left[what] > 0 /\ left' = [left EXCEPT ![what] = @ - 1]

-----------------------------------------------------------------------------
(***************************************************************************)
(* The kernel.                                                             *)
(***************************************************************************)
IsOpen(f) == f # NoFd /\ file[f] # Closed

\* close(f); closing -1 or a closed number fails, which nobody looks at
Close(f) == file' = IF f = NoFd THEN file ELSE [file EXCEPT ![f] = Closed]

\* write(f, "... s ..."): the client that is behind f now hears of s
Delivers(f, s) ==
  /\ IsOpen(f)
  /\ peer[file[f]] = "up"
  /\ heard' = [heard EXCEPT ![file[f]] = @ \cup {s}]
  /\ last' = [last EXCEPT ![file[f]] = s]
  /\ UNCHANGED overtaken

\* the number is not open, or the client hung up
WriteFails(f) == IsOpen(f) => peer[file[f]] = "hungup"

\* nobody handles SIGPIPE: whether EPIPE comes with it is up to who starts the daemon
MayDie(f) == dead' \in IF IsOpen(f) THEN BOOLEAN ELSE {FALSE}

Readable(c) == c \in unread \/ peer[c] = "hungup"

-----------------------------------------------------------------------------
(***************************************************************************)
(* acc: modem_setup_clients_connect.                                       *)
(***************************************************************************)
\* the next client connects and is accepted, under the lowest number not in use
Accept ==
  /\ At(acc, "accept")
  /\ accepted < MaxConns
  /\ accepted' = accepted + 1
  /\ peer' = [peer EXCEPT ![accepted'] = "up"]
  /\ LET n == Min({f \in Fds : file[f] = Closed}) IN
       /\ file' = [file EXCEPT ![n] = accepted']
       /\ acc' = [acc EXCEPT !.pc = "scan", !.n = n, !.i = 1]
  /\ UNCHANGED <<table, unread, told, state, blocked, notified, bc, rd, evictor, clash, dead,
                 left>>

\* one slot of the scan for a free one; after the last slot the table counts as full
Scan ==
  /\ At(acc, "scan")
  /\ LET free == table[acc.i] = NoFd
         full == ~free /\ acc.i = N
     IN /\ table' = IF free THEN [table EXCEPT ![acc.i] = acc.n] ELSE table
        /\ acc' = IF free THEN [acc EXCEPT !.pc = "greet"]
                  ELSE IF full THEN [acc EXCEPT !.pc = "close"] ELSE [acc EXCEPT !.i = @ + 1]
        /\ evictor' = IF full THEN evictor \cup {accepted} ELSE evictor
  /\ UNCHANGED <<file, clients, told, state, blocked, notified, bc, rd, accepted, clash, dead,
                 left>>

\* a mutation: the read thread is not woken
GreetNot ==
  /\ At(acc, "greet")
  /\ acc' = [acc EXCEPT !.pc = "write", !.s = state]
  /\ UNCHANGED <<table, file, clients, told, state, blocked, notified, bc, rd, history, dead,
                 left>>

\* the slot is filled: wake the read thread; "infor client modem current state"
Greet ==
  /\ At(acc, "greet")
  /\ notified' = TRUE
  /\ acc' = [acc EXCEPT !.pc = "write", !.s = state]
  /\ UNCHANGED <<table, file, clients, told, state, blocked, bc, rd, history, dead, left>>

WriteState ==
  /\ At(acc, "write")
  /\ acc' = Waiting
  /\ LET f == table[acc.i] IN
       \/ Delivers(f, acc.s) /\ UNCHANGED dead
       \/ WriteFails(f) /\ MayDie(f) /\ UNCHANGED told
  /\ UNCHANGED <<table, file, clients, state, blocked, notified, bc, rd, history, left>>

\* the table is full: the last client is closed, and its slot is filled
CloseLast ==
  /\ At(acc, "close")
  /\ Close(table[N])
  /\ acc' = [acc EXCEPT !.pc = "fill"]
  /\ UNCHANGED <<table, clients, told, state, blocked, notified, bc, rd, history, dead, left>>

FillLast ==
  /\ At(acc, "fill")
  /\ table' = [table EXCEPT ![N] = acc.n]
  /\ notified' = TRUE
  /\ acc' = Waiting
  /\ UNCHANGED <<file, clients, told, state, blocked, bc, rd, history, dead, left>>

SetupClientsConnect == Accept \/ Scan \/ Greet \/ WriteState \/ CloseLast \/ FillLast

-----------------------------------------------------------------------------
(***************************************************************************)
(* bc: modem_write_data_to_clients.  modem_ctrl_process_message sets the   *)
(* state before anybody is told; a message that does not change the state  *)
(* differs from these in nothing that matters here.                        *)
(***************************************************************************)
\* a greeting or a "Modem Blocked" that is under way tells another state than s
Overtakes(s) == (acc.pc = "write" /\ acc.s # s) \/ (blocked /\ s # "ASSERT")

SetState(s) ==
  /\ state' = s
  /\ heard' = Unheard
  /\ overtaken' = Overtakes(s)
  /\ UNCHANGED last

Begin(s) ==
  /\ At(bc, "idle")
  /\ Spend("broadcast")
  /\ SetState(s)
  /\ bc' = [pc |-> "test", i |-> 1, s |-> s]
  /\ UNCHANGED <<table, file, clients, blocked, notified, acc, rd, history, dead>>

\* dispatch_modem_blocked sets the state under the mutex ...
SetBlocked ==
  /\ At(bc, "idle")
  /\ state = "ALIVE"
  /\ Spend("block")
  /\ SetState("ASSERT")
  /\ blocked' = TRUE
  /\ UNCHANGED <<table, file, clients, notified, acc, bc, rd, history, dead>>

\* ... and broadcasts "Modem Blocked" up to 5 s later
InformBlocked ==
  /\ At(bc, "idle")
  /\ blocked
  /\ blocked' = FALSE
  /\ bc' = [pc |-> "test", i |-> 1, s |-> "ASSERT"]
  /\ UNCHANGED <<table, file, clients, told, state, notified, acc, rd, history, dead, left>>

\* a mutation: the loop leaves out the last slot
NextSlotShort == IF bc.i >= N - 1 THEN Idle ELSE [bc EXCEPT !.pc = "test", !.i = @ + 1]

\* a mutation: the loop runs past the table
NextSlotPast == IF bc.i > N THEN Idle ELSE [bc EXCEPT !.pc = "test", !.i = @ + 1]

NextSlot == IF bc.i = N THEN Idle ELSE [bc EXCEPT !.pc = "test", !.i = @ + 1]

TestSlot ==
  /\ At(bc, "test")
  /\ bc' = IF table[bc.i] # NoFd THEN [bc EXCEPT !.pc = "write"] ELSE NextSlot
  /\ UNCHANGED <<table, file, clients, told, state, blocked, notified, acc, rd, history, dead,
                 left>>

WriteSlot ==
  /\ At(bc, "write")
  /\ LET f == table[bc.i] IN
       \/ Delivers(f, bc.s) /\ bc' = NextSlot /\ UNCHANGED <<clash, dead>>
       \/ WriteFails(f) /\ MayDie(f) /\ bc' = [bc EXCEPT !.pc = "close"]
          /\ clash' = TRUE /\ UNCHANGED told
  /\ UNCHANGED <<table, file, clients, state, blocked, notified, acc, rd, accepted, evictor,
                 left>>

CloseSlot ==
  /\ At(bc, "close")
  /\ Close(table[bc.i])
  /\ bc' = [bc EXCEPT !.pc = "clear"]
  /\ UNCHANGED <<table, clients, told, state, blocked, notified, acc, rd, history, dead, left>>

ClearSlot ==
  /\ At(bc, "clear")
  /\ table' = [table EXCEPT ![bc.i] = NoFd]
  /\ bc' = NextSlot
  /\ UNCHANGED <<file, clients, told, state, blocked, notified, acc, rd, history, dead, left>>

WriteDataToClients == InformBlocked \/ TestSlot \/ WriteSlot \/ CloseSlot \/ ClearSlot

-----------------------------------------------------------------------------
(***************************************************************************)
(* rd: modem_ctrl_read_thread.  select waits for the files that were open  *)
(* when it was called, whatever their numbers mean later, and fails when a *)
(* number in the set is not open; rd then builds the set again.            *)
(***************************************************************************)
BuildSet ==
  /\ At(rd, "build")
  /\ LET fs == {table[i] : i \in Slots} \ {NoFd} IN
       /\ \A f \in fs : IsOpen(f)
       /\ rd' = [rd EXCEPT !.pc = "select", !.set = {<<f, file[f]>> : f \in fs}]
  /\ UNCHANGED <<table, file, clients, told, state, blocked, notified, acc, bc, history, dead,
                 left>>

\* the notify pipe is emptied; if it was all, the set is built again
Select ==
  /\ At(rd, "select")
  /\ LET ready == {p[1] : p \in {q \in rd.set : Readable(q[2])}} IN
       /\ ready # {} \/ notified
       /\ rd' = IF ready = {} THEN Building
                ELSE [Building EXCEPT !.pc = "walk", !.ready = ready,
                        !.num = Cardinality(ready) + IF notified THEN 1 ELSE 0]
  /\ notified' = FALSE
  /\ UNCHANGED <<table, file, clients, told, state, blocked, acc, bc, history, dead, left>>

NextClient == [rd EXCEPT !.pc = "walk", !.i = @ + 1, !.nfd = NoFd]

\* on to the next slot whose number is in the set
Walk ==
  /\ At(rd, "walk")
  /\ LET todo == {i \in rd.i..N : table[i] \in rd.ready} IN
       rd' = IF todo = {} \/ rd.num = 0 THEN Building
             ELSE [rd EXCEPT !.pc = "read", !.i = Min(todo), !.nfd = table[Min(todo)],
                             !.num = @ - 1]
  /\ UNCHANGED <<table, file, clients, told, state, blocked, notified, acc, bc, history, dead,
                 left>>

\* read(nfd) blocks while whoever is behind nfd now is silent
Read ==
  /\ At(rd, "read")
  /\ LET f == rd.nfd IN
       \/ IsOpen(f) /\ file[f] \in unread
          /\ unread' = unread \ {file[f]} /\ rd' = NextClient
       \/ (IsOpen(f) => file[f] \notin unread /\ peer[file[f]] = "hungup")
          /\ rd' = [rd EXCEPT !.pc = "close"] /\ UNCHANGED unread
  /\ UNCHANGED <<table, file, peer, told, state, blocked, notified, acc, bc, history, dead,
                 left>>

CloseRead ==
  /\ At(rd, "close")
  /\ Close(table[rd.i])
  /\ rd' = [rd EXCEPT !.pc = "clear"]
  /\ UNCHANGED <<table, clients, told, state, blocked, notified, acc, bc, history, dead, left>>

ClearRead ==
  /\ At(rd, "clear")
  /\ table' = [table EXCEPT ![rd.i] = NoFd]
  /\ rd' = NextClient
  /\ UNCHANGED <<file, clients, told, state, blocked, notified, acc, bc, history, dead, left>>

ReadThread == BuildSet \/ Select \/ Walk \/ Read \/ CloseRead \/ ClearRead

-----------------------------------------------------------------------------
\* the clients
Keep == ~dead /\ UNCHANGED <<table, file, told, state, blocked, notified, acc, bc,
                             rd, history, dead>>

Say(c)     == peer[c] = "up" /\ c \notin unread /\ Spend("say") /\ unread' = unread \cup {c}
              /\ UNCHANGED peer /\ Keep

Hangup(c)  == peer[c] = "up" /\ Spend("hangup") /\ peer' = [peer EXCEPT ![c] = "hungup"]
              /\ UNCHANGED unread /\ Keep

Next ==
  \/ SetupClientsConnect
  \/ \E s \in {"ALIVE", "ASSERT"} : Begin(s)
  \/ SetBlocked
  \/ WriteDataToClients
  \/ ReadThread
  \/ \E c \in Conns : Say(c) \/ Hangup(c)

Spec == Init /\ [][Next]_vars

-----------------------------------------------------------------------------
\* connection c has a slot
InTable(c) == \E i \in Slots : table[i] # NoFd /\ file[table[i]] = c

(***************************************************************************)
(* A client that found a free slot is told every state it has to know:     *)
(* when neither acc nor a broadcast is under way, every client in the      *)
(* table has been told the present state since it was set, by the greeting *)
(* or by the broadcast, although the two share no lock: the slot is filled *)
(* before the state is read, and the state is set before the slots are     *)
(* walked.  And it is the last that the client was told, unless it was set *)
(* between the choice of a greeting's text and its write, or between the   *)
(* report of a block and "Modem Blocked": nothing keeps the older text     *)
(* from following the newer one.  Not so once a broadcast failed to write: *)
(* then both bc and rd clear the slot, and the later one may clear the     *)
(* client that came in between.                                            *)
(***************************************************************************)
NoStateMissed ==
  acc.pc = "accept" /\ bc.pc = "idle" /\ ~blocked /\ ~clash =>
    \A c \in Conns \ evictor : InTable(c) /\ peer[c] = "up" =>
      state \in heard[c] /\ (last[c] = state \/ overtaken)

(***************************************************************************)
(* No client is out of earshot: whenever rd sleeps in select and nothing   *)
(* in the notify pipe will wake it, it waits for every connection of the   *)
(* table, through fills, evictions and numbers that are closed and reused  *)
(* under the sleeping select.                                              *)
(***************************************************************************)
EveryClientIsWatched ==
  rd.pc = "select" /\ ~notified /\ acc.pc = "accept" =>
    \A i \in Slots : IsOpen(table[i]) =>
      <<table[i], file[table[i]]>> \in rd.set

-----------------------------------------------------------------------------
(***************************************************************************)
(* The inductive invariant.  First, the numbers of open files: each stands *)
(* for one connection, so that one is free while connections are to come.  *)
(***************************************************************************)
Numbering ==
  /\ \A f, g \in Fds : file[f] # Closed /\ file[f] = file[g] => f = g
  /\ \A f \in Fds : file[f] <= accepted

Accepting ==
  acc.pc # "accept" => accepted > 0 /\ acc.n \in Fds /\ file[acc.n] \in {accepted, Closed}

Reading == rd.pc \in {"read", "close", "clear"} => rd.i \in Slots

TableInv == TypeOK /\ Numbering /\ Accepting /\ Reading

(***************************************************************************)
(* Second, what EveryClientIsWatched says while acc is at work: only the   *)
(* connection that acc will still report to rd may be unknown to rd.  Its  *)
(* number can already be in the table, in a slot not cleared yet.          *)
(***************************************************************************)
Watched ==
  rd.pc = "select" /\ ~notified =>
    \A i \in Slots : IsOpen(table[i]) =>
      \/ <<table[i], file[table[i]]>> \in rd.set
      \/ acc.pc \in {"scan", "greet", "close", "fill"} /\ table[i] = acc.n

(***************************************************************************)
(* Third, what NoStateMissed says while threads are at work: whoever does  *)
(* not know the state yet will be told by acc or by bc.  As long as bc has *)
(* not failed to write, only rd clears slots, and the slot that acc filled *)
(* only after it has closed the connection in it.                          *)
(***************************************************************************)
Slotted ==
  ~clash =>
    /\ bc.pc \notin {"close", "clear"}
    /\ rd.pc \in {"read", "close", "clear"} => table[rd.i] # NoFd
    /\ acc.pc \in {"close", "fill"} => accepted \in evictor
    /\ acc.pc \in {"greet", "write"} =>
         /\ table[acc.i] = acc.n \/ file[acc.n] = Closed
         /\ rd.pc = "clear" /\ rd.i = acc.i => file[acc.n] = Closed

\* the client of slot i knows the state, or somebody is going to tell it, or nobody has to
ToldOrDue(i) ==
  LET c == file[table[i]] IN
  \/ c \in evictor \/ peer[c] # "up" \/ state \in heard[c]
  \/ blocked /\ state = "ASSERT"
  \/ bc.pc \in {"test", "write"} /\ bc.i <= i /\ bc.s = state
  \/ acc.pc \in {"scan", "greet", "close", "fill"} /\ table[i] = acc.n
  \/ acc.pc = "write" /\ table[i] = acc.n /\ acc.s = state

Told == ~clash => \A i \in Slots : IsOpen(table[i]) => ToldOrDue(i)

(***************************************************************************)
(* And the order: unless the state overtook a text, whatever is written is *)
(* the present state, so that who has heard it has heard nothing since.    *)
(***************************************************************************)
Fresh ==
  ~overtaken =>
    /\ acc.pc = "write" => acc.s = state
    /\ bc.pc # "idle" => bc.s = state
    /\ blocked => state = "ASSERT"

LastHeard == ~overtaken => \A c \in Conns : state \in heard[c] => last[c] = state

StateInv == TableInv /\ Slotted /\ Told /\ Fresh /\ LastHeard
=============================================================================
