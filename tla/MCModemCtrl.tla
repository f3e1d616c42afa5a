---------------------------- MODULE MCModemCtrl ----------------------------
(* Bounded instances of ModemCtrl. *)
EXTENDS ModemCtrl

Settings == [reset: BOOLEAN, dump: BOOLEAN, sysdump: BOOLEAN, modemOnly: BOOLEAN]

\* reset is enabled; the whole external modem is reloaded
ReloadAll == {p \in Settings : p.reset /\ ~p.modemOnly}

\* ... and nobody waits for a dump
ReloadAtOnce == {p \in ReloadAll : ~p.dump}

NoReset == [reset |-> FALSE, dump |-> TRUE, sysdump |-> TRUE, modemOnly |-> FALSE]

\* one setting that takes the handshake, one that does not reset
TwoSettings ==
  {NoReset, [reset |-> TRUE, dump |-> FALSE, sysdump |-> FALSE, modemOnly |-> TRUE]}

\* reset is enabled; the modem alone is reset, after a handshake
ReloadModem == {p \in Settings : p.reset /\ p.modemOnly /\ ~p.sysdump}

\* every way to reset, and one setting without
ResetOrNot == ReloadAll \cup ReloadModem \cup {NoReset}

Events(crash, block, panics, stuck, slow, diag, parm, ioerr) ==
  [crash |-> crash, block |-> block, panic |-> panics, stuck |-> stuck,
   slow |-> slow, diag |-> diag, parm |-> parm, ioerr |-> ioerr]

\* The kernel reports trouble and there is no diag device.  A client reports a
\* block, or a boot or a thread is slow and another boot fails.
TroubleReports == {Events(0, 1, 1, 0, 0, 1, 0, 0), Events(0, 0, 1, 1, 1, 1, 0, 0)}

\* a crash, a boot that fails, a P-ARM assert, a read error
CrashAndPArm == {Events(1, 0, 0, 1, 0, 0, 1, 1)}

OneCrash == {Events(1, 0, 0, 1, 0, 0, 0, 0)}

\* a crash that the modem and a client report
CrashAndBlock == {Events(1, 1, 0, 0, 0, 0, 0, 0)}
=============================================================================
