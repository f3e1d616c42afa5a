---------------------------- MODULE LoadContract ----------------------------
(***************************************************************************)
(* What load_modem_img promises the rest of the daemon about the modem, of *)
(* the tables, images, flags and uevents of which this module knows        *)
(* nothing: a load takes the wake lock, stops the modem once, with the     *)
(* driver's write lock, starts it at most once, and gives both locks back; *)
(* a load that does not start the modem keeps the write lock.  Nobody else *)
(* starts or stops the modem.                                              *)
(***************************************************************************)
VARIABLES
  phase,    \* of the load: idle, called, stopped, started
  excl,     \* load_modem_img has the write lock
  running,  \* the modem has been started
  state,    \* g_modem_state, as far as a load sets it
  wake      \* the load holds the wake lock

vars == <<phase, excl, running, state, wake>>

Init ==
  /\ phase = "idle"
  /\ excl = FALSE
  /\ running \in BOOLEAN
  /\ state = "other"
  /\ wake = FALSE

\* the caller may cut the modem's power first
Call ==
  /\ phase = "idle"
  /\ phase' = "called"
  /\ running' \in {running, FALSE}
  /\ state' = "LOADING"
  /\ wake' = TRUE
  /\ UNCHANGED excl

Stop ==
  /\ phase = "called"
  /\ ~excl
  /\ phase' = "stopped"
  /\ excl' = TRUE
  /\ running' = FALSE
  /\ UNCHANGED <<state, wake>>

Start ==
  /\ phase = "stopped"
  /\ phase' = "started"
  /\ excl' = FALSE
  /\ running' = TRUE
  /\ UNCHANGED <<state, wake>>

\* after a failure without a start
Return ==
  /\ phase \in {"stopped", "started"}
  /\ phase' = "idle"
  /\ state' = "BOOTING"
  /\ wake' = FALSE
  /\ UNCHANGED <<excl, running>>

Next == Call \/ Stop \/ Start \/ Return

Spec == Init /\ [][Next]_vars
=============================================================================
