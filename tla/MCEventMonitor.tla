--------------------------- MODULE MCEventMonitor ---------------------------
(* Bounded instance of EventMonitor. *)
EXTENDS EventMonitor

\* a uevent, a reboot, a thread that cannot be started and failures in the middle of a rescan
Storm == [uevent |-> 1, reboot |-> 1, nothread |-> 1, ep |-> 2, bus |-> 1]
=============================================================================
