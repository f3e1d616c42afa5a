--------------------------- MODULE MCModemConnect ---------------------------
(* Bounded instances of ModemConnect. *)
EXTENDS ModemConnect

AllProps == [reset: BOOLEAN, dump: BOOLEAN, sysdump: {FALSE}, modemOnly: {FALSE}]
=============================================================================
