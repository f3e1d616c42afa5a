------------------------------ MODULE MCNvRead ------------------------------
(* An instance of NvRead: two saves, two damages, a read and a write error. *)
EXTENDS NvRead

MostFaults == [damage |-> 2, read |-> 1, write |-> 1]
=============================================================================
