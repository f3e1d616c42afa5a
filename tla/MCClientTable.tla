--------------------------- MODULE MCClientTable ---------------------------
(* Bounded instance of ClientTable. *)
EXTENDS ClientTable

OneOfEach == [broadcast |-> 1, block |-> 1, say |-> 1, hangup |-> 1]
=============================================================================
