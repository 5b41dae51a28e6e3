--------------------------- MODULE MCWireProtocol ---------------------------
(* The wire protocols, with messages whose encrypted frames have the       *)
(* header's top bit clear (6 bytes) and set (167 bytes, the longest that   *)
(* the application encodes).                                               *)
EXTENDS WireProtocol

CONSTANT c1

MCConsoles == {c1}
MCSizes == {6, 167}
=============================================================================
