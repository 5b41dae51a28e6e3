-------------------------------- MODULE MCApp --------------------------------
(* App for TLC: clients that do not wait for the end of the last connection
   lead to faults from their first message on. *)
EXTENDS App
CONSTANTS PatientData, EagerData
MCData == [p \in BOOLEAN |-> IF p THEN PatientData ELSE EagerData]
==============================================================================
