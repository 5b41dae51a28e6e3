--------------------------- MODULE MCParameterStore ---------------------------
(* ParameterStore for TLC: BlinkCount (3, editable, watched by the LED task), set
   by the client, and JoystickX (5), set by the joystick task and, since
   handleSetParameter() does not look at meta.editable, by the client too. *)
EXTENDS ParameterStore
CONSTANTS Joystick
MCParams == {3, 5}
MCEditable == {3}
MCSensors == {Joystick}
MCSets == [t \in {App, Joystick} |-> IF t = App THEN {3, 5} ELSE {5}]
MCLo == [p \in MCParams |-> IF p = 3 THEN 1 ELSE 0]
MCHi == [p \in MCParams |-> 2]
MCDefault == [p \in MCParams |-> 1]
MCInputs == {0, 3}
===============================================================================
