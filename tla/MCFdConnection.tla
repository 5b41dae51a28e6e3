---------------------------- MODULE MCFdConnection ----------------------------
(* FdConnection for TLC: appTask, which sends and stops, and one parameter
   task (joystick or uptime), which only sends. *)
EXTENDS FdConnection
CONSTANTS App, Joystick
MCCallers == {App, Joystick}
MCStoppers == {App}
===============================================================================
