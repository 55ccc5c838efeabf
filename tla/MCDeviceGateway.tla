--------------------------- MODULE MCDeviceGateway ---------------------------
(* Two connections of one device, so that one can be superseded, and two    *)
(* commands: two tasks, or a task and the repair that it is allowed.        *)
EXTENDS DeviceGateway
MCCommands == 1..2
=============================================================================
