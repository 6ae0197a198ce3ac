-------------------------- MODULE MCControllerSetup --------------------------
(* The controller manager configures one of the controllers; one client more *)
(* calls the same service.                                                   *)
EXTENDS ControllerSetup

CONSTANTS manager, other, behavior

MCClients == {manager, other}
MCParams == {behavior}
=============================================================================
