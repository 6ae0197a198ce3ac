---------------------------- MODULE MCHeldCommand ----------------------------
(* Instances of HeldCommand.  Three sets make a thread sleep through two     *)
(* replacements of the command it copied, the second of which may bring back *)
(* an earlier command.                                                       *)
EXTENDS HeldCommand
CONSTANTS c1, c2
MCCommands == {c1, c2}
===============================================================================
