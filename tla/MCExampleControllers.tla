------------------------- MODULE MCExampleControllers -------------------------
(* Every example controller, activated up to three times.                    *)
EXTENDS ExampleControllers

CONSTANTS here, there

MCPoses == {here, there}
=============================================================================
