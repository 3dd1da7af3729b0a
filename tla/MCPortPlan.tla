----------------------------- MODULE MCPortPlan -----------------------------
(* PortPlan for TLC: one or two local ports, and the default of -port, a     *)
(* port of its own, a list with a gap.                                       *)
EXTENDS PortPlan

MCLocal == {<<22>>, <<22, 8080>>, <<8080, 22>>, <<NotANumber, 22>>}
MCPorts == {<<0>>, <<2222>>, <<0, 2222>>}
NoneTaken == {}
=============================================================================
