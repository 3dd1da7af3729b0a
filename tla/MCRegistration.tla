--------------------------- MODULE MCRegistration ---------------------------
(* Registration for TLC: every client registers all the ports, so that they  *)
(* compete for each of them.                                                 *)
EXTENDS Registration

AllPorts == [k \in Conn |-> Port]
=============================================================================
