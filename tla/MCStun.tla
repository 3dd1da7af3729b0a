------------------------------- MODULE MCStun -------------------------------
(* Stun for TLC: an address whose octets differ, and one transaction id.     *)
EXTENDS Stun

MCHosts == {<<203, 0, 113, 7>>}
MCPorts == {<<31, 144>>, <<0, 80>>}
MCTxn   == {<<1, 2, 3, 4, 5, 6, 7, 8, 9, 10, 11, 12>>}
=============================================================================
