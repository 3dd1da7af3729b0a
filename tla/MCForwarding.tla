---------------------------- MODULE MCForwarding ----------------------------
(***************************************************************************)
(* The ways traffic gets to the local service for TLC: through the relay   *)
(* (Tunnel) or, in the direct modes, through the forwarders (Forward).     *)
(* They share no state: a behaviour is one of the part that Init chooses,  *)
(* the other ones stay in their initial state, of which their fairness     *)
(* asks nothing.                                                           *)
(*                                                                         *)
(* Bound: the relay is explored with all its channels, no data and no      *)
(* plugin that refuses or closes ("relay"), and with one channel, TCP or   *)
(* UDP, its data and such plugins ("channel").                             *)
(***************************************************************************)
EXTENDS Tunnel, Forward

VARIABLE part

MCVars == <<part, vars, fwdTcpVars, fwdUdpVars>>

MCInit ==
    /\ part \in {"relay", "channel", "tcp", "udp"}
    /\ Init /\ FwdInit

PluginStep ==
    \/ SrvRefuseSession
    \/ \E c \in Chan : SrvRefuse(c) \/ SrvPluginCloses(c) \/ SrvPluginCuts(c)

OneChannel == Cardinality({c \in Chan : kind[c] # "none"}) <= 1

MCNext ==
    /\ \/ /\ part = "relay" /\ Next /\ ~PluginStep /\ UNCHANGED <<downVars, upVars>>
          /\ UNCHANGED <<fwdTcpVars, fwdUdpVars>>
       \/ part = "channel" /\ Next /\ OneChannel' /\ UNCHANGED <<fwdTcpVars, fwdUdpVars>>
       \/ part = "tcp" /\ FwdTcpNext /\ UNCHANGED <<vars, fwdUdpVars>>
       \/ part = "udp" /\ FwdUdpNext /\ UNCHANGED <<vars, fwdTcpVars>>
    /\ UNCHANGED part

MCSpec == MCInit /\ [][MCNext]_MCVars /\ Fairness /\ FwdFairness
=============================================================================
