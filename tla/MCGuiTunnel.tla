---------------------------- MODULE MCGuiTunnel ----------------------------
(***************************************************************************)
(* GuiTunnel for TLC: requests of one kind are interchangeable.            *)
(*                                                                         *)
(* Bound: a behaviour has all the stop requests, no gateway and no relay   *)
(* connection that ends by itself ("stops"), or one stop request at most   *)
(* and no gateway ("breaks"), or one stop request at most and readLoops    *)
(* that run on, which touch no mapping ("mappings").                       *)
(***************************************************************************)
EXTENDS GuiTunnel, FiniteSets, TLC

VARIABLE part

MCVars == <<part, vars>>

MCInit == part \in {"stops", "breaks", "mappings"} /\ Init

OneStop      == Cardinality({h \in Stop : stp[h] # "none"}) <= 1
NoGateway    == \A t \in Start : tun[t] # "map"
ReadLoopsRun == \A t \in Start : rl[t] \in {"none", "run"}

MCNext ==
    /\ Next
    /\ \/ part = "stops" /\ NoGateway' /\ ~broke'
       \/ part = "breaks" /\ NoGateway' /\ OneStop'
       \/ part = "mappings" /\ ReadLoopsRun' /\ OneStop'
    /\ UNCHANGED part

MCSpec == MCInit /\ [][MCNext]_MCVars

Symmetry == Permutations(Start) \cup Permutations(Stop)
=============================================================================
