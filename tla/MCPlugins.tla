----------------------------- MODULE MCPlugins -----------------------------
(***************************************************************************)
(* The two dynamic plugin modules for TLC.  They share no state: a         *)
(* behaviour is one of the part that Init chooses, the other one stays in  *)
(* its initial state, of which its fairness asks nothing.                  *)
(***************************************************************************)
EXTENDS PluginProcess, IdleTimeout

VARIABLE part

MCVars == <<part, vars, hookVars>>

MCInit ==
    /\ part \in {"calls", "idle"}
    /\ Init /\ IdleInit

MCNext ==
    /\ \/ part = "calls" /\ Next /\ UNCHANGED hookVars
       \/ part = "idle" /\ IdleNext /\ UNCHANGED vars
    /\ UNCHANGED part

MCSpec == MCInit /\ [][MCNext]_MCVars /\ Fairness /\ IdleFairness
=============================================================================
