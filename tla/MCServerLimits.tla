--------------------------- MODULE MCServerLimits ---------------------------
(***************************************************************************)
(* The limits of the server for TLC: connections (ServerChannels) and      *)
(* bandwidth (RateLimiter).  The two share no state: a behaviour is one of *)
(* the part that Init chooses, the other one stays in its initial state,   *)
(* of which its fairness asks nothing.                                     *)
(***************************************************************************)
EXTENDS ServerChannels, RateLimiter

VARIABLE part

MCVars == <<part, vars, rateVars>>

MCInit ==
    /\ part \in {"connections", "bandwidth"}
    /\ Init /\ RateInit

MCNext ==
    /\ \/ part = "connections" /\ Next /\ UNCHANGED rateVars
       \/ part = "bandwidth" /\ RateNext /\ UNCHANGED vars
    /\ UNCHANGED part

MCSpec == MCInit /\ [][MCNext]_MCVars /\ Fairness /\ RateFairness
=============================================================================
