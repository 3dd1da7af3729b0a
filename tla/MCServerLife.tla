---------------------------- MODULE MCServerLife ----------------------------
(***************************************************************************)
(* The life of clients (Registration), of the relay connection of one of   *)
(* them (RelayLink) and of the server (ServerShutdown) for TLC.  The three *)
(* share no state: a behaviour is one of the part that Init chooses, the   *)
(* other ones stay in their initial state, of which their fairness asks    *)
(* nothing.                                                                *)
(***************************************************************************)
EXTENDS MCRegistration, RelayLink, ServerShutdown

VARIABLE part

MCVars == <<part, vars, linkVars, shutVars>>

MCInit ==
    /\ part \in {"clients", "link", "server"}
    /\ Init /\ LinkInit /\ ShutInit
    /\ part # "server" => serves = <<"relay">>

MCNext ==
    /\ \/ part = "clients" /\ Next /\ UNCHANGED <<linkVars, shutVars>>
       \/ part = "link" /\ LinkNext /\ UNCHANGED <<vars, shutVars>>
       \/ part = "server" /\ ShutNext /\ UNCHANGED <<vars, linkVars>>
    /\ UNCHANGED part

MCSpec ==
    MCInit /\ [][MCNext]_MCVars /\ Fairness /\ LinkFairness /\ ShutFairness
=============================================================================
