--------------------------- MODULE ChannelStream ---------------------------
(***************************************************************************)
(* What a relayed channel promises in one direction: the receiving end     *)
(* gets chunks the sending end put in, each once, in order, and never      *)
(* something else.  A stream has no gap; a channel that is declared lossy  *)
(* before anything was put in (one of datagrams) may leave some out.  A    *)
(* channel may stop anywhere, so nothing says that everything arrives.     *)
(***************************************************************************)
EXTENDS Naturals, Sequences

CONSTANT Chan

VARIABLES sent, rcvd,     \* chunks put in and chunks got out, per channel
          lossy           \* the channels that may leave chunks out

Init ==
    /\ sent = [c \in Chan |-> <<>>] /\ rcvd = [c \in Chan |-> <<>>]
    /\ lossy = {}

\* The last element, the number of the last chunk; 0 when there is none.
Newest(s) == IF s = <<>> THEN 0 ELSE s[Len(s)]

Declare(c) ==
    /\ sent[c] = <<>> /\ rcvd[c] = <<>>
    /\ lossy' = lossy \cup {c}
    /\ UNCHANGED <<sent, rcvd>>

Put(c) ==
    /\ sent' = [sent EXCEPT ![c] = Append(@, Len(@) + 1)]
    /\ UNCHANGED <<rcvd, lossy>>

Get(c) ==
    /\ \E k \in 1 .. Len(sent[c]) :
         /\ IF c \in lossy THEN k > Newest(rcvd[c]) ELSE k = Newest(rcvd[c]) + 1
         /\ rcvd' = [rcvd EXCEPT ![c] = Append(@, sent[c][k])]
    /\ UNCHANGED <<sent, lossy>>

Next == \E c \in Chan : Declare(c) \/ Put(c) \/ Get(c)

Spec == Init /\ [][Next]_<<sent, rcvd, lossy>>
=============================================================================
