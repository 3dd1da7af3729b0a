---------------------------- MODULE ForwardProofs ----------------------------
(***************************************************************************)
(* Proofs about Forward: ForwardUDP for any number of senders, local ports *)
(* and datagrams.                                                          *)
(***************************************************************************)
EXTENDS Forward, TLAPS

FwdUdpSpec == FwdInit /\ [][FwdUdpNext]_fwdUdpVars

UdpTypes ==
    /\ buf \in Nat
    /\ job \in [Dgram -> {"none", "new", "wait", "done"}]
    /\ DOMAIN asker = Dgram /\ DOMAIN port = Dgram

\* Datagrams that have not been read have no goroutine.
ReadInTurn == \A n \in Dgram : n > buf => job[n] = "none"

\* Two goroutines that wait have sockets of their own.
PortsApart ==
    \A m, n \in Dgram : job[m] = "wait" /\ job[n] = "wait" /\ port[m] = port[n] => m = n

\* An answer is on its way to the port its datagram was sent from; what was
\* answered had been sent.
AnswersReturn ==
    /\ \A a \in answers : /\ a.n \in Dgram /\ a.to = port[a.n]
                          /\ job[a.n] \in {"wait", "done"}
    /\ \A m \in inbox : m.n \in Dgram /\ job[m.n] # "none"

UdpInv == UdpTypes /\ ReadInTurn /\ PortsApart /\ AnswersReturn /\ AnswersTheAsker

(* Every step of the reading loop and of the goroutines keeps the invariant. *)
LEMMA UdpStep == UdpInv /\ [FwdUdpNext]_fwdUdpVars => UdpInv'
<1> SUFFICES ASSUME UdpInv, [FwdUdpNext]_fwdUdpVars PROVE UdpInv'
  OBVIOUS
<1> USE ForwardAssumption
    DEF UdpInv, UdpTypes, ReadInTurn, PortsApart, AnswersReturn, AnswersTheAsker, Dgram
<1>1. ASSUME NEW n \in Dgram, FwdRead(n) PROVE UdpInv'
  <2>1. PICK u \in FwdUser : asker' = [asker EXCEPT ![n] = u]
    BY <1>1 DEF FwdRead
  <2>2. n > buf /\ job[n] = "none"
    BY <1>1 DEF FwdRead
  <2>3. UdpTypes' /\ ReadInTurn' /\ PortsApart' /\ AnswersReturn'
    BY <1>1, <2>1, <2>2 DEF FwdRead
  <2>4. AnswersTheAsker'
    BY <1>1, <2>1, <2>2 DEF FwdRead
  <2> QED
    BY <2>3, <2>4
<1>2. ASSUME NEW n \in Dgram, FwdSend(n) PROVE UdpInv'
  <2>1. PICK p \in FwdPort \ PortsInUse :
           /\ port' = [port EXCEPT ![n] = p]
           /\ answers' \in {answers, answers \cup {[to |-> p, n |-> n]}}
    BY <1>2 DEF FwdSend
  <2>2. /\ job[n] = "new" /\ job' = [job EXCEPT ![n] = "wait"]
        /\ UNCHANGED <<buf, asker, inbox, strays>>
    BY <1>2 DEF FwdSend
  <2>3. \A m \in Dgram : job[m] = "wait" => port[m] # p
    BY <2>1 DEF PortsInUse
  <2>4. UdpTypes' /\ ReadInTurn' /\ PortsApart'
    BY <2>1, <2>2, <2>3
  <2>5. AnswersReturn' /\ AnswersTheAsker'
    BY <2>1, <2>2
  <2> QED
    BY <2>4, <2>5
<1>3. ASSUME NEW n \in Dgram, FwdGivesUp(n) PROVE UdpInv'
  BY <1>3 DEF FwdGivesUp
<1>4. ASSUME NEW n \in Dgram, FwdAnswer(n) PROVE UdpInv'
  <2>1. PICK a \in answers :
           /\ a.to = port[n] /\ answers' = answers \ {a}
           /\ inbox' = inbox \cup {[user |-> asker[n], n |-> a.n]}
           /\ strays' = IF a.n # n /\ job[a.n] = "done" THEN strays \cup {a.n} ELSE strays
    BY <1>4 DEF FwdAnswer
  <2>2. /\ job[n] = "wait" /\ job' = [job EXCEPT ![n] = "done"]
        /\ UNCHANGED <<buf, asker, port>>
    BY <1>4 DEF FwdAnswer
  <2>3. a.n = n \/ a.n \in strays'
    BY <2>1, <2>2
  <2>4. UdpTypes' /\ ReadInTurn' /\ PortsApart'
    BY <2>2
  <2>5. AnswersReturn'
    BY <2>1, <2>2
  <2>6. AnswersTheAsker'
    BY <2>1, <2>2, <2>3
  <2> QED
    BY <2>4, <2>5, <2>6
<1>5. CASE AnswerLost
  BY <1>5 DEF AnswerLost
<1>6. CASE UNCHANGED fwdUdpVars
  BY <1>6 DEF fwdUdpVars
<1> QED
  BY <1>1, <1>2, <1>3, <1>4, <1>5, <1>6 DEF FwdUdpNext

(* ForwardUDP hands an answer to the sender of the datagram it answers,     *)
(* unless it came after the goroutine that asked had given up and its port  *)
(* had been given to another.                                               *)
THEOREM AnswersTheAskerHolds == FwdUdpSpec => []AnswersTheAsker
<1>1. FwdInit => UdpInv
  BY ForwardAssumption
  DEF FwdInit, UdpInv, UdpTypes, ReadInTurn, PortsApart, AnswersReturn, AnswersTheAsker
<1>2. UdpInv => AnswersTheAsker
  BY DEF UdpInv
<1> QED
  BY <1>1, <1>2, UdpStep, PTL DEF FwdUdpSpec
=============================================================================
