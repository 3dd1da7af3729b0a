------------------------------ MODULE Forward ------------------------------
(***************************************************************************)
(* The forwarders of the two direct modes (UPnP and STUN): ForwardTCP with *)
(* one of its connections, ForwardUDP with its datagrams.  Connections     *)
(* share nothing; the datagrams share the listening socket and the buffer  *)
(* it is read into.                                                        *)
(***************************************************************************)
EXTENDS Naturals, FiniteSets

CONSTANTS
    MaxChunks,   \* bound: chunks an end of the TCP connection writes
    FwdUser,     \* senders of datagrams
    FwdPort,     \* local ports that DialUDP may be given
    MaxDgrams    \* bound: datagrams read by ForwardUDP

ASSUME ForwardAssumption ==
    /\ MaxChunks \in Nat /\ MaxDgrams \in Nat
    /\ IsFiniteSet(FwdUser) /\ IsFiniteSet(FwdPort)

VARIABLES
    handler,     \* handleTCPConn: "none", "dial", "copy" or "closed"
    wrote,       \* chunks the sending end of a direction wrote
    shut,        \* directions whose sending end shut its side down
    copied,      \* chunks the receiving end of a direction got
    copier,      \* the goroutine of a direction
    fin,         \* directions whose receiving end sees the end of the stream
    gone,        \* ends that broke off or cannot be reached
    shutBoth,    \* ends whose connection the forwarder itself closed
    buf,         \* ForwardUDP: the datagram in the shared buffer, 0 for none
    job,         \* state of the goroutine of a datagram
    asker,       \* the sender of a datagram
    port,        \* the local port of the goroutine's socket
    answers,     \* answers of the target on their way: to a port, to a datagram
    inbox,       \* what came back: a sender and the datagram that was answered
    strays       \* history: datagrams whose answer came after their goroutine
                 \* had ended, to a port that belonged to another one by then

fwdTcpVars == <<handler, wrote, shut, copied, copier, fin, gone, shutBoth>>
fwdUdpVars == <<buf, job, asker, port, answers, inbox, strays>>

Dir     == {"up", "down"}        \* from the user to the target, and back
From(d) == IF d = "up" THEN "user" ELSE "target"
To(d)   == IF d = "up" THEN "target" ELSE "user"
Dgram   == 1 .. MaxDgrams

FwdInit ==
    /\ handler = "none" /\ gone = {} /\ shutBoth = {} /\ shut = {} /\ fin = {}
    /\ wrote = [d \in Dir |-> 0] /\ copied = [d \in Dir |-> 0]
    /\ copier = [d \in Dir |-> "none"]
    /\ buf = 0 /\ job = [n \in Dgram |-> "none"]
    /\ asker = [n \in Dgram |-> "none"] /\ port = [n \in Dgram |-> "none"]
    /\ answers = {} /\ inbox = {} /\ strays = {}

-----------------------------------------------------------------------------
(* ForwardTCP and handleTCPConn.                                            *)

\* Accept hands a connection to a goroutine of its own.
FwdAccept ==
    /\ handler = "none"
    /\ handler' = "dial"
    /\ UNCHANGED <<wrote, shut, copied, copier, fin, gone, shutBoth>>

\* The target refuses or does not answer for ten seconds: the user is hung up on.
FwdDialFails ==
    /\ handler = "dial"
    /\ handler' = "closed"
    /\ gone' = gone \cup {"target"}
    /\ fin' = fin \cup {"down"} /\ shutBoth' = {"user"}
    /\ UNCHANGED <<wrote, shut, copied, copier>>

FwdDial ==
    /\ handler = "dial"
    /\ handler' = "copy"
    /\ copier' = [d \in Dir |-> "copy"]
    /\ UNCHANGED <<wrote, shut, copied, fin, gone, shutBoth>>

\* The two ends: they write, shut their side down or break off as they like.
CanWrite(d) ==
    /\ handler \in (IF d = "up" THEN {"dial", "copy"} ELSE {"copy"})
    /\ d \notin shut /\ From(d) \notin gone

EndWrites(d) ==
    /\ CanWrite(d) /\ wrote[d] < MaxChunks
    /\ wrote' = [wrote EXCEPT ![d] = @ + 1]
    /\ UNCHANGED <<handler, shut, copied, copier, fin, gone, shutBoth>>

EndShuts(d) ==
    /\ CanWrite(d)
    /\ shut' = shut \cup {d}
    /\ UNCHANGED <<handler, wrote, copied, copier, fin, gone, shutBoth>>

EndBreaks(e) ==
    /\ handler = "copy" /\ e \notin gone
    /\ gone' = gone \cup {e}
    /\ UNCHANGED <<handler, wrote, shut, copied, copier, fin, shutBoth>>

\* io.Copy: a chunk is read and written.
FwdCopy(d) ==
    /\ copier[d] = "copy" /\ copied[d] < wrote[d]
    /\ To(d) \notin gone /\ shutBoth = {}
    /\ copied' = [copied EXCEPT ![d] = @ + 1]
    /\ UNCHANGED <<handler, wrote, shut, copier, fin, gone, shutBoth>>

\* io.Copy returns: the end of the stream, or reading or writing fails.
FwdCopyEnds(d) ==
    /\ copier[d] = "copy"
    /\ \/ copied[d] = wrote[d] /\ d \in shut
       \/ From(d) \in gone \cup shutBoth
       \/ copied[d] < wrote[d] /\ To(d) \in gone \cup shutBoth
    /\ copier' = [copier EXCEPT ![d] = "end"]
    /\ UNCHANGED <<handler, wrote, shut, copied, fin, gone, shutBoth>>

\* Faulty variant: the receiving end's connection is closed, not only its
\* writing side.
FwdCloseBoth(d) ==
    /\ copier[d] = "end"
    /\ copier' = [copier EXCEPT ![d] = "done"]
    /\ fin' = fin \cup {d}
    /\ shutBoth' = shutBoth \cup {To(d)}
    /\ UNCHANGED <<handler, wrote, shut, copied, gone>>

\* ... and the end of the stream is passed on.
FwdCloseWrite(d) ==
    /\ copier[d] = "end"
    /\ copier' = [copier EXCEPT ![d] = "done"]
    /\ fin' = fin \cup {d}
    /\ UNCHANGED <<handler, wrote, shut, copied, gone, shutBoth>>

\* wg.Wait returns: the deferred calls close both connections.
FwdReturn ==
    /\ handler = "copy" /\ \A d \in Dir : copier[d] = "done"
    /\ handler' = "closed"
    /\ shutBoth' = {"user", "target"}
    /\ UNCHANGED <<wrote, shut, copied, copier, fin, gone>>

FwdHandler == FwdAccept \/ FwdDialFails \/ FwdDial \/ FwdReturn
FwdCopier(d) == FwdCopy(d) \/ FwdCopyEnds(d) \/ FwdCloseWrite(d)

FwdTcpNext ==
    \/ FwdHandler
    \/ \E d \in Dir : FwdCopier(d) \/ EndWrites(d) \/ EndShuts(d)
    \/ \E e \in {"user", "target"} : EndBreaks(e)

\* The goroutines run and a dial ends; the two ends do what they like.
FwdFairness ==
    /\ WF_fwdTcpVars(FwdDial \/ FwdDialFails \/ FwdReturn)
    /\ \A d \in Dir : WF_fwdTcpVars(FwdCopier(d))

-----------------------------------------------------------------------------
(* ForwardUDP.                                                              *)

\* A datagram is read into the buffer, copied out of it, and given to a
\* goroutine together with its sender.  Datagrams are numbered as they come.
FwdRead(n) ==
    /\ n = buf + 1
    /\ buf' = n
    /\ job' = [job EXCEPT ![n] = "new"]
    /\ \E u \in FwdUser : asker' = [asker EXCEPT ![n] = u]
    /\ UNCHANGED <<port, answers, inbox, strays>>

\* Ports of the sockets that are open.
PortsInUse == {port[n] : n \in {m \in Dgram : job[m] = "wait"}}

\* Faulty variant: the goroutine sends what the shared buffer holds by then.
FwdSendShared(n) ==
    /\ job[n] = "new"
    /\ job' = [job EXCEPT ![n] = "wait"]
    /\ \E p \in FwdPort \ PortsInUse :
         /\ port' = [port EXCEPT ![n] = p]
         /\ answers' \in {answers, answers \cup {[to |-> p, n |-> buf]}}
    /\ UNCHANGED <<buf, asker, inbox, strays>>

\* DialUDP binds a port that is free, and the copy is sent.  The target may
\* answer it or not.
FwdSend(n) ==
    /\ job[n] = "new"
    /\ job' = [job EXCEPT ![n] = "wait"]
    /\ \E p \in FwdPort \ PortsInUse :
         /\ port' = [port EXCEPT ![n] = p]
         /\ answers' \in {answers, answers \cup {[to |-> p, n |-> n]}}
    /\ UNCHANGED <<buf, asker, inbox, strays>>

\* Dialling or sending fails, nothing comes for 30 seconds, or the target's
\* host refuses the datagram: the goroutine ends and its socket is closed.
FwdGivesUp(n) ==
    /\ job[n] \in {"new", "wait"}
    /\ job' = [job EXCEPT ![n] = "done"]
    /\ UNCHANGED <<buf, asker, port, answers, inbox, strays>>

\* The first answer to come to the socket goes back to the sender; an answer of
\* the target's to an earlier socket on the same port cannot be told apart.
FwdAnswer(n) ==
    /\ job[n] = "wait"
    /\ \E a \in answers :
         /\ a.to = port[n]
         /\ answers' = answers \ {a}
         /\ inbox' = inbox \cup {[user |-> asker[n], n |-> a.n]}
         /\ strays' = IF a.n # n /\ job[a.n] = "done" THEN strays \cup {a.n} ELSE strays
    /\ job' = [job EXCEPT ![n] = "done"]
    /\ UNCHANGED <<buf, asker, port>>

\* An answer to a port that nobody has open is dropped.
AnswerLost ==
    /\ \E a \in answers : a.to \notin PortsInUse /\ answers' = answers \ {a}
    /\ UNCHANGED <<buf, job, asker, port, inbox, strays>>

FwdUdpNext ==
    \/ \E n \in Dgram : FwdRead(n) \/ FwdSend(n) \/ FwdGivesUp(n) \/ FwdAnswer(n)
    \/ AnswerLost

-----------------------------------------------------------------------------
(* Properties.                                                              *)

\* A half-closed connection keeps working the other way: whatever an end wrote
\* before it shut its side down arrives, followed by the end of the stream,
\* though the other end may have shut its own side down long before (unless
\* one of the ends breaks off).  handleTCPConn: CloseWrite, and Close only
\* when both copies have ended.
HalfCloseDelivers ==
    \A d \in Dir : <>[](d \in shut => gone # {} \/ (d \in fin /\ copied[d] = wrote[d]))

\* However the goroutines of ForwardUDP interleave, a sender gets answers to
\* its own datagrams only.  The exception: the answer came when the goroutine
\* that asked had given up and another one had been given its port.
AnswersTheAsker == \A m \in inbox : asker[m.n] = m.user \/ m.n \in strays
=============================================================================
