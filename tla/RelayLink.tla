----------------------------- MODULE RelayLink -----------------------------
(***************************************************************************)
(* The relay connection between a registered client and the server as the  *)
(* byte stream it is: a frame is two writes, header and payload, made      *)
(* under the write lock of its side; a write blocks while the buffers of   *)
(* its direction are full; a read takes a header and then the payload it   *)
(* announces.  Around it, what decides who waits for whom: the goroutines  *)
(* that write, the two read loops that write as well (conn_ready, close,   *)
(* ping on one side, pong on the other), udpMu, and the 300 second read    *)
(* deadline of the client.                                                 *)
(*                                                                         *)
(* Which channel a frame belongs to, and what a data frame carries, is     *)
(* Tunnel's subject; here all channels of a kind look the same.            *)
(***************************************************************************)
EXTENDS Naturals, Sequences

CONSTANTS
    Cap,        \* parts (headers, payloads) the buffers of one direction hold
    MaxFrames,  \* bound: frames the writing goroutines start, all together
    MaxPings    \* bound: times the client's read deadline fires

SrvReader == "relayReadLoop"
CliReader == "readLoop"
Readers   == {SrvReader, CliReader}
\* The server's goroutines that write without udpMu (acceptors, the pipes, data of
\* the datagram loops), those that hold it (a datagram loop announcing a session,
\* the session cleanup), and the pipes of the client.
Writers   == {"srvFree", "srvUdp", "cliPipe"}
Procs     == Readers \cup Writers
Sides     == {"srv", "cli"}
Nobody    == "nobody"

ASSUME LinkAssumption ==
    Cap \in Nat \ {0} /\ MaxFrames \in Nat /\ MaxPings \in Nat

VARIABLES
    link,     \* the connection is open
    stream,   \* parts written by a side and not yet read
    mu,       \* holder of writeMu of a side
    udpMu,    \* holder of the server's udpMu
    at,       \* where a goroutine is in writeFrame
    job,      \* the frame it writes
    sent,     \* frames started by the writing goroutines
    rd,       \* where a read loop is: at a header, at a payload, with a frame
    frame,    \* the frame a read loop has at hand
    pings,    \* times the read deadline fired
    udpUsed,  \* history: a datagram loop or the cleanup took udpMu
    torn,     \* history: the deadline fired between a header and its payload
    misread   \* history: read loops that took a payload for a header

procVars == <<at, job, sent>>
readVars == <<rd, frame>>
histVars == <<pings, udpUsed, torn, misread>>
linkVars == <<link, stream, mu, udpMu, procVars, readVars, histVars>>

\* A close frame is a header only.
HasPayload(f) == f # "close"

SideOf(w)  == IF w \in {CliReader, "cliPipe"} THEN "cli" ELSE "srv"
\* The direction a read loop reads from.
PeerOf(r)  == IF r = SrvReader THEN "cli" ELSE "srv"

\* The frames a goroutine writes: "new" is new_conn or new_udp_conn.
Writes(w) ==
    CASE w = "srvFree" -> {"new", "data", "close"}
      [] w = "srvUdp"  -> {"new", "close"}
      [] w = "cliPipe" -> {"data", "udpData", "close"}

LinkInit ==
    /\ link = TRUE
    /\ stream = [s \in Sides |-> <<>>] /\ mu = [s \in Sides |-> Nobody]
    /\ udpMu = Nobody
    /\ at = [w \in Procs |-> "idle"] /\ job = [w \in Procs |-> "none"]
    /\ sent = 0
    /\ rd = [r \in Readers |-> "header"] /\ frame = [r \in Readers |-> "none"]
    /\ pings = 0 /\ udpUsed = FALSE /\ torn = FALSE /\ misread = {}

-----------------------------------------------------------------------------
(* writeFrame and writeFrameLocked.                                         *)

\* The goroutine is about to write f.
Want(w, f) ==
    /\ at' = [at EXCEPT ![w] = "header"]
    /\ job' = [job EXCEPT ![w] = f]

\* A goroutine has something to send.  The datagram loop announcing a session
\* and the cleanup take udpMu first and keep it until the frame is out.
Begin(w, f) ==
    /\ link /\ at[w] = "idle" /\ sent < MaxFrames /\ f \in Writes(w)
    /\ IF w = "srvUdp" THEN udpMu = Nobody /\ udpMu' = w ELSE UNCHANGED udpMu
    /\ udpUsed' = (udpUsed \/ w = "srvUdp")
    /\ sent' = sent + 1
    /\ Want(w, f)
    /\ UNCHANGED <<link, stream, mu, readVars, pings, torn, misread>>

\* on_open answers close for a new session: the loop goes on to its next
\* datagram, nothing is written, and udpMu stays locked.
Refused ==
    /\ at["srvUdp"] = "idle" /\ udpMu = Nobody
    /\ udpMu' = "srvUdp"
    /\ udpUsed' = TRUE
    /\ UNCHANGED <<link, stream, mu, procVars, readVars, pings, torn, misread>>

\* writeFrame returns: writeMu is unlocked, udpMu by who took it.
LeaveWrite(w) ==
    /\ at' = [at EXCEPT ![w] = "idle"]
    /\ job' = [job EXCEPT ![w] = "none"]
    /\ mu' = [mu EXCEPT ![SideOf(w)] = Nobody]
    /\ udpMu' = IF udpMu = w THEN Nobody ELSE udpMu

\* One of the two writes: possible while the buffers have room.
Put(w, part) ==
    /\ at[w] = part /\ link /\ Len(stream[SideOf(w)]) < Cap
    /\ stream' = [stream EXCEPT ![SideOf(w)] = Append(@, [t |-> job[w], part |-> part])]

\* Faulty variant: writeMu is not waited for.
WriteHeaderUnlocked(w) ==
    /\ Put(w, "header")
    /\ IF HasPayload(job[w])
       THEN /\ at' = [at EXCEPT ![w] = "payload"]
            /\ mu' = [mu EXCEPT ![SideOf(w)] = w]
            /\ UNCHANGED <<udpMu, job>>
       ELSE LeaveWrite(w)
    /\ UNCHANGED <<link, sent, readVars, histVars>>

\* writeMu is taken and the header written.  Taking the lock is no step of its
\* own: a holder that has no room for its header keeps out nobody who has.
WriteHeader(w) ==
    /\ mu[SideOf(w)] = Nobody
    /\ Put(w, "header")
    /\ IF HasPayload(job[w])
       THEN /\ at' = [at EXCEPT ![w] = "payload"]
            /\ mu' = [mu EXCEPT ![SideOf(w)] = w]
            /\ UNCHANGED <<udpMu, job>>
       ELSE LeaveWrite(w)
    /\ UNCHANGED <<link, sent, readVars, histVars>>

WritePayload(w) ==
    /\ Put(w, "payload")
    /\ LeaveWrite(w)
    /\ UNCHANGED <<link, sent, readVars, histVars>>

\* Faulty variant: a write that fails leaves writeMu locked.
WriteFailsKeepsLock(w) ==
    /\ at[w] # "idle" /\ ~link
    /\ mu[SideOf(w)] \in {w, Nobody}
    /\ at' = [at EXCEPT ![w] = "idle"]
    /\ job' = [job EXCEPT ![w] = "none"]
    /\ udpMu' = IF udpMu = w THEN Nobody ELSE udpMu
    /\ UNCHANGED <<link, stream, mu, sent, readVars, histVars>>

\* The connection is closed: the write fails, what was written is lost.
WriteFails(w) ==
    /\ at[w] # "idle" /\ ~link
    /\ mu[SideOf(w)] \in {w, Nobody}
    /\ LeaveWrite(w)
    /\ UNCHANGED <<link, stream, sent, readVars, histVars>>

-----------------------------------------------------------------------------
(* readFrame, and what the read loops do with a frame.                      *)

\* Faulty variant: the server acknowledges conn_ready too.
AnswersToAcks(r, f) ==
    CASE r = CliReader /\ f = "new"                    -> {"conn_ready", "close"}
      [] r = SrvReader /\ f \in {"ping", "conn_ready"} -> {"pong"}
      [] OTHER                                          -> {}

\* What a read loop writes before it reads on: the client answers a channel it
\* dialled, or could not dial; the server answers a ping.
Answers(r, f) ==
    CASE r = CliReader /\ f = "new"  -> {"conn_ready", "close"}
      [] r = SrvReader /\ f = "ping" -> {"pong"}
      [] OTHER                       -> {}

\* relayReadLoop looks for the UDP session of a close frame, and of data that is
\* not for a TCP channel, under udpMu.
NeedsUdpMu(r, f) == r = SrvReader /\ f \in {"udpData", "close"}

\* A frame was read whole: the loop handles it.  Data is written to the external
\* user or the local service.
Handle(r, f) ==
    /\ frame' = [frame EXCEPT ![r] = "none"]
    /\ rd' = [rd EXCEPT ![r] = IF NeedsUdpMu(r, f) THEN "udpMu" ELSE "header"]
    /\ IF Answers(r, f) = {} THEN UNCHANGED <<at, job>>
                             ELSE \E a \in Answers(r, f) : Want(r, a)

Reads(r, where) == rd[r] = where /\ at[r] = "idle" /\ link /\ stream[PeerOf(r)] # <<>>

ReadHeader(r) ==
    /\ Reads(r, "header") /\ Head(stream[PeerOf(r)]).part = "header"
    /\ stream' = [stream EXCEPT ![PeerOf(r)] = Tail(@)]
    /\ LET f == Head(stream[PeerOf(r)]).t IN
         IF HasPayload(f)
         THEN /\ frame' = [frame EXCEPT ![r] = f]
              /\ rd' = [rd EXCEPT ![r] = "payload"]
              /\ UNCHANGED <<at, job>>
         ELSE Handle(r, f)
    /\ UNCHANGED <<link, mu, udpMu, sent, histVars>>

\* Payload bytes where a header should be: the length they spell is too large,
\* which ends the loop, or they pass for a frame of some unknown channel.
ReadGarbage(r) ==
    /\ Reads(r, "header") /\ Head(stream[PeerOf(r)]).part = "payload"
    /\ misread' = misread \cup {r}
    /\ stream' = [stream EXCEPT ![PeerOf(r)] = Tail(@)]
    /\ link' \in {TRUE, FALSE}
    /\ UNCHANGED <<mu, udpMu, procVars, readVars, pings, udpUsed, torn>>

\* io.ReadFull takes as many bytes as the header said, whatever they are.
ReadPayload(r) ==
    /\ Reads(r, "payload")
    /\ stream' = [stream EXCEPT ![PeerOf(r)] = Tail(@)]
    /\ misread' = IF Head(stream[PeerOf(r)]) = [t |-> frame[r], part |-> "payload"]
                  THEN misread ELSE misread \cup {r}
    /\ Handle(r, frame[r])
    /\ UNCHANGED <<link, mu, udpMu, sent, pings, udpUsed, torn>>

\* Faulty variant: the lookup of a UDP session does not give the lock back.
LookUpKeepsLock ==
    /\ rd[SrvReader] = "udpMu" /\ udpMu = Nobody
    /\ rd' = [rd EXCEPT ![SrvReader] = "header"]
    /\ udpMu' = SrvReader
    /\ UNCHANGED <<link, stream, mu, procVars, frame, histVars>>

\* relayReadLoop has udpMu for the moment it takes to look a session up.
LookUp ==
    /\ rd[SrvReader] = "udpMu" /\ udpMu = Nobody
    /\ rd' = [rd EXCEPT ![SrvReader] = "header"]
    /\ UNCHANGED <<link, stream, mu, udpMu, procVars, frame, histVars>>

\* readLoop: 300 seconds without a whole frame.  What was read of one is
\* dropped, a ping is sent, and the next read starts with a header.
ReadTimeout ==
    /\ rd[CliReader] \in {"header", "payload"} /\ at[CliReader] = "idle" /\ link
    /\ pings < MaxPings
    /\ pings' = pings + 1
    /\ torn' = (torn \/ rd[CliReader] = "payload")
    /\ rd' = [rd EXCEPT ![CliReader] = "header"]
    /\ frame' = [frame EXCEPT ![CliReader] = "none"]
    /\ Want(CliReader, "ping")
    /\ UNCHANGED <<link, stream, mu, udpMu, sent, udpUsed, misread>>

\* readFrame fails, or the handler's write did: the loop ends and the side
\* closes the connection (readLoop's deferred Close, handleRelayClient).
LoopEnds(r) ==
    /\ ~link /\ rd[r] \in {"header", "payload"} /\ at[r] = "idle"
    /\ rd' = [rd EXCEPT ![r] = "done"]
    /\ frame' = [frame EXCEPT ![r] = "none"]
    /\ UNCHANGED <<link, stream, mu, udpMu, procVars, histVars>>

\* Client.Close() or the network ends the connection.
LinkDrops ==
    /\ link
    /\ link' = FALSE
    /\ UNCHANGED <<stream, mu, udpMu, procVars, readVars, histVars>>

-----------------------------------------------------------------------------
WriteNext(w) == WriteHeader(w) \/ WritePayload(w) \/ WriteFails(w)
ReadNext(r)  == ReadHeader(r) \/ ReadGarbage(r) \/ ReadPayload(r) \/ LoopEnds(r)

LinkNext ==
    \/ \E w \in Writers : \E f \in Writes(w) : Begin(w, f)
    \/ \E w \in Procs : WriteNext(w)
    \/ \E r \in Readers : ReadNext(r)
    \/ Refused \/ LookUp \/ ReadTimeout \/ LinkDrops

LinkSpec == LinkInit /\ [][LinkNext]_linkVars

(* Goroutines that can run do.  The handlers are among them: the external    *)
(* users and the local services are taken to go on reading (the read loops   *)
(* wait for them without a deadline, main.go extConn.Write, and a user that  *)
(* does not read holds its client's loop up; ServerChannels has it).  Weak   *)
(* fairness is enough while the frames are bounded: nobody can be overtaken  *)
(* at a lock for ever; where they are not, Go's mutexes do not starve a      *)
(* waiter.  Who starts to send, the deadline and the network are free.       *)
LinkFairness ==
    /\ \A w \in Procs : WF_linkVars(WriteNext(w))
    /\ \A r \in Readers : WF_linkVars(ReadNext(r))
    /\ WF_linkVars(LookUp)

-----------------------------------------------------------------------------
(* Properties.                                                              *)

\* Framing holds up: whatever is written at the same time, and whoever else
\* waits, a read loop never takes payload bytes for a header or the payload of
\* one frame for another's.  The one exception is the client's own deadline
\* firing between the two parts of a frame.
FramesStayWhole ==
    /\ SrvReader \notin misread
    /\ CliReader \in misread => torn

\* A goroutine inside writeFrame (or waiting for its lock) that nothing but a
\* read at the other end can free.
Stuck(w) == link /\ at[w] # "idle" /\ Len(stream[SideOf(w)]) = Cap

\* Both read loops wait, each for the other to read: the client's for room to
\* answer an announcement, the server's for room for a pong, or for udpMu whose
\* holder waits for room.
Wedged ==
    /\ Stuck(CliReader)
    /\ \/ Stuck(SrvReader)
       \/ rd[SrvReader] = "udpMu" /\ udpMu # Nobody /\ Stuck(udpMu)

\* A refused session has left udpMu locked, and nobody will unlock it.
Abandoned == udpMu = "srvUdp" /\ at["srvUdp"] = "idle"

\* The relay does not lock up by itself: a goroutine that sends a frame gets it
\* out, or sees the connection fail, unless the two read loops wait for each
\* other, or the server's waits for the udpMu that a refused session has left
\* locked.  Nothing else (locks held across a write, a full buffer, a reader
\* that writes) holds anybody up for good: again and again it is out of
\* writeFrame.
SendersGetThrough ==
    \A w \in Procs : []<>
        (at[w] = "idle" \/ Wedged \/ (Abandoned /\ rd[SrvReader] = "udpMu"))

\* TCP channels alone never bring that about: it takes a UDP session or a
\* heartbeat.
TcpNeverWedges ==
    Wedged => pings > 0 \/ udpUsed

\* When the connection is gone (it does not come back) everybody comes out of it
\* for good: no goroutine is left
\* in a write, writeMu is free on both sides and the client's loop has ended;
\* and, unless a refused session has left it locked, udpMu is free and the
\* server's loop has ended, so the teardown that takes the same locks can run.
DownReleasesAll ==
    <>[](~link =>
           /\ \A w \in Procs : at[w] = "idle"
           /\ mu = [s \in Sides |-> Nobody] /\ rd[CliReader] = "done"
           /\ Abandoned \/ (udpMu = Nobody /\ rd[SrvReader] = "done"))
=============================================================================
