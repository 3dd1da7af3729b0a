------------------------------- MODULE Tunnel -------------------------------
(***************************************************************************)
(* A registered tunnel end to end: external users on the server's public   *)
(* ports, the server's half of each channel, the relay connection as two   *)
(* FIFO queues of frames, the client's half (relay.Client) and the local   *)
(* service behind it.                                                      *)
(*                                                                         *)
(* The limiters and the plugin hooks of the server's half are the subject  *)
(* of ServerChannels; here a server step is what the other end can see of  *)
(* it, a refusal by a plugin (on_accept, on_open) and a close by OnCheck   *)
(* included.  The close branches behind on_data are never taken:           *)
(* dynplugin/adapter.go returns an empty action.  The queues have no       *)
(* bound, a Write to a user or to the service does not block, and          *)
(* heartbeats (ping, pong) move no channel: back-pressure and heartbeats   *)
(* are the subject of RelayLink.                                           *)
(***************************************************************************)
EXTENDS Naturals, Sequences, FiniteSets

CONSTANTS
    TcpChan, UdpChan,   \* channel ids (nextCID), each used once: those that may be
                        \* given to TCP connections and to UDP sessions
    NoChan,
    MaxIn,           \* bound: chunks an external user sends on a channel
    MaxOut,          \* bound: chunks the local service sends on a channel
    ServerCompress,  \* the server runs with -compress
    ClientCompress   \* the client runs with -compress

ASSUME TunnelAssumption ==
    /\ IsFiniteSet(TcpChan \cup UdpChan) /\ NoChan \notin TcpChan \cup UdpChan
    /\ MaxIn \in Nat /\ MaxOut \in Nat
    /\ ServerCompress \in BOOLEAN /\ ClientCompress \in BOOLEAN

VARIABLES
    link,      \* the relay connection is up
    s2c, c2s,  \* frames written and not yet read
    kind,      \* what the server handed a channel id out for
    sTab,      \* server: keys of channelConns and of udpSessions
    ext,       \* the external connection of a channel; "cut" when it was a session
               \* that the plugin checker dropped, which sends no frameClose
    sPipe,     \* server: a TCP channel from its entry in channelConns ("opening")
               \* to the end of its pipeExternalToClient
    sRd,       \* server: handleRelayClient reads, waits for udpMu for ever
               \* ("stuck"), or has torn down up to ("swept") or with
               \* conn.Close() ("done")
    udpJam,    \* server: udpReadLoop went on with udpMu locked
    late,      \* history: TCP channels entered after the teardown's sweep
    cTab,      \* client: keys of channels and udpChannels
    infos,     \* client: keys of connInfos, what the GUI lists
    active,    \* client: logutil's activeChans, what the GUI counts
    local,     \* client: the connection to the local service ("closed" also
               \* when it could not be dialled)
    cRd, cCh,  \* client: where readLoop is, and the channel it sets up
    closeCh,   \* client: closeCh is closed
    cPipe,     \* client: pipeLocalToRelay / pipeUDPFromRelay of a channel
    extSent, locRcvd,   \* chunks read from outside, written to the service
    locSent, extRcvd    \* chunks read from the service, written outside

Chan == TcpChan \cup UdpChan
Udp  == {c \in Chan : kind[c] = "udp"}

srvVars  == <<sTab, ext, sPipe, sRd, udpJam, late, kind>>
tabVars  == <<cTab, infos, active, local>>
cliVars  == <<cRd, cCh, closeCh, cPipe>>
downVars == <<extSent, locRcvd>>
upVars   == <<locSent, extRcvd>>
vars     == <<link, s2c, c2s, srvVars, tabVars, cliVars, downVars, upVars>>

(* Frames; z marks frameDataCompressed.                                     *)
New(c)        == [t |-> "new", ch |-> c]
Ready(c)      == [t |-> "ready", ch |-> c]
Close(c)      == [t |-> "close", ch |-> c]
Data(c, n, z) == [t |-> "data", ch |-> c, n |-> n, z |-> z]

ConnStates    == {"none", "open", "closed"}
ExtStates     == ConnStates \cup {"cut"}
SrvPipeStates == {"none", "opening", "run", "done"}
PipeStates    == {"none", "run", "exit", "done"}

Init ==
    /\ link = TRUE /\ s2c = <<>> /\ c2s = <<>>
    /\ kind = [c \in Chan |-> "none"] /\ sTab = {}
    /\ sRd = "read" /\ udpJam = FALSE /\ late = {}
    /\ ext = [c \in Chan |-> "none"]
    /\ sPipe = [c \in Chan |-> "none"]
    /\ cTab = {} /\ infos = {} /\ active = 0
    /\ local = [c \in Chan |-> "none"]
    /\ cRd = "read" /\ cCh = NoChan /\ closeCh = FALSE
    /\ cPipe = [c \in Chan |-> "none"]
    /\ extSent = [c \in Chan |-> 0] /\ locRcvd = [c \in Chan |-> <<>>]
    /\ locSent = [c \in Chan |-> 0] /\ extRcvd = [c \in Chan |-> <<>>]

\* Faulty variants: the write lock is not taken, and a frame written meanwhile
\* by another goroutine is cut to pieces.
ToClientUnlocked(f) ==
    s2c' \in {Append(s2c, f), Append(SubSeq(s2c, 1, Len(s2c) - 1), f)}
ToServerUnlocked(f) ==
    c2s' \in {Append(c2s, f), Append(SubSeq(c2s, 1, Len(c2s) - 1), f)}

\* What is written to a broken connection is lost; the error is the caller's.
ToClient(f) == s2c' = IF link THEN Append(s2c, f) ELSE s2c
ToServer(f) == c2s' = IF link THEN Append(c2s, f) ELSE c2s

\* clientSupportsCompression: the client announced "compression" iff it has a
\* compressor.  Compress may still decline (small or incompressible chunks).
SrvCompresses == {FALSE} \cup (IF ServerCompress /\ ClientCompress THEN {TRUE} ELSE {})
\* The server always announces "compression": it can at least decompress.
CliCompresses == {FALSE} \cup (IF ClientCompress THEN {TRUE} ELSE {})

\* A compressed frame is readable by a client that kept its compressor; the
\* server decompresses in either mode.
CliReadable(f) == f.z => ClientCompress

-----------------------------------------------------------------------------
(* The server's half.                                                       *)

\* The acceptor took a connection and puts it into channelConns.  The service's
\* listener was open when it was accepted; the insertion may come at any time
\* later, also after the teardown swept the table.
SrvAccept(c) ==
    /\ c \in TcpChan /\ kind[c] = "none"
    /\ kind' = [kind EXCEPT ![c] = "tcp"]
    /\ sTab' = sTab \cup {c}
    /\ ext' = [ext EXCEPT ![c] = "open"]
    /\ sPipe' = [sPipe EXCEPT ![c] = "opening"]
    /\ late' = IF sRd \in {"swept", "done"} THEN late \cup {c} ELSE late
    /\ UNCHANGED <<link, s2c, c2s, sRd, udpJam, tabVars, cliVars, downVars, upVars>>

\* on_open: a plugin refuses the connection, which stays in channelConns.
SrvRefuse(c) ==
    /\ sPipe[c] = "opening"
    /\ sPipe' = [sPipe EXCEPT ![c] = "done"]
    /\ ext' = [ext EXCEPT ![c] = "closed"]
    /\ UNCHANGED <<link, s2c, c2s, sTab, sRd, udpJam, late, kind, tabVars, cliVars>>
    /\ UNCHANGED <<downVars, upVars>>

\* new_conn is written and the pipe starts.  What is written to a broken
\* connection need not fail, unless the server has closed it.
SrvAnnounce(c) ==
    /\ sPipe[c] = "opening" /\ sRd # "done"
    /\ sPipe' = [sPipe EXCEPT ![c] = "run"]
    /\ ToClient(New(c))
    /\ UNCHANGED <<link, c2s, sTab, ext, sRd, udpJam, late, kind, tabVars, cliVars>>
    /\ UNCHANGED <<downVars, upVars>>

\* new_conn cannot be written: the acceptor takes the connection back.
SrvAnnounceFails(c) ==
    /\ sPipe[c] = "opening" /\ ~link
    /\ sPipe' = [sPipe EXCEPT ![c] = "done"]
    /\ ext' = [ext EXCEPT ![c] = "closed"]
    /\ sTab' = sTab \ {c}
    /\ UNCHANGED <<link, s2c, c2s, sRd, udpJam, late, kind, tabVars, cliVars, downVars, upVars>>

\* udpReadLoop: the first datagram of a sender opens a session, announced under
\* udpMu; an error of sendControl is ignored.  (After the teardown the store
\* into the nil udpSessions ends the process: UdpNilMap in ServerChannels.)
SrvSession(c) ==
    /\ c \in UdpChan /\ kind[c] = "none" /\ ~udpJam /\ sRd = "read"
    /\ kind' = [kind EXCEPT ![c] = "udp"]
    /\ sTab' = sTab \cup {c}
    /\ ext' = [ext EXCEPT ![c] = "open"]
    /\ ToClient(New(c))
    /\ UNCHANGED <<link, c2s, sPipe, sRd, udpJam, late, tabVars, cliVars, downVars, upVars>>

\* ... unless on_open refuses it: the session is dropped and the loop goes on to
\* its next datagram with udpMu locked.  (Its id is not told to anybody.)
SrvRefuseSession ==
    /\ UdpChan # {} /\ ~udpJam /\ sRd = "read"
    /\ udpJam' = TRUE
    /\ UNCHANGED <<link, s2c, c2s, sTab, ext, sPipe, sRd, late, kind, tabVars, cliVars>>
    /\ UNCHANGED <<downVars, upVars>>

\* Data comes in: for the pipe of a TCP channel, for a live session.
SrvReceives(c) ==
    /\ ext[c] = "open" /\ extSent[c] < MaxIn
    /\ IF c \in Udp THEN c \in sTab /\ ~udpJam ELSE sPipe[c] = "run"
    /\ extSent' = [extSent EXCEPT ![c] = @ + 1]

\* A chunk or a datagram goes to the client.
SrvForward(c) ==
    /\ link /\ SrvReceives(c)
    /\ \E z \in SrvCompresses : ToClient(Data(c, extSent[c] + 1, z))
    /\ UNCHANGED <<link, c2s, srvVars, tabVars, cliVars, locRcvd, upVars>>

\* on_accept, asked for every datagram, refuses this one of a live session.
SrvSkip(c) ==
    /\ c \in Udp /\ SrvReceives(c)
    /\ UNCHANGED <<link, s2c, c2s, srvVars, tabVars, cliVars, locRcvd, upVars>>

\* The external user hangs up.
ExtHangup(c) ==
    /\ c \notin Udp /\ ext[c] = "open"
    /\ ext' = [ext EXCEPT ![c] = "closed"]
    /\ UNCHANGED <<link, s2c, c2s, sTab, sPipe, sRd, udpJam, late, kind, tabVars, cliVars>>
    /\ UNCHANGED <<downVars, upVars>>

\* OnCheck names a TCP channel: the checker closes its connection, and the pipe
\* will tell the client.
SrvPluginCloses(c) ==
    /\ c \in sTab \ Udp
    /\ sTab' = sTab \ {c}
    /\ ext' = [ext EXCEPT ![c] = IF @ = "open" THEN "closed" ELSE @]
    /\ UNCHANGED <<link, s2c, c2s, sPipe, sRd, udpJam, late, kind, tabVars, cliVars>>
    /\ UNCHANGED <<downVars, upVars>>

\* ... or a UDP session: the checker drops it, and nobody tells the client.
SrvPluginCuts(c) ==
    /\ c \in sTab \cap Udp /\ ~udpJam
    /\ sTab' = sTab \ {c}
    /\ ext' = [ext EXCEPT ![c] = "cut"]
    /\ UNCHANGED <<link, s2c, c2s, sPipe, sRd, udpJam, late, kind, tabVars, cliVars>>
    /\ UNCHANGED <<downVars, upVars>>

\* Faulty variant: the pipe ends without telling the client.
SrvPipeEndsSilently(c) ==
    /\ sPipe[c] = "run" /\ (ext[c] = "closed" \/ ~link)
    /\ sPipe' = [sPipe EXCEPT ![c] = "done"]
    /\ ext' = [ext EXCEPT ![c] = "closed"]
    /\ sTab' = sTab \ {c}
    /\ UNCHANGED <<link, s2c, c2s, sRd, udpJam, late, kind, tabVars, cliVars, downVars, upVars>>

\* The pipe's Read fails, or its chunk could not be written to the client.
SrvPipeEnds(c) ==
    /\ sPipe[c] = "run" /\ (ext[c] = "closed" \/ ~link)
    /\ sPipe' = [sPipe EXCEPT ![c] = "done"]
    /\ ext' = [ext EXCEPT ![c] = "closed"]
    /\ sTab' = sTab \ {c}
    /\ ToClient(Close(c))
    /\ UNCHANGED <<link, c2s, sRd, udpJam, late, kind, tabVars, cliVars, downVars, upVars>>

\* udpSessionCleanup: the session was idle for two minutes.
SrvExpire(c) ==
    /\ c \in sTab \cap Udp /\ ~udpJam
    /\ sTab' = sTab \ {c}
    /\ ext' = [ext EXCEPT ![c] = "closed"]
    /\ ToClient(Close(c))
    /\ UNCHANGED <<link, c2s, sPipe, sRd, udpJam, late, kind, tabVars, cliVars, downVars, upVars>>

\* The frame relayReadLoop takes from the connection.
SrvFrame(t) == sRd = "read" /\ c2s # <<>> /\ Head(c2s).t = t

\* The channels relayReadLoop can get at: a locked udpMu hides the sessions.
Reachable == IF udpJam THEN sTab \ Udp ELSE sTab

\* A data frame is written to the connection or the sender of its channel.  An
\* error of WriteToUDP is ignored and the datagram is lost; a TCP connection
\* whose Write fails is dead (it was closed before this step).  What is not in channelConns is looked up under udpMu.
SrvData ==
    /\ SrvFrame("data")
    /\ LET c == Head(c2s).ch IN
         /\ IF c \in Reachable /\ ext[c] = "open"
            THEN \/ extRcvd' = [extRcvd EXCEPT ![c] = Append(@, Head(c2s).n)]
                 \/ c \in Udp /\ UNCHANGED extRcvd
            ELSE UNCHANGED extRcvd
         /\ sRd' = IF udpJam /\ c \notin Reachable THEN "stuck" ELSE "read"
    /\ c2s' = Tail(c2s)
    /\ UNCHANGED <<link, s2c, sTab, ext, sPipe, udpJam, late, kind, tabVars, cliVars>>
    /\ UNCHANGED <<downVars, locSent>>

\* frameClose closes and forgets the channel, looked for in channelConns and then,
\* under udpMu, in udpSessions.
SrvClose ==
    /\ SrvFrame("close")
    /\ LET c == Head(c2s).ch IN
         /\ sTab' = sTab \ ({c} \cap Reachable)
         /\ ext' = [ext EXCEPT ![c] = IF c \in Reachable THEN "closed" ELSE @]
    /\ sRd' = IF udpJam THEN "stuck" ELSE "read"
    /\ c2s' = Tail(c2s)
    /\ UNCHANGED <<link, s2c, sPipe, udpJam, late, kind, tabVars, cliVars, downVars, upVars>>

\* conn_ready is only logged.
SrvReady ==
    /\ SrvFrame("ready")
    /\ c2s' = Tail(c2s)
    /\ UNCHANGED <<link, s2c, srvVars, tabVars, cliVars, downVars, upVars>>

\* Faulty variant: the teardown forgets to close the external connections.
SrvTeardownLeavesOpen ==
    /\ ~link /\ sRd = "read"
    /\ sRd' = IF udpJam THEN "stuck" ELSE "swept"
    /\ sTab' = sTab \ (Reachable \cap Udp)
    /\ UNCHANGED <<link, s2c, c2s, ext, sPipe, udpJam, late, kind, tabVars, cliVars>>
    /\ UNCHANGED <<downVars, upVars>>

\* readFrame failed: handleRelayClient closes the external connections it finds in
\* channelConns (the pipes forget them) and, under udpMu, drops the sessions.
SrvTeardown ==
    /\ ~link /\ sRd = "read"
    /\ sRd' = IF udpJam THEN "stuck" ELSE "swept"
    /\ ext' = [c \in Chan |-> IF c \in Reachable THEN "closed" ELSE ext[c]]
    /\ sTab' = sTab \ (Reachable \cap Udp)
    /\ UNCHANGED <<link, s2c, c2s, sPipe, udpJam, late, kind, tabVars, cliVars>>
    /\ UNCHANGED <<downVars, upVars>>

\* ... and closes the relay connection at last.
SrvHangsUp ==
    /\ sRd = "swept"
    /\ sRd' = "done"
    /\ UNCHANGED <<link, s2c, c2s, sTab, ext, sPipe, udpJam, late, kind, tabVars, cliVars>>
    /\ UNCHANGED <<downVars, upVars>>

-----------------------------------------------------------------------------
(* The client's half: relay.Client.                                         *)

\* The frame readLoop takes from the connection.
CliFrame(t) == cRd = "read" /\ ~closeCh /\ s2c # <<>> /\ Head(s2c).t = t

\* handleNewConn / handleNewUDPConn: the local service cannot be dialled.
CliDialFails ==
    /\ CliFrame("new")
    /\ s2c' = Tail(s2c)
    /\ ToServer(Close(Head(s2c).ch))
    /\ local' = [local EXCEPT ![Head(s2c).ch] = "closed"]
    /\ UNCHANGED <<link, srvVars, cTab, infos, active, cliVars, downVars, upVars>>

\* ... or it can: the channel is registered under c.mu.
CliDial ==
    /\ CliFrame("new")
    /\ s2c' = Tail(s2c)
    /\ cCh' = Head(s2c).ch
    /\ local' = [local EXCEPT ![cCh'] = "open"]
    /\ cTab' = cTab \cup {cCh'}
    /\ infos' = infos \cup {cCh'}
    /\ cRd' = "count"
    /\ UNCHANGED <<link, c2s, srvVars, active, closeCh, cPipe, downVars, upVars>>

\* AddActiveChan(1), after the lock was given back.
CliCount ==
    /\ cRd = "count"
    /\ active' = active + 1
    /\ cRd' = "ready"
    /\ UNCHANGED <<link, s2c, c2s, srvVars, cTab, infos, local, cCh, closeCh, cPipe>>
    /\ UNCHANGED <<downVars, upVars>>

\* conn_ready is sent and the pipe starts; if it cannot be sent the handler
\* returns, and the channel stays registered without a pipe.
CliReady ==
    /\ cRd = "ready"
    /\ cRd' = "read"
    /\ \/ /\ ToServer(Ready(cCh))
          /\ cPipe' = [cPipe EXCEPT ![cCh] = "run"]
       \/ /\ ~link
          /\ UNCHANGED <<c2s, cPipe>>
    /\ UNCHANGED <<link, s2c, srvVars, tabVars, cCh, closeCh, downVars, upVars>>

\* A data frame is written to the local connection of its channel; a frame for
\* an unknown channel, or one that cannot be decompressed, is dropped.  A Write
\* error is only logged: a datagram is lost that way (the service's port answers
\* connection refused), while a TCP connection whose Write fails is dead (it was
\* closed before this step).
CliData ==
    /\ CliFrame("data")
    /\ s2c' = Tail(s2c)
    /\ LET c == Head(s2c).ch IN
         IF c \in cTab /\ local[c] = "open" /\ CliReadable(Head(s2c))
         THEN \/ locRcvd' = [locRcvd EXCEPT ![c] = Append(@, Head(s2c).n)]
              \/ c \in Udp /\ UNCHANGED locRcvd
         ELSE UNCHANGED locRcvd
    /\ UNCHANGED <<link, c2s, srvVars, tabVars, cliVars, extSent, upVars>>

\* Faulty variant: the count goes down whoever removed the channel.
CliForgetTwice(c) ==
    /\ cTab' = cTab \ {c}
    /\ infos' = infos \ {c}
    /\ active' = active - 1

\* Take a channel out of channels/udpChannels and connInfos under c.mu.
CliForget(c) ==
    /\ cTab' = cTab \ {c}
    /\ infos' = infos \ {c}
    /\ active' = IF c \in cTab THEN active - 1 ELSE active

\* frameClose.
CliClose ==
    /\ CliFrame("close")
    /\ s2c' = Tail(s2c)
    /\ LET c == Head(s2c).ch IN
         /\ CliForget(c)
         /\ local' = [local EXCEPT ![c] = IF c \in cTab THEN "closed" ELSE @]
    /\ UNCHANGED <<link, c2s, srvVars, cliVars, downVars, upVars>>

\* readFrame fails, a ping cannot be sent, or closeCh is seen: readLoop ends
\* and its deferred Close() closes closeCh and the connection.
CliLoopEnds ==
    /\ cRd = "read" /\ (~link \/ closeCh)
    /\ cRd' = "done"
    /\ closeCh' = TRUE
    /\ link' = FALSE
    /\ UNCHANGED <<s2c, c2s, srvVars, tabVars, cCh, cPipe, downVars, upVars>>

\* Client.Close(), called when the tunnel is stopped.
CliStop ==
    /\ ~closeCh
    /\ closeCh' = TRUE
    /\ link' = FALSE
    /\ UNCHANGED <<s2c, c2s, srvVars, tabVars, cRd, cCh, cPipe, downVars, upVars>>

\* The local service closes its connection.
LocalHangup(c) ==
    /\ c \notin Udp /\ local[c] = "open"
    /\ local' = [local EXCEPT ![c] = "closed"]
    /\ UNCHANGED <<link, s2c, c2s, srvVars, cTab, infos, active, cliVars>>
    /\ UNCHANGED <<downVars, upVars>>

\* The pipe reads a chunk and writes it to the server.
CliForward(c) ==
    /\ cPipe[c] = "run" /\ local[c] = "open" /\ link /\ locSent[c] < MaxOut
    /\ locSent' = [locSent EXCEPT ![c] = @ + 1]
    /\ \E z \in CliCompresses : ToServer(Data(c, locSent[c] + 1, z))
    /\ UNCHANGED <<link, s2c, srvVars, tabVars, cliVars, downVars, extRcvd>>

\* Faulty variant: the deferred function sends no frameClose.
CliPipeEndsSilently(c) ==
    /\ cPipe[c] = "run"
    /\ cPipe' = [cPipe EXCEPT ![c] = "exit"]
    /\ UNCHANGED <<link, s2c, c2s, srvVars, tabVars, cRd, cCh, closeCh, downVars, upVars>>

\* The pipe's loop ends: the local connection is closed, a chunk could not be
\* written, closeCh is seen at the head of the loop, nothing was read from a TCP
\* service for 300 seconds, or a UDP service refuses (a Read error): so at any
\* time.  The deferred function starts with frameClose.
CliPipeEnds(c) ==
    /\ cPipe[c] = "run"
    /\ cPipe' = [cPipe EXCEPT ![c] = "exit"]
    /\ ToServer(Close(c))
    /\ UNCHANGED <<link, s2c, srvVars, tabVars, cRd, cCh, closeCh, downVars, upVars>>

\* ... then forgets the channel and closes the local connection.
CliPipeForgets(c) ==
    /\ cPipe[c] = "exit"
    /\ cPipe' = [cPipe EXCEPT ![c] = "done"]
    /\ CliForget(c)
    /\ local' = [local EXCEPT ![c] = "closed"]
    /\ UNCHANGED <<link, s2c, c2s, srvVars, cRd, cCh, closeCh, downVars, upVars>>

-----------------------------------------------------------------------------
\* The network drops the relay connection; frames not yet read may be lost.
LinkDrops ==
    /\ link
    /\ link' = FALSE
    /\ UNCHANGED <<s2c, c2s, srvVars, tabVars, cliVars, downVars, upVars>>

SrvNext(c) ==
    \/ SrvAccept(c) \/ SrvRefuse(c) \/ SrvAnnounce(c) \/ SrvAnnounceFails(c)
    \/ SrvSession(c) \/ SrvForward(c) \/ SrvSkip(c) \/ ExtHangup(c)
    \/ SrvPluginCloses(c) \/ SrvPluginCuts(c) \/ SrvPipeEnds(c) \/ SrvExpire(c)
SrvRead    == SrvData \/ SrvClose \/ SrvReady \/ SrvTeardown \/ SrvHangsUp
CliRead    == \/ CliDialFails \/ CliDial \/ CliCount \/ CliReady \/ CliData
              \/ CliClose \/ CliLoopEnds
CliNext(c) == LocalHangup(c) \/ CliForward(c) \/ CliPipeEnds(c) \/ CliPipeForgets(c)

Next ==
    \/ \E c \in Chan : SrvNext(c) \/ CliNext(c)
    \/ SrvRefuseSession \/ SrvRead \/ CliRead \/ CliStop \/ LinkDrops

Spec == Init /\ [][Next]_vars

(* Goroutines that can run do; users, services, plugins, timeouts and the   *)
(* network are free to do nothing.                                          *)
Fairness ==
    /\ WF_vars(SrvRead) /\ WF_vars(CliRead)
    /\ \A c \in Chan : /\ WF_vars(SrvPipeEnds(c) /\ ext[c] = "closed")
                       /\ WF_vars(CliPipeEnds(c) /\ (local[c] = "closed" \/ closeCh))
                       /\ WF_vars(CliPipeForgets(c))

FairSpec == Spec /\ Fairness

-----------------------------------------------------------------------------
(* Properties.                                                              *)

\* Every variable has its type; in particular the count of active channels is
\* never negative.
TypeOK ==
    /\ link \in BOOLEAN /\ udpJam \in BOOLEAN /\ closeCh \in BOOLEAN
    /\ sRd \in {"read", "stuck", "swept", "done"} /\ late \subseteq Chan
    /\ \A i \in 1 .. Len(s2c) : s2c[i].ch \in Chan
    /\ \A i \in 1 .. Len(c2s) : c2s[i].ch \in Chan
    /\ kind \in [Chan -> {"none", "tcp", "udp"}] /\ sTab \subseteq Chan
    /\ cTab \subseteq Chan /\ infos \subseteq Chan
    /\ ext \in [Chan -> ExtStates] /\ local \in [Chan -> ConnStates]
    /\ sPipe \in [Chan -> SrvPipeStates] /\ cPipe \in [Chan -> PipeStates]
    /\ cRd \in {"read", "count", "ready", "done"} /\ cCh \in Chan \cup {NoChan}
    /\ active \in Nat
    /\ extSent \in [Chan -> 0 .. MaxIn] /\ locSent \in [Chan -> 0 .. MaxOut]

\* The GUI tells the truth: connInfos lists exactly the registered channels and
\* activeChans counts them, but for the moment between registering a channel
\* and counting it; so the count cannot drift however frameClose, the pipes
\* and new channels interleave.  (Within one tunnel: activeChans is kept for the
\* process, and a channel whose conn_ready failed stays counted after it.)
CountMatchesTable ==
    /\ infos = cTab
    /\ active = Cardinality(IF cRd = "count" THEN cTab \ {cCh} ELSE cTab)

\* From outside to the local service a TCP channel is a stream: the chunks get
\* there in order, each once and without a gap; none reaches the service before
\* the dial finished, none is skipped while later ones get through, none is
\* unreadable.  The datagrams of a session keep their order and none comes twice,
\* but any may be left out: a plugin refuses it, or its Write fails.
Inbound == INSTANCE ChannelStream
    WITH sent <- [c \in Chan |-> [i \in 1 .. extSent[c] |-> i]], rcvd <- locRcvd,
         lossy <- Udp
InboundIsStream == Inbound!Spec

\* The same from the local service to outside.
Outbound == INSTANCE ChannelStream
    WITH sent <- [c \in Chan |-> [i \in 1 .. locSent[c] |-> i]], rcvd <- extRcvd,
         lossy <- Udp
OutboundIsStream == Outbound!Spec

(* The liveness properties take users and services to go on reading, so     *)
(* that no Write blocks, and say nothing once udpMu stays locked (finding 1 *)
(* of the README): then everything behind relayReadLoop may stay as it is.  *)
(* What they start from does not change back (a closed connection, a broken *)
(* link), so that "leads to for good" is <>[] of an implication.            *)

\* When the outside of a channel is closed, the client's side goes away too:
\* the local connection does not stay open behind a vanished user (unless the
\* tunnel itself breaks).  Sessions that the plugin checker dropped are
\* left out: no frameClose is sent for those and the local connection stays.
HangupReachesService ==
    \A c \in Chan : <>[](ext[c] = "closed" => local[c] # "open" \/ ~link \/ udpJam)

\* When the local service closes a connection, or could not be reached, the
\* outside connection is closed as well, whatever happens to the tunnel.
HangupReachesUser ==
    \A c \in Chan : <>[](local[c] = "closed" => ext[c] # "open" \/ udpJam)

Drained(c) == (ext[c] # "open" \/ c \in late) /\ cPipe[c] \in {"none", "done"}

\* When the tunnel is down the outside connections are closed and every pipe of
\* the client comes to its end.  Left out are the connections an acceptor entered
\* after the teardown's sweep of channelConns: one that it could still announce
\* stays open until its user sends or hangs up.
DownDrainsTunnel ==
    <>[](~link => udpJam \/ \A c \in Chan : Drained(c))
=============================================================================
