--------------------------- MODULE ServerChannels ---------------------------
(***************************************************************************)
(* The channels of ONE registered client of signal-server: the external    *)
(* TCP connections and UDP sessions the relay server multiplexes over the  *)
(* client's relay connection, and the two connection limiters that admit   *)
(* them.                                                                   *)
(*                                                                         *)
(* Five kinds of goroutine share this state:                               *)
(*   - one acceptor per TCP service          (startTCPService)             *)
(*   - one pipe per external TCP connection  (pipeExternalToClient)        *)
(*   - one datagram loop per UDP service     (udpReadLoop)                 *)
(*   - the reader of the relay connection, which becomes the teardown      *)
(*                                  (relayReadLoop, handleRelayClient)     *)
(*   - the server-wide plugin checker        (runPluginChecker)            *)
(* plus the session cleanup (udpSessionCleanup).  A step is what one       *)
(* goroutine does between two points where another may run: one critical   *)
(* section of chanMu or udpMu, one hook call, one frame write.             *)
(*                                                                         *)
(* A release of the two limiters (pluginMgr.OnClose then                   *)
(* client.connLimiter.OnClose) is one step: both are atomic counters and   *)
(* no code reads the two together.                                         *)
(***************************************************************************)
EXTENDS Integers, FiniteSets

CONSTANTS
    Chan,        \* channel ids nextCID hands out; finite: bounds a behaviour
    TcpSvc,      \* TCP services of the client
    UdpSvc,      \* UDP services of the client
    Addr,        \* remote addresses datagrams come from
    NoChan,      \* "no channel"
    NoAddr,      \* "no address"
    MaxConns,    \* the client's -max-conns (0: no client.connLimiter)
    GlobalMax,   \* the server's -max-conns (0: no pluginMgr.connLimiter)
    DynPlugins   \* the server runs with -plugin-dir

ASSUME ConstAssumption ==
    /\ IsFiniteSet(Chan) /\ IsFiniteSet(TcpSvc) /\ IsFiniteSet(UdpSvc)
    /\ NoChan \notin Chan
    /\ NoAddr \notin Addr
    /\ TcpSvc \cap UdpSvc = {}
    /\ "free" \notin UdpSvc
    /\ MaxConns \in Nat
    /\ GlobalMax \in Nat
    /\ DynPlugins \in BOOLEAN

VARIABLES
    link,        \* the relay connection: "up", "broken" by the peer, "closed"
    stop,        \* client.stopCh is closed
    registered,  \* the client is in the clients map
    lnOpen,      \* TCP services whose listener is open
    accPc,       \* where each acceptor is
    accCh,       \* the channel each acceptor is setting up
    ext,         \* external connection of a TCP channel: none / open / closed
    tab,         \* keys of client.channelConns
    pipe,        \* pipeExternalToClient of a channel
    udpPc,       \* where each datagram loop is
    udpAddr,     \* the sender of the datagram each loop handles
    udpCh,       \* the channel each loop forwards its datagram on
    sess,        \* client.udpSessions: address -> channel
    sessNil,     \* client.udpSessions was set to nil
    owner,       \* session.localPort/udpConn: the service that made a session
    udpMu,       \* holder of client.udpMu between two steps, or "free"
    rdPc,        \* where the reader is
    rdCh,        \* the channel of the frame being handled
    ckPc,        \* where the plugin checker is
    ckTodo,      \* channel ids OnCheck returned, still to be looked up
    ckCh,        \* the id being looked up
    current,     \* client.connLimiter.current
    gcur,        \* pluginMgr.connLimiter.current
    held,        \* history: channels that took a client slot, not given back
    used,        \* channel ids handed out
    announced,   \* channels the client was told of (new_conn, new_udp_conn)
    tracked      \* channels the plugins saw on_open for, and no on_close

accVars  == <<lnOpen, accPc, accCh>>
chanVars == <<ext, tab, pipe>>
loopVars == <<udpPc, udpAddr, udpCh>>
sessVars == <<sess, sessNil, owner, udpMu>>
rdVars   == <<rdPc, rdCh>>
linkVars == <<link, stop, registered>>
ckVars   == <<ckPc, ckTodo, ckCh>>
slotVars == <<current, held, gcur>>
idVars   == <<used, announced, tracked>>
tcpVars  == <<accVars, chanVars>>
udpVars  == <<loopVars, sessVars>>
bookVars == <<slotVars, idVars>>
\* what a step of one kind of goroutine leaves alone, the books apart
offTcp   == <<udpVars, rdVars, linkVars, ckVars>>
offUdp   == <<tcpVars, rdVars, linkVars, ckVars>>
offRd    == <<tcpVars, udpVars, ckVars>>
offCk    == <<tcpVars, udpVars, rdVars, linkVars>>
vars     == <<tcpVars, udpVars, rdVars, linkVars, ckVars, bookVars>>

AccStates  == {"accept", "admit", "insert", "open", "send", "undo",
               "closing", "done"}
AccBusy    == {"insert", "open", "send", "undo"}
PipeStates == {"none", "run", "exit", "release", "done"}
UdpStates  == {"read", "session", "write", "done", "panic"}
RdStates   == {"read", "write", "data", "relTcp", "udp", "relUdp", "downTcp",
               "downUdp", "downClients", "ended"}
CkStates   == {"idle", "tcp", "udp", "release"}

SessChans == {sess[a] : a \in Addr} \ {NoChan}

Init ==
    /\ link = "up" /\ stop = FALSE /\ registered = TRUE
    /\ lnOpen = TcpSvc
    /\ accPc = [s \in TcpSvc |-> "accept"]
    /\ accCh = [s \in TcpSvc |-> NoChan]
    /\ ext = [c \in Chan |-> "none"]
    /\ tab = {}
    /\ pipe = [c \in Chan |-> "none"]
    /\ udpPc = [u \in UdpSvc |-> "read"]
    /\ udpAddr = [u \in UdpSvc |-> NoAddr]
    /\ udpCh = [u \in UdpSvc |-> NoChan]
    /\ sess = [a \in Addr |-> NoChan]
    /\ sessNil = FALSE
    /\ owner = [c \in Chan |-> NoChan]
    /\ udpMu = "free"
    /\ rdPc = "read" /\ rdCh = NoChan
    /\ ckPc = "idle" /\ ckTodo = {} /\ ckCh = NoChan
    /\ current = 0 /\ gcur = 0 /\ held = {}
    /\ used = {} /\ announced = {} /\ tracked = {}

-----------------------------------------------------------------------------
(* The limiters: plugin.ConnLimit.  A limiter with maxConns <= 0 admits     *)
(* everything and is never installed, so its counter stays put.             *)

\* Faulty variant: the comparison of OnAccept lets one connection too many in.
ClientTakeOffByOne(c) ==
    /\ MaxConns > 0 => current =< MaxConns
    /\ current' = IF MaxConns > 0 THEN current + 1 ELSE current
    /\ held' = held \cup {c}

\* client.connLimiter.OnAccept on behalf of channel c.
ClientTake(c) ==
    /\ MaxConns > 0 => current < MaxConns
    /\ current' = IF MaxConns > 0 THEN current + 1 ELSE current
    /\ held' = held \cup {c}

\* client.connLimiter.OnAccept refusing.
ClientFull == MaxConns > 0 /\ current >= MaxConns

\* pluginMgr.OnAccept: the IP filter, then the limiter, then the dynamic
\* plugins.  A refusal after the limiter leaves the slot taken.
GlobalRefuses ==
    \/ gcur' = gcur                             \* IP filter, or limiter full
    \/ /\ DynPlugins                            \* on_accept: allowed = false
       /\ GlobalMax > 0 => gcur < GlobalMax
       /\ gcur' = IF GlobalMax > 0 THEN gcur + 1 ELSE gcur

\* Faulty variant: the comparison of OnAccept lets one connection too many in.
GlobalAdmitsOffByOne ==
    /\ GlobalMax > 0 => gcur =< GlobalMax
    /\ gcur' = IF GlobalMax > 0 THEN gcur + 1 ELSE gcur

\* pluginMgr.OnAccept letting a connection in.
GlobalAdmits ==
    /\ GlobalMax > 0 => gcur < GlobalMax
    /\ gcur' = IF GlobalMax > 0 THEN gcur + 1 ELSE gcur

\* pluginMgr.OnClose(c): the limiter's slot goes back, the plugins are told.
GlobalRelease(c) ==
    /\ gcur' = IF GlobalMax > 0 THEN gcur - 1 ELSE gcur
    /\ tracked' = tracked \ {c}

\* client.connLimiter.OnClose() for channel c.
ClientRelease(c) ==
    /\ current' = IF MaxConns > 0 THEN current - 1 ELSE current
    /\ held' = held \ {c}

Release(c) == GlobalRelease(c) /\ ClientRelease(c)

\* A frame written to the client's relay connection: it is accepted while the
\* connection lives, may or may not be noticed once the peer is gone, and
\* fails on a closed one.
WriteOk   == link \in {"up", "broken"}
WriteFail == link \in {"broken", "closed"}

\* delete(client.udpSessions, key) for the key of channel c, if there is one.
DropSession(c) == sess' = [a \in Addr |-> IF sess[a] = c THEN NoChan ELSE sess[a]]

\* extConn.Close() for the external connections of the channels in S.
CloseExt(S) == ext' = [c \in Chan |-> IF c \in S THEN "closed" ELSE ext[c]]

-----------------------------------------------------------------------------
(* The acceptor of a TCP service: startTCPService.                          *)

\* The head of the for loop: stopCh is polled before Accept blocks.
AcceptHead == IF stop THEN "done" ELSE "accept"

\* Accept returned a connection and pluginMgr.OnAccept let it in, or not.
TcpAccept(s) ==
    /\ accPc[s] = "accept" /\ s \in lnOpen
    /\ \/ GlobalAdmits /\ accPc' = [accPc EXCEPT ![s] = "admit"]
       \/ GlobalRefuses /\ accPc' = [accPc EXCEPT ![s] = AcceptHead]
    /\ UNCHANGED <<lnOpen, accCh, chanVars, current, held, idVars, offTcp>>

\* client.ipFilter or client.connLimiter refuses: the connection is closed,
\* the slot pluginMgr.OnAccept took stays taken.
TcpRefuse(s) ==
    /\ accPc[s] = "admit"
    /\ accPc' = [accPc EXCEPT ![s] = AcceptHead]
    /\ UNCHANGED <<lnOpen, accCh, chanVars, offTcp, bookVars>>

\* Faulty variant: an id that names no connection any more is handed out again.
TcpAdmitRecyclesId(s) ==
    /\ accPc[s] = "admit"
    /\ \E c \in Chan \ (tab \cup SessChans) :
         /\ ClientTake(c)
         /\ used' = used \cup {c}
         /\ accCh' = [accCh EXCEPT ![s] = c]
         /\ ext' = [ext EXCEPT ![c] = "open"]
    /\ accPc' = [accPc EXCEPT ![s] = "insert"]
    /\ UNCHANGED <<lnOpen, tab, pipe, gcur, announced, tracked, offTcp>>

\* The client's filters admit the connection; it gets the next channel id.
TcpAdmit(s) ==
    /\ accPc[s] = "admit"
    /\ \E c \in Chan \ used :
         /\ ClientTake(c)
         /\ used' = used \cup {c}
         /\ accCh' = [accCh EXCEPT ![s] = c]
         /\ ext' = [ext EXCEPT ![c] = "open"]
    /\ accPc' = [accPc EXCEPT ![s] = "insert"]
    /\ UNCHANGED <<lnOpen, tab, pipe, gcur, announced, tracked, offTcp>>

\* channelConns[id] = extConn, and the on_open call goes out.
TcpInsert(s) ==
    /\ accPc[s] = "insert"
    /\ tab' = tab \cup {accCh[s]}
    /\ tracked' = IF DynPlugins THEN tracked \cup {accCh[s]} ELSE tracked
    /\ accPc' = [accPc EXCEPT ![s] = "open"]
    /\ UNCHANGED <<lnOpen, accCh, ext, pipe, slotVars, used, announced,
                   offTcp>>

\* on_open answered {"action":"close"}: both limiters are released and the
\* acceptor goroutine is on its way out; the table entry stays.
TcpOpenRefused(s) ==
    /\ accPc[s] = "open" /\ DynPlugins
    /\ Release(accCh[s])
    /\ accPc' = [accPc EXCEPT ![s] = "closing"]
    /\ UNCHANGED <<lnOpen, accCh, chanVars, used, announced, offTcp>>

TcpOpenAllowed(s) ==
    /\ accPc[s] = "open"
    /\ accPc' = [accPc EXCEPT ![s] = "send"]
    /\ UNCHANGED <<lnOpen, accCh, chanVars, offTcp, bookVars>>

\* new_conn is written and the pipe goroutine starts.
TcpAnnounce(s) ==
    /\ accPc[s] = "send" /\ WriteOk
    /\ announced' = announced \cup {accCh[s]}
    /\ pipe' = [pipe EXCEPT ![accCh[s]] = "run"]
    /\ accPc' = [accPc EXCEPT ![s] = AcceptHead]
    /\ UNCHANGED <<lnOpen, accCh, ext, tab, slotVars, used, tracked, offTcp>>

\* new_conn could not be written: the entry is deleted ...
TcpAnnounceFails(s) ==
    /\ accPc[s] = "send" /\ WriteFail
    /\ tab' = tab \ {accCh[s]}
    /\ accPc' = [accPc EXCEPT ![s] = "undo"]
    /\ UNCHANGED <<lnOpen, accCh, ext, pipe, offTcp, bookVars>>

\* ... and both limiters released, whether or not the entry was still there.
TcpUndo(s) ==
    /\ accPc[s] = "undo"
    /\ Release(accCh[s])
    /\ accPc' = [accPc EXCEPT ![s] = "closing"]
    /\ UNCHANGED <<lnOpen, accCh, chanVars, used, announced, offTcp>>

\* extConn.Close() and return: the deferred function closes the listener.
TcpClosing(s) ==
    /\ accPc[s] = "closing"
    /\ CloseExt({accCh[s]})
    /\ lnOpen' = lnOpen \ {s}
    /\ accPc' = [accPc EXCEPT ![s] = "done"]
    /\ UNCHANGED <<accCh, tab, pipe, offTcp, bookVars>>

\* Accept fails because the listener was closed.
TcpAcceptFails(s) ==
    /\ accPc[s] = "accept" /\ s \notin lnOpen
    /\ accPc' = [accPc EXCEPT ![s] = "done"]
    /\ UNCHANGED <<lnOpen, accCh, chanVars, offTcp, bookVars>>

-----------------------------------------------------------------------------
(* External connections: pipeExternalToClient.                              *)

\* The external user closes its connection (or it breaks).
ExtGone(c) ==
    /\ ext[c] = "open"
    /\ CloseExt({c})
    /\ UNCHANGED <<accVars, tab, pipe, offTcp, bookVars>>

\* The pipe's loop ends: Read failed (frameClose is sent, its error ignored),
\* or bytes were read and could not be written to the client.  The deferred
\* function then closes extConn.
PipeEnds(c) ==
    /\ pipe[c] = "run"
    /\ ext[c] = "closed" \/ WriteFail
    /\ CloseExt({c})
    /\ pipe' = [pipe EXCEPT ![c] = "exit"]
    /\ UNCHANGED <<accVars, tab, offTcp, bookVars>>

\* Faulty variant: the deferred function releases without looking at existed.
PipeForgetTwice(c) ==
    /\ pipe[c] = "exit"
    /\ pipe' = [pipe EXCEPT ![c] = "release"]
    /\ tab' = tab \ {c}
    /\ UNCHANGED <<accVars, ext, offTcp, bookVars>>

\* Faulty variant: the deferred function deletes the entry and releases nothing.
PipeForgetSilent(c) ==
    /\ pipe[c] = "exit"
    /\ pipe' = [pipe EXCEPT ![c] = "done"]
    /\ tab' = tab \ {c}
    /\ UNCHANGED <<accVars, ext, offTcp, bookVars>>

\* existed := channelConns has it; delete.
PipeForget(c) ==
    /\ pipe[c] = "exit"
    /\ pipe' = [pipe EXCEPT ![c] = IF c \in tab THEN "release" ELSE "done"]
    /\ tab' = tab \ {c}
    /\ UNCHANGED <<accVars, ext, offTcp, bookVars>>

PipeRelease(c) ==
    /\ pipe[c] = "release"
    /\ Release(c)
    /\ pipe' = [pipe EXCEPT ![c] = "done"]
    /\ UNCHANGED <<accVars, ext, tab, used, announced, offTcp>>

-----------------------------------------------------------------------------
(* UDP services: udpReadLoop and udpSessionCleanup.                         *)

UdpHead == IF stop THEN "done" ELSE "read"

\* Faulty variant: the sender's address is not kept for the session lookup.
UdpDatagramNoAddr(u, a) ==
    /\ udpPc[u] = "read" /\ ~sessNil
    /\ GlobalAdmits
    /\ udpPc' = [udpPc EXCEPT ![u] = "session"]
    /\ UNCHANGED <<udpAddr, udpCh, sessVars, current, held, idVars, offUdp>>

\* ReadFromUDP returned a datagram from a; pluginMgr.OnAccept (once per
\* datagram) and client.ipFilter let it pass, or not.
UdpDatagram(u, a) ==
    /\ udpPc[u] = "read" /\ ~sessNil
    /\ \/ /\ GlobalAdmits
          /\ \/ /\ udpPc' = [udpPc EXCEPT ![u] = "session"]
                /\ udpAddr' = [udpAddr EXCEPT ![u] = a]
             \/ /\ udpPc' = [udpPc EXCEPT ![u] = UdpHead]  \* client.ipFilter
                /\ UNCHANGED udpAddr
       \/ /\ GlobalRefuses
          /\ udpPc' = [udpPc EXCEPT ![u] = UdpHead]
          /\ UNCHANGED udpAddr
    /\ UNCHANGED <<udpCh, sessVars, current, held, idVars, offUdp>>

\* The read deadline passed, or the socket was closed by the teardown.
UdpIdle(u) ==
    /\ udpPc[u] = "read"
    /\ stop \/ sessNil
    /\ udpPc' = [udpPc EXCEPT ![u] = "done"]
    /\ UNCHANGED <<udpAddr, udpCh, sessVars, offUdp, bookVars>>

\* Under udpMu: the sender already has a session.
UdpKnown(u) ==
    /\ udpPc[u] = "session" /\ udpMu = "free"
    /\ sess[udpAddr[u]] # NoChan
    /\ udpCh' = [udpCh EXCEPT ![u] = sess[udpAddr[u]]]
    /\ udpPc' = [udpPc EXCEPT ![u] = "write"]
    /\ UNCHANGED <<udpAddr, sessVars, offUdp, bookVars>>

\* Under udpMu: no session, and the client's limiter is full (or no id is left
\* to follow, the bound of the model).
UdpFull(u) ==
    /\ udpPc[u] = "session" /\ udpMu = "free"
    /\ sess[udpAddr[u]] = NoChan /\ (ClientFull \/ used = Chan)
    /\ udpPc' = [udpPc EXCEPT ![u] = UdpHead]
    /\ UNCHANGED <<udpAddr, udpCh, sessVars, offUdp, bookVars>>

\* Under udpMu: a session is made, announced by new_udp_conn (its error is
\* ignored), and the lock given back.
UdpOpen(u) ==
    /\ udpPc[u] = "session" /\ udpMu = "free"
    /\ sess[udpAddr[u]] = NoChan /\ ~sessNil
    /\ \E c \in Chan \ used :
         /\ ClientTake(c)
         /\ used' = used \cup {c}
         /\ sess' = [sess EXCEPT ![udpAddr[u]] = c]
         /\ owner' = [owner EXCEPT ![c] = u]
         /\ udpCh' = [udpCh EXCEPT ![u] = c]
         /\ tracked' = IF DynPlugins THEN tracked \cup {c} ELSE tracked
         /\ \/ WriteOk /\ announced' = announced \cup {c}
            \/ WriteFail /\ UNCHANGED announced
    /\ udpPc' = [udpPc EXCEPT ![u] = "write"]
    /\ UNCHANGED <<udpAddr, sessNil, udpMu, gcur, offUdp>>

\* Under udpMu: on_open answered {"action":"close"}.  The session is removed,
\* the client's slot given back, and the loop goes on WITHOUT unlocking.
UdpOpenRefused(u) ==
    /\ udpPc[u] = "session" /\ udpMu = "free" /\ DynPlugins
    /\ sess[udpAddr[u]] = NoChan /\ ~sessNil /\ ~ClientFull
    /\ \E c \in Chan \ used :
         /\ used' = used \cup {c}
         /\ tracked' = tracked \cup {c}
    /\ udpMu' = u
    /\ udpPc' = [udpPc EXCEPT ![u] = UdpHead]
    /\ UNCHANGED <<udpAddr, udpCh, sess, sessNil, owner, slotVars, announced,
                   offUdp>>

\* The teardown set udpSessions to nil: storing a session panics.
UdpNilMap(u) ==
    /\ udpPc[u] = "session" /\ udpMu = "free"
    /\ sessNil /\ ~ClientFull
    /\ udpPc' = [udpPc EXCEPT ![u] = "panic"]
    /\ UNCHANGED <<udpAddr, udpCh, sessVars, offUdp, bookVars>>

\* The datagram is written to the client, or the loop ends on the error.
UdpWrite(u) ==
    /\ udpPc[u] = "write"
    /\ \/ WriteOk /\ udpPc' = [udpPc EXCEPT ![u] = UdpHead]
       \/ WriteFail /\ udpPc' = [udpPc EXCEPT ![u] = "done"]
    /\ UNCHANGED <<udpAddr, udpCh, sessVars, offUdp, bookVars>>

\* A session was idle for 120 seconds when the ticker fired.
UdpCleanup(a) ==
    /\ udpMu = "free" /\ sess[a] # NoChan
    /\ Release(sess[a])
    /\ sess' = [sess EXCEPT ![a] = NoChan]
    /\ UNCHANGED <<loopVars, sessNil, owner, udpMu, used, announced, offUdp>>

-----------------------------------------------------------------------------
(* The reader: relayReadLoop.  The client names only channels it was told   *)
(* of, but may send to one that is gone and close one again and again.      *)

\* A data frame: its channel is looked for among the TCP connections.
ReadData(c) ==
    /\ rdPc = "read" /\ link # "closed" /\ c \in announced
    /\ rdCh' = c
    /\ rdPc' = IF c \in tab THEN "write" ELSE "data"
    /\ UNCHANGED <<linkVars, offRd, bookVars>>

\* extConn.Write, without a deadline, returns: the user has read, or the
\* connection is closed (the error is logged) ...
ReadWritten ==
    /\ rdPc = "write"
    /\ rdPc' = "read" /\ rdCh' = NoChan
    /\ UNCHANGED <<linkVars, offRd, bookVars>>

\* ... and among the UDP sessions, under udpMu; a datagram is sent to the user
\* without waiting, one for nobody is dropped.
ReadDatagram ==
    /\ rdPc = "data" /\ udpMu = "free"
    /\ rdPc' = "read" /\ rdCh' = NoChan
    /\ UNCHANGED <<linkVars, offRd, bookVars>>

\* frameClose: the channel is looked for among the TCP connections, then among
\* the UDP sessions.
ReadClose(c) ==
    /\ rdPc = "read" /\ link # "closed" /\ c \in announced
    /\ rdCh' = c
    /\ rdPc' = IF c \in tab THEN "relTcp" ELSE "udp"
    /\ CloseExt(tab \cap {c})
    /\ tab' = tab \ {c}
    /\ UNCHANGED <<accVars, pipe, udpVars, linkVars, ckVars, bookVars>>

ReadReleaseTcp ==
    /\ rdPc = "relTcp"
    /\ Release(rdCh)
    /\ rdPc' = "udp"
    /\ UNCHANGED <<rdCh, linkVars, used, announced, offRd>>

ReadCloseUdp ==
    /\ rdPc = "udp" /\ udpMu = "free"
    /\ rdPc' = IF rdCh \in SessChans THEN "relUdp" ELSE "read"
    /\ DropSession(rdCh)
    /\ UNCHANGED <<tcpVars, loopVars, sessNil, owner, udpMu, rdCh, linkVars,
                   ckVars, bookVars>>

ReadReleaseUdp ==
    /\ rdPc = "relUdp"
    /\ Release(rdCh)
    /\ rdPc' = "read"
    /\ UNCHANGED <<rdCh, linkVars, used, announced, offRd>>

\* The client goes away: its process ends, or the network drops it.
LinkBreaks ==
    /\ link = "up"
    /\ link' = "broken"
    /\ UNCHANGED <<rdVars, stop, registered, offRd, bookVars>>

\* Faulty variant: client.stop(), but the listeners are left open.
TeardownKeepsListeners ==
    /\ rdPc = "read" /\ link = "broken"
    /\ stop' = TRUE
    /\ rdPc' = "downTcp"
    /\ UNCHANGED <<accVars, chanVars, udpVars, rdCh, link, registered, ckVars, bookVars>>

\* readFrame fails; client.stop() and the listeners are closed.
Teardown ==
    /\ rdPc = "read" /\ link = "broken"
    /\ stop' = TRUE
    /\ lnOpen' = {}
    /\ rdPc' = "downTcp"
    /\ UNCHANGED <<accPc, accCh, chanVars, udpVars, rdCh, link, registered,
                   ckVars, bookVars>>

\* Under chanMu: every external connection is closed, none is forgotten.
TeardownTcp ==
    /\ rdPc = "downTcp"
    /\ CloseExt(tab)
    /\ rdPc' = "downUdp"
    /\ UNCHANGED <<accVars, tab, pipe, udpVars, rdCh, linkVars, ckVars,
                   bookVars>>

\* Under udpMu: the sockets are closed, udpConns and udpSessions become nil.
TeardownUdp ==
    /\ rdPc = "downUdp" /\ udpMu = "free"
    /\ sessNil' = TRUE
    /\ sess' = [a \in Addr |-> NoChan]
    /\ rdPc' = "downClients"
    /\ UNCHANGED <<tcpVars, loopVars, owner, udpMu, rdCh, linkVars, ckVars,
                   bookVars>>

\* Under clientsMu, which the checker read-locks while it looks up a channel:
\* the client is forgotten; then conn.Close().
TeardownClients ==
    /\ rdPc = "downClients" /\ ckPc \notin {"tcp", "udp"}
    /\ registered' = FALSE
    /\ link' = "closed"
    /\ rdPc' = "ended"
    /\ UNCHANGED <<rdCh, stop, offRd, bookVars>>

-----------------------------------------------------------------------------
(* The plugin checker: runPluginChecker.                                    *)

\* OnCheck: the plugins answer with channels they still track.
Check ==
    /\ ckPc = "idle" /\ ckTodo = {} /\ DynPlugins
    /\ ckTodo' \in (SUBSET tracked) \ {{}}
    /\ UNCHANGED <<ckPc, ckCh, offCk, bookVars>>

\* clientsMu.RLock for the next id; a client no longer in the map is not
\* looked at.
CheckNext(c) ==
    /\ ckPc = "idle" /\ c \in ckTodo
    /\ ckTodo' = ckTodo \ {c}
    /\ ckCh' = c
    /\ ckPc' = IF registered THEN "tcp" ELSE "idle"
    /\ UNCHANGED <<offCk, bookVars>>

\* Under chanMu: a TCP channel is deleted and closed.
CheckTcp ==
    /\ ckPc = "tcp"
    /\ ckPc' = IF ckCh \in tab THEN "release" ELSE "udp"
    /\ CloseExt(tab \cap {ckCh})
    /\ tab' = tab \ {ckCh}
    /\ UNCHANGED <<accVars, pipe, udpVars, rdVars, linkVars, ckTodo, ckCh,
                   bookVars>>

\* Under udpMu: a UDP session is deleted.
CheckUdp ==
    /\ ckPc = "udp" /\ udpMu = "free"
    /\ ckPc' = IF ckCh \in SessChans THEN "release" ELSE "idle"
    /\ DropSession(ckCh)
    /\ UNCHANGED <<tcpVars, loopVars, sessNil, owner, udpMu, rdVars, linkVars,
                   ckTodo, ckCh, bookVars>>

\* pluginMgr.OnClose; the client's own limiter is not told.
CheckRelease ==
    /\ ckPc = "release"
    /\ GlobalRelease(ckCh)
    /\ ckPc' = "idle"
    /\ UNCHANGED <<ckTodo, ckCh, current, held, used, announced, offCk>>

-----------------------------------------------------------------------------
TcpNext(s) ==
    \/ TcpAccept(s) \/ TcpRefuse(s) \/ TcpAdmit(s) \/ TcpInsert(s)
    \/ TcpOpenRefused(s) \/ TcpOpenAllowed(s) \/ TcpAnnounce(s)
    \/ TcpAnnounceFails(s) \/ TcpUndo(s) \/ TcpClosing(s) \/ TcpAcceptFails(s)

PipeNext(c) == PipeEnds(c) \/ PipeForget(c) \/ PipeRelease(c)

UdpNext(u) ==
    \/ \E a \in Addr : UdpDatagram(u, a)
    \/ UdpIdle(u) \/ UdpKnown(u) \/ UdpFull(u) \/ UdpOpen(u)
    \/ UdpOpenRefused(u) \/ UdpNilMap(u) \/ UdpWrite(u)

ReaderNext ==
    \/ \E c \in Chan : ReadData(c) \/ ReadClose(c)
    \/ ReadWritten \/ ReadDatagram
    \/ ReadReleaseTcp \/ ReadCloseUdp \/ ReadReleaseUdp
    \/ Teardown \/ TeardownTcp \/ TeardownUdp \/ TeardownClients

CheckerNext ==
    \/ Check \/ CheckTcp \/ CheckUdp \/ CheckRelease
    \/ \E c \in Chan : CheckNext(c)

\* A panic in any goroutine ends the server process.
Running == \A u \in UdpSvc : udpPc[u] # "panic"

Next ==
    /\ Running
    /\ \/ \E s \in TcpSvc : TcpNext(s)
       \/ \E c \in Chan : ExtGone(c) \/ PipeNext(c)
       \/ \E u \in UdpSvc : UdpNext(u)
       \/ \E a \in Addr : UdpCleanup(a)
       \/ ReaderNext \/ CheckerNext \/ LinkBreaks

Spec == Init /\ [][Next]_vars

(* The reader is in a Write to an external user who does not read.          *)
Blocked == rdPc = "write" /\ ext[rdCh] = "open"

(* Every goroutine that can run does.  What the outside decides (a user     *)
(* connects, sends, reads, hangs up; the client goes away; a plugin's       *)
(* verdict, an idle timeout) is not forced; that a hook returns at all is   *)
(* PluginProcess's subject.  Strong fairness of Teardown: only finitely     *)
(* many frames of a broken connection are left to be read before readFrame  *)
(* fails; it asks nothing of a reader that stays in a Write.                *)
Fairness ==
    /\ \A s \in TcpSvc :
         WF_vars(Running /\ TcpNext(s) /\ accPc[s] \notin {"accept"})
    /\ \A s \in TcpSvc : WF_vars(Running /\ TcpAcceptFails(s))
    /\ \A c \in Chan : WF_vars(Running /\ PipeNext(c) /\ ~(pipe[c] = "run" /\ ext[c] = "open"))
    /\ \A u \in UdpSvc : WF_vars(Running /\ UdpNext(u) /\ ~(udpPc[u] = "read" /\ ~sessNil))
    /\ WF_vars(Running /\ ReaderNext /\ rdPc # "read" /\ ~Blocked)
    /\ SF_vars(Running /\ Teardown)
    /\ WF_vars(Running /\ CheckerNext /\ ckPc # "idle")

FairSpec == Spec /\ Fairness

-----------------------------------------------------------------------------
(* Properties.                                                              *)

\* Every variable has its type; an acceptor with a connection in hand has its
\* channel and a loop with a datagram in hand its sender.
TypeOK ==
    /\ stop \in BOOLEAN /\ registered \in BOOLEAN
    /\ link \in {"up", "broken", "closed"}
    /\ lnOpen \subseteq TcpSvc
    /\ accPc \in [TcpSvc -> AccStates]
    /\ accCh \in [TcpSvc -> Chan \cup {NoChan}]
    /\ \A s \in TcpSvc : accPc[s] \in AccBusy \cup {"closing"} => accCh[s] \in Chan
    /\ ext \in [Chan -> {"none", "open", "closed"}]
    /\ tab \subseteq Chan
    /\ pipe \in [Chan -> PipeStates]
    /\ udpPc \in [UdpSvc -> UdpStates]
    /\ udpAddr \in [UdpSvc -> Addr \cup {NoAddr}]
    /\ udpCh \in [UdpSvc -> Chan \cup {NoChan}]
    /\ \A u \in UdpSvc : udpPc[u] = "session" => udpAddr[u] \in Addr
    /\ sess \in [Addr -> Chan \cup {NoChan}]
    /\ sessNil \in BOOLEAN
    /\ owner \in [Chan -> UdpSvc \cup {NoChan}]
    /\ udpMu \in UdpSvc \cup {"free"}
    /\ rdPc \in RdStates /\ rdCh \in Chan \cup {NoChan}
    /\ ckPc \in CkStates /\ ckTodo \subseteq Chan
    /\ ckCh \in Chan \cup {NoChan}
    /\ current \in Int /\ gcur \in Int
    /\ held \subseteq Chan /\ used \subseteq Chan
    /\ announced \subseteq Chan /\ tracked \subseteq Chan

\* Channels that carry traffic: announced TCP channels whose external
\* connection is open, and UDP sessions.
Relayed == {c \in tab \cap announced : ext[c] = "open"} \cup SessChans

\* The client's -max-conns is a limit: never more than MaxConns external
\* connections and sessions are relayed to it at once, however the acceptors,
\* pipes, reader, checker and cleanup interleave (ConnLimit.OnAccept/OnClose
\* around startTCPService, udpReadLoop and the four places that give back).
ClientLimitEnforced == MaxConns > 0 => Cardinality(Relayed) =< MaxConns

\* Every admitted channel gives its client slot back at most once: the counter
\* is the number of channels that still owe a release, so it can neither go
\* below zero nor let a surplus connection in.
SlotAccounting ==
    MaxConns > 0 => /\ current = Cardinality(held)
                    /\ current \in 0 .. MaxConns

\* Channels whose release is still on its way: being set up, in a table, or
\* removed from a table by the pipe or the reader that will release it.
Owed ==
    {accCh[s] : s \in {t \in TcpSvc : accPc[t] \in AccBusy}}
    \cup tab \cup SessChans
    \cup {c \in Chan : pipe[c] = "release"}
    \cup {c \in Chan : rdPc \in {"relTcp", "relUdp"} /\ rdCh = c}

\* No client slot is lost while the client is connected: each slot taken
\* belongs to a channel some goroutine will still release.
NoSlotLeak == ~stop => held \subseteq Owed

\* The server's -max-conns (pluginMgr.connLimiter) is a limit as well: never
\* more than GlobalMax connections and sessions are relayed at once.  Only this
\* direction: slots that are taken and never given back (one per datagram of a
\* session, and per connection the client's own filters refuse) make the server
\* refuse connections although fewer are open.
GlobalLimitEnforced == GlobalMax > 0 => Cardinality(Relayed) =< GlobalMax

\* Services between pluginMgr.OnAccept and the client's own limiter.
Pending ==
    {s \in TcpSvc : accPc[s] = "admit"} \cup {u \in UdpSvc : udpPc[u] = "session"}

\* A channel id that was given up never names a connection again, nor is one
\* put back into a table by a goroutine that still held it: frames the client
\* sends late for it reach nobody else's connection.
IdsNeverReused == [][\A c \in used \ Owed : c \notin Owed']_vars

\* An external connection that is gone gives its client slot back (unless the
\* whole process went down).
SlotReturned ==
    \A c \in Chan : (c \in announced /\ ext[c] = "closed") ~> (c \notin held \/ ~Running)

\* The teardown is over and every service's loop has ended.
TornDown ==
    /\ rdPc = "ended"
    /\ \A s \in TcpSvc : accPc[s] = "done"
    /\ \A u \in UdpSvc : udpPc[u] = "done"

\* The external connection of c is closed, and neither a pipe nor an acceptor
\* has anything to do with it any more.
Settled(c) ==
    /\ ext[c] = "closed" /\ pipe[c] \in {"none", "done"}
    /\ \A s \in TcpSvc : accPc[s] \in AccBusy \cup {"closing"} => accCh[s] # c

\* When the client goes away its teardown reaches its end, every acceptor and
\* datagram loop stops, and every connection that was in the table when the
\* teardown went through it is closed and its pipe ends (or the whole process
\* went down).  A user who never reads can hold it up, the reader being in a
\* Write to him.  Nothing is said of a connection that an acceptor put into the
\* table after the teardown had gone through it: its pipe runs until the user
\* sends something or hangs up.
DisconnectCompletes ==
    \/ <>[]Blocked
    \/ /\ (link = "broken") ~> (TornDown \/ ~Running)
       /\ \A c \in Chan :
            (c \in tab /\ rdPc = "downTcp") ~> (Settled(c) \/ ~Running)

-----------------------------------------------------------------------------
(* The strengthening the proofs rest on (ServerChannelsProofs).             *)

Busy(s) == accPc[s] \in AccBusy

\* A slot that is taken has at most one goroutine that may give it back: the
\* acceptor until the channel is announced, then whoever removes the channel
\* from its table.
Ownership ==
    /\ \A s \in TcpSvc : Busy(s) => /\ accCh[s] \in held \ announced
                                    /\ \A a \in Addr : sess[a] # accCh[s]
    /\ \A s, t \in TcpSvc : Busy(s) /\ Busy(t) /\ accCh[s] = accCh[t] => s = t
    /\ \A c \in Chan : pipe[c] # "none" => /\ c \in announced
                                           /\ \A a \in Addr : sess[a] # c
    /\ \A c \in Chan : pipe[c] = "release" => c \in held \ tab
    /\ tab \cap announced \subseteq held
    /\ \A a \in Addr : sess[a] # NoChan => sess[a] \in held \ tab
    /\ \A a, b \in Addr : sess[a] = sess[b] /\ sess[a] # NoChan => a = b
    /\ rdPc \in {"relTcp", "udp", "relUdp"} => rdCh \in announced
    /\ rdPc \in {"relTcp", "relUdp"} =>
          /\ rdCh \in held \ tab
          /\ pipe[rdCh] # "release"
          /\ \A a \in Addr : sess[a] # rdCh
    /\ held \cup tab \cup announced \subseteq used

ClientSlots == MaxConns > 0 => current = Cardinality(held) /\ current =< MaxConns

SlotInv == TypeOK /\ Ownership /\ ClientSlots

\* Without dynamic plugins the checker is idle and udpMu is never left locked,
\* so what an acceptor put in the table is still there when it is announced.
NoPluginInv ==
    ~DynPlugins =>
        /\ ckPc = "idle" /\ ckTodo = {} /\ udpMu = "free"
        /\ \A s \in TcpSvc : accPc[s] \in {"open", "send"} => accCh[s] \in tab
        /\ ~stop => rdPc \in {"read", "write", "data", "relTcp", "udp", "relUdp"}
        /\ NoSlotLeak

\* Without dynamic plugins every slot the client's channels hold, and every
\* admission under way, is covered by a slot of the server-wide limiter.
GlobalSlots ==
    ~DynPlugins /\ GlobalMax > 0 =>
        /\ Cardinality(held) + Cardinality(Pending) =< gcur
        /\ gcur =< GlobalMax
=============================================================================
