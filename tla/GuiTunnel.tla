----------------------------- MODULE GuiTunnel -----------------------------
(***************************************************************************)
(* The client application behind its web GUI: start and stop requests      *)
(* (handleStart, handleStop), the tunnel goroutine a start spawns          *)
(* (runTunnel: UPnP, then STUN, then relay), the readLoop of the relay     *)
(* client it connects, and the globals they share without a common lock:   *)
(* appStatus, stopCh and relayClient.                                      *)
(*                                                                         *)
(* HTTP handlers run concurrently; one that panics is recovered by         *)
(* net/http and simply ends.  A panic in runTunnel or readLoop ends the    *)
(* process.                                                                *)
(* Each read or write of a global is a step of its own.  The configuration *)
(* of a request (which layers it enables) is part of the choice of how     *)
(* each layer turns out.                                                   *)
(***************************************************************************)
EXTENDS Naturals

CONSTANTS
    Start,       \* start requests, each with the tunnel it may spawn
    Stop,        \* stop requests
    Mapping,     \* (external port, protocol) pairs a tunnel maps by UPnP
    NoStart      \* "no tunnel", the nil relayClient

ASSUME GuiAssumption == NoStart \notin Start

VARIABLES
    crashed,     \* the process died of a panic in runTunnel or readLoop
    running,     \* appStatus.Running
    stopCh,      \* the current stopCh, numbered in order of creation
    closedCh,    \* stop channels that were closed
    relayClient, \* the global: the tunnel that created the client, or nil
    tun,         \* where handleStart and runTunnel of a request are
    waitOn,      \* the stop channel a tunnel or its keepalive waits on
    recv,        \* the client on which a tunnel called Connect
    rl,          \* where the readLoop that Connect of a tunnel started is
    cliConn,     \* Client.conn of each client: the tunnel that dialled it
    closeCh,     \* Client.closeCh of each client
    sock,        \* the relay connection each tunnel dialled; "open" until this
                 \* side closes it, whatever the network does to it
    mine,        \* mappings each tunnel has a deferred delete for
    gw,          \* the gateway's table
    stp,         \* where each stop request is
    target,      \* the client on which a stop request called Close
    broke,       \* history: a relay connection ended without a Close of this side
    lost,        \* history: mappings whose add was not answered or whose delete
                 \* failed
    overlap,     \* history: a start was let through while an earlier request
                 \* was not over
    interrupted  \* history: a stop came before a start was through

statVars == <<crashed, running>>
stopVars == <<stopCh, closedCh>>
cliVars  == <<relayClient, cliConn, closeCh>>
mapVars  == <<mine, gw, lost>>
tunVars  == <<tun, waitOn, recv, overlap>>
handVars == <<stp, target, interrupted>>
loopVars == <<rl, broke>>
vars     == <<statVars, stopVars, cliVars, mapVars, tunVars, sock, handVars, loopVars>>

Init ==
    /\ crashed = FALSE /\ running = FALSE
    /\ stopCh = 0 /\ closedCh = {}
    /\ relayClient = NoStart
    /\ tun = [t \in Start |-> "none"]
    /\ waitOn = [t \in Start |-> 0]
    /\ recv = [t \in Start |-> NoStart]
    /\ rl = [t \in Start |-> "none"]
    /\ cliConn = [t \in Start |-> NoStart]
    /\ closeCh = [t \in Start |-> "nil"]
    /\ sock = [t \in Start |-> "none"]
    /\ mine = [t \in Start |-> {}]
    /\ gw = {} /\ lost = {} /\ overlap = FALSE /\ interrupted = FALSE /\ broke = FALSE
    /\ stp = [h \in Stop |-> "none"]
    /\ target = [h \in Stop |-> NoStart]

Goto(t, pc) == tun' = [tun EXCEPT ![t] = pc]

\* Tunnel goroutines that have not returned.  "undo" is the return itself,
\* with the deferred DeletePortMapping calls.
Alive == {t \in Start : tun[t] \notin {"none", "checked", "done"}}

\* A start on its way to a tunnel that is up, or to its failure.
Starting == {"checked", "upnp", "map", "stun", "keepalive", "relay", "connect",
             "dial", "register", "registered", "up"}

\* A stop request that is being handled.
Stopping == \E h \in Stop : stp[h] \notin {"none", "done", "panic"}

\* An earlier start is not over, or a stop is being handled.
Busy == Stopping \/ \E u \in Start : tun[u] \notin {"none", "done"}

-----------------------------------------------------------------------------
(* handleStart                                                              *)

\* Running is read under RLock: the request is refused or goes on.
CheckRunning(t) ==
    /\ tun[t] = "none"
    /\ Goto(t, IF running THEN "done" ELSE "checked")
    /\ overlap' = (overlap \/ (~running /\ Busy))
    /\ UNCHANGED <<statVars, stopVars, cliVars, mapVars, waitOn, recv, sock, handVars, loopVars>>

\* go runTunnel(...)
Spawn(t) ==
    /\ tun[t] = "checked"
    /\ Goto(t, "upnp")
    /\ UNCHANGED <<statVars, stopVars, cliVars, mapVars, waitOn, recv, overlap,
                   sock, handVars, loopVars>>

-----------------------------------------------------------------------------
(* runTunnel, first layer: UPnP                                             *)

\* The gateway carries out AddPortMapping and DeletePortMapping; adding a
\* mapping that is there, or deleting one that is not, changes nothing.
GatewayAdds(m)    == gw' = gw \cup {m}
GatewayDeletes(m) == gw' = gw \ {m}

\* What the search for a gateway can bring: how far the SSDP answer leads
\* (discoverUPnPIGD, getWANIPConnectionURL), and what comes back from the
\* NAT-PMP port (discoverNATPMP).
SsdpAnswer == {"none", "no location", "no description", "no WAN service", "control URL"}
PmpAnswer  == {"none", "unexpected", "response"}

DiscoverGateway(ssdp, pmp) ==
    CASE ssdp = "control URL"                     -> "igd"
      [] ssdp # "control URL" /\ pmp = "response" -> "nat-pmp"
      [] OTHER                                    -> "error"

\* soapCall reaches a gateway by its control URL, which a NAT-PMP gateway lacks:
\* GetExternalIP fails on it, as on an answer without a valid address.
GetExternalIP(gateway, answer) == gateway = "igd" /\ answer = "address"

Discover(t) ==
    /\ tun[t] = "upnp"
    /\ \E ssdp \in SsdpAnswer, pmp \in PmpAnswer, answer \in {"none", "other", "address"} :
         Goto(t, IF GetExternalIP(DiscoverGateway(ssdp, pmp), answer) THEN "map" ELSE "stun")
    /\ UNCHANGED <<statVars, stopVars, cliVars, mapVars, waitOn, recv, overlap,
                   sock, handVars, loopVars>>

\* AddPortMapping returned nil, and its delete is deferred: the gateway made the
\* mapping, or answered with something that lacks the word errorCode.
AddMapping(t, m) ==
    /\ tun[t] = "map" /\ m \notin mine[t]
    /\ GatewayAdds(m) \/ UNCHANGED gw
    /\ mine' = [mine EXCEPT ![t] = @ \cup {m}]
    /\ UNCHANGED <<statVars, stopVars, cliVars, tunVars, lost, sock, handVars, loopVars>>

\* All are mapped: SetRunning("upnp"), the forwarders start, select {}.
UpnpUp(t) ==
    /\ tun[t] = "map" /\ mine[t] = Mapping /\ Mapping # {}
    /\ running' = TRUE
    /\ Goto(t, "direct")
    /\ UNCHANGED <<crashed, stopVars, cliVars, mapVars, waitOn, recv, overlap,
                   sock, handVars, loopVars>>

\* UPnP is off, or a mapping was refused (errorCode, or no answer).
UpnpFails(t) ==
    /\ tun[t] = "upnp" \/ (tun[t] = "map" /\ (mine[t] # Mapping \/ Mapping = {}))
    /\ Goto(t, "stun")
    /\ UNCHANGED <<statVars, stopVars, cliVars, mapVars, waitOn, recv, overlap,
                   sock, handVars, loopVars>>

\* The gateway made the mapping but its answer was lost: the layer fails and
\* nothing will delete the mapping.
MappingReplyLost(t, m) ==
    /\ tun[t] = "map" /\ m \notin mine[t]
    /\ GatewayAdds(m)
    /\ lost' = lost \cup {m}
    /\ Goto(t, "stun")
    /\ UNCHANGED <<statVars, stopVars, cliVars, mine, waitOn, recv, overlap,
                   sock, handVars, loopVars>>

-----------------------------------------------------------------------------
(* Second layer: STUN                                                       *)

\* What the two binding requests of DetectNATType can bring: no answer, or an
\* address; the second one with the port of the first or another.  The local
\* address is the wildcard of net.ListenUDP, which no answer equals, so the
\* results "no-nat" and "port-restricted" cannot occur.
Binding1 == {"lost", "mapped"}
Binding2 == {"lost", "same port", "other port"}

DetectNATType(first, second) ==
    CASE first = "lost"         -> "error"
      [] second = "lost"        -> "symmetric"
      [] second = "other port"  -> "symmetric"
      [] second = "same port"   -> "full-cone"

\* full-cone: SetRunning, ...
StunUp(t) ==
    /\ tun[t] = "stun"
    /\ \E first \in Binding1, second \in Binding2 :
         DetectNATType(first, second) = "full-cone"
    /\ running' = TRUE
    /\ Goto(t, "keepalive")
    /\ UNCHANGED <<crashed, stopVars, cliVars, mapVars, waitOn, recv, overlap,
                   sock, handVars, loopVars>>

\* ... go keepalive.Keepalive(..., stopCh), the forwarders, select {}.
StartKeepalive(t) ==
    /\ tun[t] = "keepalive"
    /\ waitOn' = [waitOn EXCEPT ![t] = stopCh]
    /\ Goto(t, "direct+keepalive")
    /\ UNCHANGED <<statVars, stopVars, cliVars, mapVars, recv, overlap, sock,
                   handVars, loopVars>>

\* The keepalive sees its stop channel closed; the tunnel stays in select {}.
KeepaliveEnds(t) ==
    /\ tun[t] = "direct+keepalive" /\ waitOn[t] \in closedCh
    /\ Goto(t, "direct")
    /\ UNCHANGED <<statVars, stopVars, cliVars, mapVars, waitOn, recv, overlap,
                   sock, handVars, loopVars>>

\* No STUN server, no answer, or another kind of NAT.
StunFails(t) ==
    /\ tun[t] = "stun"
    /\ \E first \in Binding1, second \in Binding2 :
         DetectNATType(first, second) # "full-cone"
    /\ Goto(t, "relay")
    /\ UNCHANGED <<statVars, stopVars, cliVars, mapVars, waitOn, recv, overlap,
                   sock, handVars, loopVars>>

-----------------------------------------------------------------------------
(* Third layer: relay                                                       *)

\* SetStopped(err) and return.
Fails(t) ==
    /\ running' = FALSE
    /\ Goto(t, "undo")

\* No relay server was given.
NoRelay(t) ==
    /\ tun[t] = "relay"
    /\ Fails(t)
    /\ UNCHANGED <<crashed, stopVars, cliVars, mapVars, waitOn, recv, overlap,
                   sock, handVars, loopVars>>

\* relayClient = &relay.Client{...}
NewClient(t) ==
    /\ tun[t] = "relay"
    /\ relayClient' = t
    /\ Goto(t, "connect")
    /\ UNCHANGED <<statVars, stopVars, cliConn, closeCh, mapVars, waitOn, recv,
                   overlap, sock, handVars, loopVars>>

\* relayClient.Connect() on whatever the global holds by now; on nil the
\* first use of the receiver panics.
CallConnect(t) ==
    /\ tun[t] = "connect"
    /\ crashed' = (relayClient = NoStart)
    /\ recv' = [recv EXCEPT ![t] = relayClient]
    /\ Goto(t, "dial")
    /\ UNCHANGED <<running, stopVars, cliVars, mapVars, waitOn, overlap, sock,
                   handVars, loopVars>>

\* The dial succeeded: c.conn and c.closeCh are set, register is sent.
Dial(t) ==
    /\ tun[t] = "dial"
    /\ sock' = [sock EXCEPT ![t] = "open"]
    /\ cliConn' = [cliConn EXCEPT ![recv[t]] = t]
    /\ closeCh' = [closeCh EXCEPT ![recv[t]] = "open"]
    /\ Goto(t, "register")
    /\ UNCHANGED <<statVars, stopVars, relayClient, mapVars, waitOn, recv,
                   overlap, handVars, loopVars>>

\* Dial or registration failed (or its 10 seconds passed): conn.Close().
ConnectFails(t) ==
    /\ tun[t] \in {"dial", "register"}
    /\ sock' = [sock EXCEPT ![t] = IF @ = "open" THEN "closed" ELSE @]
    /\ Fails(t)
    /\ UNCHANGED <<crashed, stopVars, cliVars, mapVars, waitOn, recv, overlap,
                   handVars, loopVars>>

\* ok was read; go c.readLoop(), and Connect returns nil.
Registered(t) ==
    /\ tun[t] = "register"
    /\ sock[cliConn[recv[t]]] = "open"
    /\ Goto(t, "registered")
    /\ rl' = [rl EXCEPT ![t] = "run"]
    /\ UNCHANGED <<statVars, stopVars, cliVars, mapVars, waitOn, recv, overlap,
                   sock, handVars, broke>>

\* SetRunning("relay")
RelayUp(t) ==
    /\ tun[t] = "registered"
    /\ running' = TRUE
    /\ Goto(t, "up")
    /\ UNCHANGED <<crashed, stopVars, cliVars, mapVars, waitOn, recv, overlap,
                   sock, handVars, loopVars>>

\* <-stopCh: the channel is read from the global once.
Wait(t) ==
    /\ tun[t] = "up"
    /\ waitOn' = [waitOn EXCEPT ![t] = stopCh]
    /\ Goto(t, "wait")
    /\ UNCHANGED <<statVars, stopVars, cliVars, mapVars, recv, overlap, sock,
                   handVars, loopVars>>

Woken(t) ==
    /\ tun[t] = "wait" /\ waitOn[t] \in closedCh
    /\ Goto(t, "undo")
    /\ UNCHANGED <<statVars, stopVars, cliVars, mapVars, waitOn, recv, overlap,
                   sock, handVars, loopVars>>

\* Faulty variant: the mappings are not deferred, they stay on return.
UndoKeeps(t) ==
    /\ tun[t] = "undo"
    /\ mine' = [mine EXCEPT ![t] = {}]
    /\ Goto(t, "done")
    /\ UNCHANGED <<statVars, stopVars, cliVars, gw, lost, waitOn, recv, overlap,
                   sock, handVars, loopVars>>

\* The deferred DeletePortMapping calls, one at a time, their errors ignored;
\* then the return.
Undo(t) ==
    /\ tun[t] = "undo"
    /\ \/ \E m \in mine[t] :
            /\ \/ GatewayDeletes(m) /\ lost' = lost \ {m}
               \/ gw' = gw /\ lost' = lost \cup {m}
            /\ mine' = [mine EXCEPT ![t] = @ \ {m}]
            /\ UNCHANGED tun
       \/ /\ mine[t] = {}
          /\ Goto(t, "done")
          /\ UNCHANGED mapVars
    /\ UNCHANGED <<statVars, stopVars, cliVars, waitOn, recv, overlap, sock, handVars, loopVars>>

-----------------------------------------------------------------------------
(* The readLoop of a relay client, on the client of its tunnel.             *)

\* It ends when it sees closeCh closed, when its read or its heartbeat fails, or
\* when the connection was closed under it.  Nobody else is told: runTunnel goes
\* on waiting and Running stays set.
ReadLoopEnds(t) ==
    /\ rl[t] = "run"
    /\ rl' = [rl EXCEPT ![t] = "select"]
    /\ broke' = (broke \/ (closeCh[recv[t]] # "closed" /\ sock[cliConn[recv[t]]] = "open"))
    /\ UNCHANGED <<statVars, stopVars, cliVars, mapVars, tunVars, sock, handVars>>

\* The deferred c.Close() has the three steps a stop request's has: select,
\* close(closeCh) by whoever found it open (a second close panics), conn.Close().
ReadLoopSelects(t) ==
    /\ rl[t] = "select"
    /\ rl' = [rl EXCEPT ![t] = IF closeCh[recv[t]] = "closed" THEN "conn" ELSE "closing"]
    /\ UNCHANGED <<statVars, stopVars, cliVars, mapVars, tunVars, sock, handVars, broke>>

ReadLoopCloses(t) ==
    /\ rl[t] = "closing"
    /\ crashed' = (closeCh[recv[t]] # "open")
    /\ closeCh' = [closeCh EXCEPT ![recv[t]] = "closed"]
    /\ rl' = [rl EXCEPT ![t] = "conn"]
    /\ UNCHANGED <<running, stopVars, relayClient, cliConn, mapVars, tunVars, sock,
                   handVars, broke>>

ReadLoopHangs(t) ==
    /\ rl[t] = "conn"
    /\ sock' = [sock EXCEPT ![cliConn[recv[t]]] = "closed"]
    /\ rl' = [rl EXCEPT ![t] = "done"]
    /\ UNCHANGED <<statVars, stopVars, cliVars, mapVars, tunVars, handVars, broke>>

-----------------------------------------------------------------------------
(* handleStop                                                               *)

\* The request arrives.
StopArrives(h) ==
    /\ stp[h] = "none"
    /\ stp' = [stp EXCEPT ![h] = "close"]
    /\ interrupted' = (interrupted \/ \E t \in Start : tun[t] \in Starting)
    /\ UNCHANGED <<target, statVars, stopVars, cliVars, mapVars, tunVars, sock, loopVars>>

\* Faulty variant: stopCh is replaced, the old one is not closed.
StopCloseNot(h) ==
    /\ stp[h] = "close"
    /\ stp' = [stp EXCEPT ![h] = "renew"]
    /\ UNCHANGED <<target, interrupted, statVars, stopVars, cliVars, mapVars, tunVars, sock, loopVars>>

\* Faulty variant: stopCh is replaced first, and the new one closed.
StopCloseNew(h) ==
    /\ stp[h] = "close"
    /\ closedCh' = closedCh \cup {stopCh + 1}
    /\ stp' = [stp EXCEPT ![h] = IF stopCh \in closedCh THEN "panic" ELSE "renew"]
    /\ UNCHANGED <<target, interrupted, statVars, stopCh, cliVars, mapVars, tunVars, sock, loopVars>>

\* close(stopCh); closing it twice panics.
StopClose(h) ==
    /\ stp[h] = "close"
    /\ closedCh' = closedCh \cup {stopCh}
    /\ stp' = [stp EXCEPT ![h] = IF stopCh \in closedCh THEN "panic" ELSE "renew"]
    /\ UNCHANGED <<target, interrupted, statVars, stopCh, cliVars, mapVars, tunVars, sock, loopVars>>

\* stopCh = make(chan struct{})
StopRenew(h) ==
    /\ stp[h] = "renew"
    /\ stopCh' = stopCh + 1
    /\ stp' = [stp EXCEPT ![h] = "client"]
    /\ UNCHANGED <<target, interrupted, statVars, closedCh, cliVars, mapVars, tunVars, sock, loopVars>>

\* if relayClient != nil
StopLooks(h) ==
    /\ stp[h] = "client"
    /\ stp' = [stp EXCEPT ![h] = IF relayClient = NoStart THEN "status" ELSE "hangup"]
    /\ UNCHANGED <<target, interrupted, statVars, stopVars, cliVars, mapVars, tunVars, sock, loopVars>>

\* relayClient.Close(): the receiver is read from the global; on one that was
\* set to nil meanwhile the first use panics.
StopHangup(h) ==
    /\ stp[h] = "hangup"
    /\ target' = [target EXCEPT ![h] = relayClient]
    /\ stp' = [stp EXCEPT ![h] = IF relayClient = NoStart THEN "panic" ELSE "select"]
    /\ UNCHANGED <<interrupted, statVars, stopVars, cliVars, mapVars, tunVars, sock,
                   loopVars>>

\* select { case <-c.closeCh: default: ... }; a nil channel is never ready.
StopSelects(h) ==
    /\ stp[h] = "select"
    /\ stp' = [stp EXCEPT ![h] = IF closeCh[target[h]] = "closed" THEN "conn" ELSE "closing"]
    /\ UNCHANGED <<target, interrupted, statVars, stopVars, cliVars, mapVars, tunVars,
                   sock, loopVars>>

\* close(c.closeCh): panics on a client that has not dialled yet (closeCh is
\* nil) and when another Close got here first.
StopCloses(h) ==
    /\ stp[h] = "closing"
    /\ IF closeCh[target[h]] = "open"
       THEN /\ closeCh' = [closeCh EXCEPT ![target[h]] = "closed"]
            /\ stp' = [stp EXCEPT ![h] = "conn"]
       ELSE /\ stp' = [stp EXCEPT ![h] = "panic"]
            /\ UNCHANGED closeCh
    /\ UNCHANGED <<target, interrupted, statVars, stopVars, relayClient, cliConn, mapVars,
                   tunVars, sock, loopVars>>

\* Faulty variant: closeCh is closed, the connection is not.
StopHangsNot(h) ==
    /\ stp[h] = "conn"
    /\ stp' = [stp EXCEPT ![h] = "forget"]
    /\ UNCHANGED <<target, interrupted, statVars, stopVars, cliVars, mapVars, tunVars,
                   sock, loopVars>>

\* c.conn.Close()
StopHangs(h) ==
    /\ stp[h] = "conn"
    /\ sock' = [sock EXCEPT ![cliConn[target[h]]] = "closed"]
    /\ stp' = [stp EXCEPT ![h] = "forget"]
    /\ UNCHANGED <<target, interrupted, statVars, stopVars, cliVars, mapVars, tunVars,
                   loopVars>>

\* relayClient = nil
StopForget(h) ==
    /\ stp[h] = "forget"
    /\ relayClient' = NoStart
    /\ stp' = [stp EXCEPT ![h] = "status"]
    /\ UNCHANGED <<target, interrupted, statVars, stopVars, cliConn, closeCh, mapVars, tunVars, sock, loopVars>>

\* Faulty variant: the handler answers without SetStopped.
StopStatusNot(h) ==
    /\ stp[h] = "status"
    /\ stp' = [stp EXCEPT ![h] = "done"]
    /\ UNCHANGED <<target, interrupted, statVars, stopVars, cliVars, mapVars, tunVars, sock, loopVars>>

\* SetStopped("stopped by user")
StopStatus(h) ==
    /\ stp[h] = "status"
    /\ running' = FALSE
    /\ stp' = [stp EXCEPT ![h] = "done"]
    /\ UNCHANGED <<target, interrupted, crashed, stopVars, cliVars, mapVars, tunVars, sock, loopVars>>

-----------------------------------------------------------------------------
TunnelNext(t) ==
    \/ Spawn(t) \/ Discover(t) \/ UpnpUp(t) \/ UpnpFails(t)
    \/ StunUp(t) \/ StartKeepalive(t) \/ KeepaliveEnds(t) \/ StunFails(t) \/ NoRelay(t)
    \/ NewClient(t) \/ CallConnect(t) \/ Dial(t) \/ ConnectFails(t)
    \/ Registered(t) \/ RelayUp(t) \/ Wait(t) \/ Woken(t) \/ Undo(t)
    \/ \E m \in Mapping : AddMapping(t, m) \/ MappingReplyLost(t, m)

StopNext(h) ==
    \/ StopClose(h) \/ StopRenew(h) \/ StopLooks(h) \/ StopHangup(h)
    \/ StopSelects(h) \/ StopCloses(h) \/ StopHangs(h)
    \/ StopForget(h) \/ StopStatus(h)

ReadLoopNext(t) ==
    \/ ReadLoopEnds(t) \/ ReadLoopSelects(t) \/ ReadLoopCloses(t) \/ ReadLoopHangs(t)

Next ==
    /\ ~crashed
    /\ \/ \E t \in Start : CheckRunning(t) \/ TunnelNext(t) \/ ReadLoopNext(t)
       \/ \E h \in Stop : StopArrives(h) \/ StopNext(h)

Spec == Init /\ [][Next]_vars

-----------------------------------------------------------------------------
(* Properties.                                                              *)

\* Every variable has its type; stop channels are closed in order.
TypeOK ==
    /\ crashed \in BOOLEAN /\ running \in BOOLEAN /\ overlap \in BOOLEAN
    /\ interrupted \in BOOLEAN /\ broke \in BOOLEAN
    /\ stopCh \in Nat /\ closedCh \subseteq 0 .. stopCh
    /\ relayClient \in Start \cup {NoStart}
    /\ tun \in [Start -> {"none", "checked", "upnp", "map", "stun", "keepalive",
                          "direct+keepalive", "direct", "relay", "connect",
                          "dial", "register", "registered", "up", "wait",
                          "undo", "done"}]
    /\ waitOn \in [Start -> Nat]
    /\ recv \in [Start -> Start \cup {NoStart}]
    /\ rl \in [Start -> {"none", "run", "select", "closing", "conn", "done"}]
    /\ cliConn \in [Start -> Start \cup {NoStart}]
    /\ closeCh \in [Start -> {"nil", "open", "closed"}]
    /\ sock \in [Start -> {"none", "open", "closed"}]
    /\ mine \in [Start -> SUBSET Mapping]
    /\ gw \subseteq Mapping /\ lost \subseteq Mapping
    /\ stp \in [Stop -> {"none", "close", "renew", "client", "hangup", "select",
                         "closing", "conn", "forget", "status", "done", "panic"}]
    /\ target \in [Stop -> Start \cup {NoStart}]

\* As long as nobody starts a tunnel before the last one and the stop that
\* ended it are over, and no relay connection ends by itself, appStatus.Running
\* does not claim a tunnel that is gone: when it is set and no stop request is
\* under way, the goroutine of runTunnel has not returned and, if no stop came
\* before a start was through, a tunnel by relay still has its connection.
\* Stops may interrupt a start and race each other through Client.Close, where
\* the slower one panics.  A connection that ends by itself is excepted because
\* nothing unsets Running then, and because the Close that readLoop defers may
\* make the one of handleStop panic before SetStopped.
ShownRunningIsServed ==
    running /\ ~overlap /\ ~broke /\ ~Stopping =>
        \E t \in Alive : \/ interrupted
                        \/ tun[t] \in {"keepalive", "direct+keepalive", "direct"}
                        \/ sock[t] = "open"

\* A port mapping the gateway confirmed, and whose delete it carries out, goes
\* away with the tunnel that made it: none outlives its last owner, whichever
\* way runTunnel returned (the deferred DeletePortMapping calls, also after a
\* partial failure of the UPnP layer).  It says nothing of a process that ends:
\* an exit of the command line client and a panic run none of the deletes.
MappingsGoWithTunnel ==
    \A m \in gw \ lost : \E t \in Alive : m \in mine[t]

\* As long as starts wait for earlier requests to be over and stops for a start
\* to be through, a tunnel that was stopped is disconnected from the relay
\* server, however many stop requests and whichever readLoop race for it
\* (handleStop, Client.Close): its connection is closed, or readLoop is about to
\* close it.
StopDisconnects ==
    ~overlap /\ ~interrupted /\ ~Stopping =>
        \A t \in Start : tun[t] = "done" => sock[t] # "open" \/ rl[t] = "conn"

\* No tunnel and no keepalive waits on a stop channel that no stop request
\* will close any more, however requests race to close and replace stopCh.
NoMissedStop ==
    \A t \in Start : tun[t] \in {"wait", "direct+keepalive"} =>
        waitOn[t] \in closedCh \cup {stopCh}

-----------------------------------------------------------------------------
(* The strengthening the proofs rest on (GuiTunnelProofs).                  *)

\* Between its close and its make a stop request is alone, and the channel it
\* is about to replace is closed.
OneRenews ==
    /\ \A h \in Stop : stp[h] = "renew" => stopCh \in closedCh
    /\ \A h, k \in Stop : stp[h] = "renew" /\ stp[k] = "renew" => h = k

\* Only a tunnel that has not returned has deletes to run.
DeferredAlive == \A t \in Start : mine[t] # {} => t \in Alive

StopInv == TypeOK /\ OneRenews /\ NoMissedStop

MapInv == TypeOK /\ DeferredAlive /\ MappingsGoWithTunnel
=============================================================================
