-------------------------- MODULE ServerShutdown --------------------------
(***************************************************************************)
(* How signal-server starts and ends: main, the goroutines of the STUN and *)
(* the relay server it starts, the signal or fatal error that makes it     *)
(* close them, and the lock it needs on the way, clientsMu, which the      *)
(* plugin checker holds while it waits for the udpMu of a client.          *)
(*                                                                         *)
(* stunConn and relayListener are written by the goroutines and read by    *)
(* main without a lock: main sees the socket or nil.                       *)
(***************************************************************************)
EXTENDS Naturals, Sequences

VARIABLES
    mainPc,     \* "select", then the stages of the shutdown
    serves,     \* the servers that are configured, in the order main closes
    server,     \* each server's goroutine
    socket,     \* each server's socket
    published,  \* servers whose socket main can see
    stopping,   \* servers whose stop channel is closed
    fatalCh,    \* errors in the channel of two places
    checkerPc,  \* runPluginChecker: asleep, or between RLock and RUnlock
    loopPc,     \* a datagram loop: outside or inside its section of udpMu, or
                \* gone on without unlocking it
    stalled     \* the loop's client, or a plugin it asks, has stopped reading

lifeVars == <<server, socket, published, fatalCh>>
lockVars == <<checkerPc, loopPc, stalled>>
shutVars == <<mainPc, serves, stopping, lifeVars, lockVars>>

Servers == {"stun", "relay"}

\* After the flags are parsed: without -stun-port there is no STUN server.
ShutInit ==
    /\ mainPc = "off"
    /\ serves \in {<<"relay">>, <<"stun", "relay">>}
    /\ server = [s \in Servers |-> "none"]
    /\ socket = [s \in Servers |-> "none"]
    /\ published = {} /\ stopping = {} /\ fatalCh = 0
    /\ checkerPc = "asleep" /\ loopPc = "outside" /\ stalled = FALSE

Configured == {serves[i] : i \in DOMAIN serves}

-----------------------------------------------------------------------------
(* runSTUNServer and runRelayServer.                                        *)

Bind(s) ==
    /\ server[s] = "starting"
    /\ server' = [server EXCEPT ![s] = "bound"]
    /\ socket' = [socket EXCEPT ![s] = "open"]
    /\ UNCHANGED <<mainPc, serves, stopping, published, fatalCh, lockVars>>

\* stunConn = conn, relayListener = ln; the loop begins.
Publish(s) ==
    /\ server[s] = "bound"
    /\ server' = [server EXCEPT ![s] = "loop"]
    /\ published' = published \cup {s}
    /\ UNCHANGED <<mainPc, serves, stopping, socket, fatalCh, lockVars>>

\* The address cannot be resolved or the port is taken ...
ListenFails(s) ==
    /\ server[s] = "starting"
    /\ server' = [server EXCEPT ![s] = "failed"]
    /\ UNCHANGED <<mainPc, serves, stopping, socket, published, fatalCh, lockVars>>

\* Faulty variant: the channel has no buffer and main reads it once.
SendFatalUnbuffered(s) ==
    /\ server[s] = "failed" /\ mainPc = "select" /\ fatalCh = 0
    /\ fatalCh' = fatalCh + 1
    /\ server' = [server EXCEPT ![s] = "done"]
    /\ UNCHANGED <<mainPc, serves, stopping, socket, published, lockVars>>

\* ... the error goes into fatalCh, and the deferred Done is run.
SendFatal(s) ==
    /\ server[s] = "failed" /\ fatalCh < 2
    /\ fatalCh' = fatalCh + 1
    /\ server' = [server EXCEPT ![s] = "done"]
    /\ UNCHANGED <<mainPc, serves, stopping, socket, published, lockVars>>

\* Read or Accept fails on a closed socket; with its stop channel closed the
\* goroutine returns (otherwise it would try again).
LoopReturns(s) ==
    /\ server[s] = "loop" /\ socket[s] = "closed" /\ s \in stopping
    /\ server' = [server EXCEPT ![s] = "done"]
    /\ UNCHANGED <<mainPc, serves, stopping, socket, published, fatalCh, lockVars>>

-----------------------------------------------------------------------------
(* What may hold clientsMu.                                                 *)

\* runPluginChecker looks a channel up under clientsMu.RLock (not while main
\* waits for the write lock) ...
CheckerLocks ==
    /\ checkerPc = "asleep" /\ mainPc \notin {"off", "clients"}
    /\ checkerPc' = "locked"
    /\ UNCHANGED <<mainPc, serves, stopping, lifeVars, loopPc, stalled>>

\* ... and needs the client's udpMu for that.
CheckerUnlocks ==
    /\ checkerPc = "locked" /\ loopPc = "outside"
    /\ checkerPc' = "asleep"
    /\ UNCHANGED <<mainPc, serves, stopping, lifeVars, loopPc, stalled>>

\* A datagram loop makes a session: on_open is asked, and the frame that
\* announces it written, with udpMu held.
LoopLocks ==
    /\ loopPc = "outside" /\ mainPc # "off"
    /\ loopPc' = "inside"
    /\ UNCHANGED <<mainPc, serves, stopping, lifeVars, checkerPc, stalled>>
LoopWrites ==
    /\ loopPc = "inside" /\ ~stalled
    /\ loopPc' = "outside"
    /\ UNCHANGED <<mainPc, serves, stopping, lifeVars, checkerPc, stalled>>

\* on_open answers close: the loop goes on to its next datagram and leaves udpMu
\* locked.
LoopRefused ==
    /\ loopPc = "inside"
    /\ loopPc' = "abandoned"
    /\ UNCHANGED <<mainPc, serves, stopping, lifeVars, checkerPc, stalled>>

\* The client stops reading, or a plugin stops reading its requests: the write,
\* which has no deadline, does not end.
ClientStalls ==
    /\ ~stalled /\ mainPc # "off"
    /\ stalled' = TRUE
    /\ UNCHANGED <<mainPc, serves, stopping, lifeVars, checkerPc, loopPc>>

-----------------------------------------------------------------------------
(* main.                                                                    *)

GoServers ==
    /\ mainPc = "off"
    /\ mainPc' = "select"
    /\ server' = [s \in Servers |-> IF s \in Configured THEN "starting" ELSE "none"]
    /\ UNCHANGED <<serves, stopping, socket, published, fatalCh, lockVars>>

\* SIGINT or SIGTERM, or an error from fatalCh.
SelectSignal ==
    /\ mainPc = "select"
    /\ mainPc' = "close"
    /\ UNCHANGED <<serves, stopping, lifeVars, lockVars>>
SelectFatal ==
    /\ mainPc = "select" /\ fatalCh > 0
    /\ mainPc' = "close"
    /\ fatalCh' = fatalCh - 1
    /\ UNCHANGED <<serves, stopping, server, socket, published, lockVars>>

\* The next server: its stop channel is closed, and its socket if there is one
\* to be seen.
CloseServer ==
    /\ mainPc = "close" /\ serves # <<>>
    /\ LET s == serves[1] IN
         /\ stopping' = stopping \cup {s}
         /\ socket' = IF s \in published THEN [socket EXCEPT ![s] = "closed"] ELSE socket
    /\ mainPc' = "wait"
    /\ UNCHANGED <<serves, server, published, fatalCh, lockVars>>

\* stunWg.Wait, relayWg.Wait.
ServerDone ==
    /\ mainPc = "wait" /\ server[serves[1]] = "done"
    /\ serves' = IF Len(serves) = 1 THEN <<>> ELSE <<serves[2]>>
    /\ mainPc' = IF Len(serves) = 1 THEN "clients" ELSE "close"
    /\ UNCHANGED <<stopping, lifeVars, lockVars>>

\* clientsMu.Lock: every client is stopped and its connection closed, so that
\* its loops end; then the plugins are stopped and the process exits.
StopClients ==
    /\ mainPc = "clients" /\ checkerPc = "asleep"
    /\ mainPc' = "exited"
    /\ UNCHANGED <<serves, stopping, lifeVars, lockVars>>

-----------------------------------------------------------------------------
ServerSteps(s) == Bind(s) \/ Publish(s) \/ ListenFails(s) \/ SendFatal(s)
                  \/ LoopReturns(s)
MainEnds == CloseServer \/ ServerDone \/ StopClients

ShutNext ==
    /\ mainPc # "exited"
    /\ \/ \E s \in Servers : ServerSteps(s)
       \/ CheckerLocks \/ CheckerUnlocks
       \/ LoopLocks \/ LoopWrites \/ LoopRefused \/ ClientStalls
       \/ GoServers \/ SelectSignal \/ SelectFatal \/ MainEnds

(* Goroutines run; nobody need ever send a signal.  udpMu is granted in turn. *)
ShutFairness ==
    /\ \A s \in Servers : WF_shutVars(mainPc # "exited" /\ ServerSteps(s))
    /\ WF_shutVars(MainEnds) /\ WF_shutVars(SelectFatal)
    /\ SF_shutVars(mainPc # "exited" /\ CheckerUnlocks)
    /\ WF_shutVars(mainPc # "exited" /\ LoopWrites)

-----------------------------------------------------------------------------
(* Properties.                                                              *)

\* main was asked to end before the server's goroutine had published its socket.
Overlooked == \E s \in stopping : socket[s] = "open"

\* The checker waits for a loop that cannot go on, or for nobody.
Jammed ==
    /\ checkerPc = "locked"
    /\ (stalled /\ loopPc = "inside") \/ loopPc = "abandoned"

\* The server ends when it is told to, or when a port was not free: main gets
\* through its two Waits and the lock although both servers may fail at once
\* and the checker may be in the middle of a look-up.  Three ways to hang are
\* named: a socket that main overlooks because it is published after main looked
\* (nobody closes it, and the Wait does not end); a client or a plugin that has
\* stopped reading while a loop holds udpMu (main would close that connection,
\* but waits for the checker, which waits for the loop); and the udpMu that a
\* refused session has left locked, for which the checker waits for ever.
ShutdownCompletes ==
    []<>(mainPc \in {"off", "select", "exited"} \/ Overlooked \/ Jammed)
=============================================================================
