---------------------------- MODULE Registration ----------------------------
(***************************************************************************)
(* Clients registering their TCP services with signal-server: the clients  *)
(* and listeners maps, the ports the operating system has bound, the       *)
(* handleRelayClient goroutine of each connection and the acceptor         *)
(* goroutine of each service, from the connection to its teardown.         *)
(*                                                                         *)
(* Two steps of two goroutines can come in any order except inside one     *)
(* critical section of listenMu or clientsMu.                              *)
(***************************************************************************)
EXTENDS Naturals, Sequences, FiniteSets

CONSTANTS
    Conn,        \* relay connections, one client each
    Port,        \* remote ports
    NoConn,
    Wants,       \* the ports each client registers
    NewConns     \* bound: announcements followed per client, 0 or 1

ASSUME RegAssumption ==
    /\ Wants \in [Conn -> SUBSET Port] /\ NoConn \notin Conn
    /\ NewConns \in {0, 1}

VARIABLES
    pc,          \* handleRelayClient of each connection
    clients,     \* keys of the clients map
    listeners,   \* the listeners map: port -> owner of the listener
    bound,       \* ports bound by a listening socket, and whose it is
    acc,         \* the acceptor goroutine of each service
    todo,        \* services still to start, later listeners still to close
    failed,      \* failedServices
    peer,        \* the client is still connected
    wire,        \* the first frame parts written to the client, in order
    ncPart       \* parts of a new_conn frame an acceptor has written

regVars == <<pc, clients, todo, failed>>
vars    == <<pc, clients, listeners, bound, acc, todo, failed, peer, wire, ncPart>>

PcStates  == {"none", "reading", "services", "okPayload", "serving", "closing",
              "deleting", "closed"}
AccStates == {"none", "run", "exit", "close", "done"}

Init ==
    /\ pc = [k \in Conn |-> "none"]
    /\ clients = {}
    /\ listeners = [p \in Port |-> NoConn]
    /\ bound = [p \in Port |-> NoConn]
    /\ acc = [k \in Conn |-> [p \in Port |-> "none"]]
    /\ todo = [k \in Conn |-> {}] /\ failed = [k \in Conn |-> {}]
    /\ peer = [k \in Conn |-> FALSE]
    /\ wire = [k \in Conn |-> <<>>] /\ ncPart = [k \in Conn |-> 0]

\* Only the first two parts matter: what Connect reads as the reply.
Write(k, part) ==
    wire' = [wire EXCEPT ![k] = IF Len(@) < 2 THEN Append(@, part) ELSE @]
SetPc(k, to)   == pc' = [pc EXCEPT ![k] = to]

-----------------------------------------------------------------------------
(* handleRelayClient.                                                       *)

\* runRelayServer accepted a connection: it is in the clients map at once.
Connect(k) ==
    /\ pc[k] = "none"
    /\ SetPc(k, "reading")
    /\ clients' = clients \cup {k}
    /\ peer' = [peer EXCEPT ![k] = TRUE]
    /\ UNCHANGED <<listeners, bound, acc, todo, failed, wire, ncPart>>

\* Faulty variant: no deadline, a silent client is waited for.
RegisterFailsNoDeadline(k) ==
    /\ pc[k] = "reading" /\ ~peer[k]
    /\ SetPc(k, "closed")
    /\ clients' = clients \ {k}
    /\ UNCHANGED <<listeners, bound, acc, todo, failed, peer, wire, ncPart>>

\* No valid register frame within 15 seconds, or the connection is gone.
RegisterFails(k) ==
    /\ pc[k] = "reading"
    /\ SetPc(k, "closed")
    /\ clients' = clients \ {k}
    /\ UNCHANGED <<listeners, bound, acc, todo, failed, peer, wire, ncPart>>

\* The auth key does not match: an error reply, then the same.
AuthFails(k) ==
    /\ pc[k] = "reading" /\ peer[k]
    /\ SetPc(k, "closed")
    /\ clients' = clients \ {k}
    /\ Write(k, "error")
    /\ UNCHANGED <<listeners, bound, acc, todo, failed, peer, ncPart>>

Register(k) ==
    /\ pc[k] = "reading"
    /\ SetPc(k, "services")
    /\ todo' = [todo EXCEPT ![k] = Wants[k]]
    /\ UNCHANGED <<clients, listeners, bound, acc, failed, peer, wire, ncPart>>

\* startTCPService under listenMu: the port is in the map, or bound.
StartFails(k, p) ==
    /\ pc[k] = "services" /\ p \in todo[k]
    /\ listeners[p] # NoConn \/ bound[p] # NoConn
    /\ todo' = [todo EXCEPT ![k] = @ \ {p}]
    /\ failed' = [failed EXCEPT ![k] = @ \cup {p}]
    /\ UNCHANGED <<pc, clients, listeners, bound, acc, peer, wire, ncPart>>

\* startTCPService under listenMu: bind, enter the map, start the acceptor.
Start(k, p) ==
    /\ pc[k] = "services" /\ p \in todo[k]
    /\ listeners[p] = NoConn /\ bound[p] = NoConn
    /\ todo' = [todo EXCEPT ![k] = @ \ {p}]
    /\ listeners' = [listeners EXCEPT ![p] = k]
    /\ bound' = [bound EXCEPT ![p] = k]
    /\ acc' = [acc EXCEPT ![k][p] = "run"]
    /\ UNCHANGED <<pc, clients, failed, peer, wire, ncPart>>

Started(k) == Wants[k] \ failed[k]

\* The ok reply: header and payload are two writes, made without writeMu.
OkHeader(k) ==
    /\ pc[k] = "services" /\ todo[k] = {}
    /\ SetPc(k, "okPayload")
    /\ Write(k, "ok.header")
    /\ UNCHANGED <<clients, listeners, bound, acc, todo, failed, peer, ncPart>>

OkPayload(k) ==
    /\ pc[k] = "okPayload"
    /\ SetPc(k, "serving")
    /\ Write(k, "ok.payload")
    /\ UNCHANGED <<clients, listeners, bound, acc, todo, failed, peer, ncPart>>

\* The ok reply cannot be written, or relayReadLoop returns: client.stop(), and
\* the teardown goes through the client's listeners.
Leave(k) ==
    /\ ~peer[k]
    /\ \/ pc[k] \in {"okPayload", "serving"}
       \/ pc[k] = "services" /\ todo[k] = {}
    /\ SetPc(k, "closing")
    /\ todo' = [todo EXCEPT ![k] = Started(k)]
    /\ UNCHANGED <<clients, listeners, bound, acc, failed, peer, wire, ncPart>>

\* Faulty variant: the entry is dropped, the listener is not closed.
CloseListenerNot(k, p) ==
    /\ pc[k] = "closing" /\ p \in todo[k]
    /\ SetPc(k, "deleting")
    /\ todo' = [todo EXCEPT ![k] = @ \ {p}]
    /\ UNCHANGED <<clients, listeners, bound, acc, failed, peer, wire, ncPart>>

\* l.Close() frees the port ...
CloseListener(k, p) ==
    /\ pc[k] = "closing" /\ p \in todo[k]
    /\ SetPc(k, "deleting")
    /\ todo' = [todo EXCEPT ![k] = @ \ {p}]
    /\ bound' = [bound EXCEPT ![p] = IF @ = k THEN NoConn ELSE @]
    /\ UNCHANGED <<clients, listeners, acc, failed, peer, wire, ncPart>>

\* ... then, under listenMu, every entry that is a closed listener of ours goes.
DeleteEntries(k) ==
    /\ pc[k] = "deleting"
    /\ SetPc(k, "closing")
    /\ listeners' = [p \in Port |->
                        IF listeners[p] = k /\ p \notin todo[k] THEN NoConn
                                                                ELSE listeners[p]]
    /\ UNCHANGED <<clients, bound, acc, todo, failed, peer, wire, ncPart>>

\* delete(clients, cid) and conn.Close().
Forget(k) ==
    /\ pc[k] = "closing" /\ todo[k] = {}
    /\ SetPc(k, "closed")
    /\ clients' = clients \ {k}
    /\ UNCHANGED <<listeners, bound, acc, todo, failed, peer, wire, ncPart>>

-----------------------------------------------------------------------------
(* The acceptor of service p of client k.                                   *)

\* An external user connected: the two parts of new_conn, under writeMu (which
\* the ok reply does not take).
NewConn(k, p) ==
    /\ acc[k][p] = "run" /\ bound[p] = k /\ peer[k]
    /\ ncPart[k] = 0 /\ NewConns = 1
    /\ ncPart' = [ncPart EXCEPT ![k] = 1]
    /\ Write(k, "new_conn.header")
    /\ UNCHANGED <<listeners, bound, acc, peer, regVars>>

\* Faulty variant: the payload is written again and again.
NewConnPayloadAgain(k) ==
    /\ ncPart' = [ncPart EXCEPT ![k] = @ + 1]
    /\ Write(k, "new_conn.payload")
    /\ UNCHANGED <<listeners, bound, acc, peer, regVars>>

NewConnPayload(k) ==
    /\ ncPart[k] = 1
    /\ ncPart' = [ncPart EXCEPT ![k] = 2]
    /\ Write(k, "new_conn.payload")
    /\ UNCHANGED <<listeners, bound, acc, peer, regVars>>

\* The goroutine returns: Accept failed on the closed listener, a plugin closed
\* a connection at on_open, or new_conn could not be written.
AcceptorReturns(k, p) ==
    /\ acc[k][p] = "run"
    /\ acc' = [acc EXCEPT ![k][p] = "exit"]
    /\ UNCHANGED <<listeners, bound, peer, wire, ncPart, regVars>>

\* Faulty variant: the deferred function only closes the listener.
AcceptorDeletesNot(k, p) ==
    /\ acc[k][p] = "exit"
    /\ acc' = [acc EXCEPT ![k][p] = "close"]
    /\ UNCHANGED <<listeners, bound, peer, wire, ncPart, regVars>>

\* Its deferred function deletes the port's entry, whoever made it ...
AcceptorDeletes(k, p) ==
    /\ acc[k][p] = "exit"
    /\ acc' = [acc EXCEPT ![k][p] = "close"]
    /\ listeners' = [listeners EXCEPT ![p] = NoConn]
    /\ UNCHANGED <<bound, peer, wire, ncPart, regVars>>

\* ... and closes its own listener.
AcceptorCloses(k, p) ==
    /\ acc[k][p] = "close"
    /\ acc' = [acc EXCEPT ![k][p] = "done"]
    /\ bound' = [bound EXCEPT ![p] = IF @ = k THEN NoConn ELSE @]
    /\ UNCHANGED <<listeners, peer, wire, ncPart, regVars>>

-----------------------------------------------------------------------------
\* The client goes away.
PeerGone(k) ==
    /\ peer[k]
    /\ peer' = [peer EXCEPT ![k] = FALSE]
    /\ UNCHANGED <<listeners, bound, acc, wire, ncPart, regVars>>

HandlerNext(k) ==
    \/ RegisterFails(k) \/ AuthFails(k) \/ Register(k)
    \/ OkHeader(k) \/ OkPayload(k) \/ Leave(k) \/ DeleteEntries(k) \/ Forget(k)
    \/ \E p \in Port : StartFails(k, p) \/ Start(k, p) \/ CloseListener(k, p)

AcceptorNext(k, p) ==
    AcceptorReturns(k, p) \/ AcceptorDeletes(k, p) \/ AcceptorCloses(k, p)

Next ==
    \E k \in Conn :
        \/ Connect(k) \/ PeerGone(k) \/ HandlerNext(k) \/ NewConnPayload(k)
        \/ \E p \in Port : NewConn(k, p) \/ AcceptorNext(k, p)

Spec == Init /\ [][Next]_vars

(* A handler that can run does, the 15 second deadline bounds the wait for a *)
(* client that does not register, and an acceptor whose listener is closed   *)
(* notices.  That the handler of a client that is gone gets to its teardown  *)
(* takes for granted that its reader is not in a Write to an external user   *)
(* who does not read (main.go extConn.Write; ServerChannels has that case),  *)
(* and that udpMu was not left locked by a refused session.                  *)
Fairness ==
    \A k \in Conn :
        /\ WF_vars(HandlerNext(k) /\ pc[k] # "reading")
        /\ WF_vars(RegisterFails(k))
        /\ \A p \in Port :
             /\ WF_vars(AcceptorReturns(k, p) /\ bound[p] # k)
             /\ WF_vars(AcceptorDeletes(k, p)) /\ WF_vars(AcceptorCloses(k, p))

FairSpec == Spec /\ Fairness

-----------------------------------------------------------------------------
(* Properties.                                                              *)

\* Every variable has its type.
TypeOK ==
    /\ pc \in [Conn -> PcStates]
    /\ clients \subseteq Conn
    /\ listeners \in [Port -> Conn \cup {NoConn}]
    /\ bound \in [Port -> Conn \cup {NoConn}]
    /\ acc \in [Conn -> [Port -> AccStates]]
    /\ todo \in [Conn -> SUBSET Port] /\ failed \in [Conn -> SUBSET Port]
    /\ peer \in [Conn -> BOOLEAN]
    /\ ncPart \in [Conn -> 0 .. 2]

\* A port is never blocked for good by something that nobody will clear away: an
\* entry of the listeners map has an acceptor that has yet to delete it, a bound
\* port one that has yet to close it, and a client that is out of the clients map
\* has neither entries nor ports, although its acceptors may still be on their
\* way out and delete whatever entry they find.
NoStaleEntry ==
    \A p \in Port : \A k \in Conn :
        /\ listeners[p] = k => acc[k][p] \in {"run", "exit"}
        /\ bound[p] = k => acc[k][p] \in {"run", "exit", "close"}
        /\ k \notin clients => listeners[p] # k /\ bound[p] # k

\* The TCP services of a client that is gone (it does not come back on the same
\* connection) leave nothing behind, wherever its handler was: in the end their
\* ports are free again, their entries deleted, and the client is out of the
\* clients map (its reader not being held up, see Fairness).
PortsComeBack ==
    \A k \in Conn :
        <>[](~peer[k] =>
               /\ k \notin clients
               /\ \A p \in Port : bound[p] # k /\ listeners[p] # k)

\* Every connection is dealt with: it is served or dropped, and neither the
\* registration nor the teardown of one that is not served any more gets stuck.
EveryConnectionSettles ==
    \A k \in Conn : []<>(pc[k] \in {"none", "serving", "closed"})

\* The reply to register is a whole ok frame: what relay.Client.Connect reads
\* first is ok (or an error), header and payload together.
ReplyComesFirst ==
    \A k \in Conn :
        /\ Len(wire[k]) >= 1 => wire[k][1] \in {"ok.header", "error"}
        /\ Len(wire[k]) >= 2 => wire[k][2] = "ok.payload"
=============================================================================
