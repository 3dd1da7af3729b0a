------------------------- MODULE RegistrationProofs -------------------------
(***************************************************************************)
(* Proofs about Registration, for any numbers of clients and ports and any *)
(* wishes of the clients.                                                  *)
(***************************************************************************)
EXTENDS Registration, TLAPS

(* TypeOK is inductive: one step per action of a handler and of an          *)
(* acceptor.                                                                *)
LEMMA TypeStep == TypeOK /\ [Next]_vars => TypeOK'
<1> SUFFICES ASSUME TypeOK, [Next]_vars PROVE TypeOK'
  OBVIOUS
<1> USE RegAssumption DEF TypeOK, PcStates, AccStates, SetPc, regVars
<1>1. ASSUME NEW k \in Conn, Connect(k) PROVE TypeOK'
  BY <1>1 DEF Connect
<1>2. ASSUME NEW k \in Conn, PeerGone(k) PROVE TypeOK'
  BY <1>2 DEF PeerGone
<1>3. ASSUME NEW k \in Conn, RegisterFails(k) PROVE TypeOK'
  BY <1>3 DEF RegisterFails
<1>4. ASSUME NEW k \in Conn, AuthFails(k) PROVE TypeOK'
  BY <1>4 DEF AuthFails
<1>5. ASSUME NEW k \in Conn, Register(k) PROVE TypeOK'
  BY <1>5 DEF Register
<1>6. ASSUME NEW k \in Conn, OkHeader(k) PROVE TypeOK'
  BY <1>6 DEF OkHeader
<1>7. ASSUME NEW k \in Conn, OkPayload(k) PROVE TypeOK'
  BY <1>7 DEF OkPayload
<1>8. ASSUME NEW k \in Conn, Leave(k) PROVE TypeOK'
  BY <1>8 DEF Leave, Started
<1>9. ASSUME NEW k \in Conn, DeleteEntries(k) PROVE TypeOK'
  BY <1>9 DEF DeleteEntries
<1>10. ASSUME NEW k \in Conn, Forget(k) PROVE TypeOK'
  BY <1>10 DEF Forget
<1>11. ASSUME NEW k \in Conn, NEW p \in Port, StartFails(k, p) PROVE TypeOK'
  BY <1>11 DEF StartFails
<1>12. ASSUME NEW k \in Conn, NEW p \in Port, Start(k, p) PROVE TypeOK'
  BY <1>12 DEF Start
<1>13. ASSUME NEW k \in Conn, NEW p \in Port, CloseListener(k, p) PROVE TypeOK'
  BY <1>13 DEF CloseListener
<1>14. ASSUME NEW k \in Conn, NEW p \in Port, NewConn(k, p) PROVE TypeOK'
  BY <1>14 DEF NewConn
<1>15. ASSUME NEW k \in Conn, NewConnPayload(k) PROVE TypeOK'
  BY <1>15 DEF NewConnPayload
<1>16. ASSUME NEW k \in Conn, NEW p \in Port, AcceptorReturns(k, p) PROVE TypeOK'
  BY <1>16 DEF AcceptorReturns
<1>17. ASSUME NEW k \in Conn, NEW p \in Port, AcceptorDeletes(k, p) PROVE TypeOK'
  BY <1>17 DEF AcceptorDeletes
<1>18. ASSUME NEW k \in Conn, NEW p \in Port, AcceptorCloses(k, p) PROVE TypeOK'
  BY <1>18 DEF AcceptorCloses
<1>19. CASE UNCHANGED vars
  BY <1>19 DEF vars
<1> QED
  BY <1>1, <1>2, <1>3, <1>4, <1>5, <1>6, <1>7, <1>8, <1>9, <1>10, <1>11, <1>12,
     <1>13, <1>14, <1>15, <1>16, <1>17, <1>18, <1>19
  DEF Next, HandlerNext, AcceptorNext

(* Every variable of the registration has its type in every reachable       *)
(* state.                                                                   *)
THEOREM TypeCorrect == Spec => []TypeOK
<1>1. Init => TypeOK
  BY RegAssumption DEF Init, TypeOK, PcStates, AccStates
<1> QED
  BY <1>1, TypeStep, PTL DEF Spec

-----------------------------------------------------------------------------
(* Who holds what.  A client is in the clients map while its handler runs;  *)
(* what it holds has an acceptor; and it only holds what its handler will   *)
(* come across: services it has started and not yet closed.                 *)
MapFollowsHandler == clients = {k \in Conn : pc[k] \notin {"none", "closed"}}

AcceptorsHold ==
    \A p \in Port : \A k \in Conn :
        /\ listeners[p] = k => acc[k][p] \in {"run", "exit"}
        /\ bound[p] = k => acc[k][p] \in {"run", "exit", "close"}

HandlerKnows ==
    \A p \in Port : \A k \in Conn :
        listeners[p] = k \/ bound[p] = k =>
            \/ pc[k] = "services" /\ p \in Started(k) \ todo[k]
            \/ pc[k] \in {"okPayload", "serving"} /\ p \in Started(k)
            \/ pc[k] = "closing" /\ p \in todo[k]
            \/ pc[k] = "deleting" /\ (bound[p] = k => p \in todo[k])

TodoUndecided ==
    \A k \in Conn :
        /\ pc[k] \in {"none", "reading"} => failed[k] = {}
        /\ pc[k] = "services" => todo[k] \subseteq Started(k)

HoldInv == MapFollowsHandler /\ AcceptorsHold /\ HandlerKnows /\ TodoUndecided

(* The clients map follows the handlers.                                    *)
LEMMA MapStep == TypeOK /\ MapFollowsHandler /\ [Next]_vars => MapFollowsHandler'
<1> SUFFICES ASSUME TypeOK, MapFollowsHandler, [Next]_vars PROVE MapFollowsHandler'
  OBVIOUS
<1> USE DEF TypeOK, MapFollowsHandler, SetPc, regVars
<1>1. ASSUME NEW k \in Conn, Connect(k) PROVE MapFollowsHandler'
  BY <1>1 DEF Connect
<1>2. ASSUME NEW k \in Conn, PeerGone(k) \/ NewConnPayload(k) PROVE MapFollowsHandler'
  BY <1>2 DEF PeerGone, NewConnPayload
<1>3. ASSUME NEW k \in Conn, RegisterFails(k) \/ AuthFails(k) \/ Forget(k)
      PROVE  MapFollowsHandler'
  BY <1>3 DEF RegisterFails, AuthFails, Forget
<1>4. ASSUME NEW k \in Conn,
             Register(k) \/ OkHeader(k) \/ OkPayload(k) \/ Leave(k) \/ DeleteEntries(k)
      PROVE  MapFollowsHandler'
  BY <1>4 DEF Register, OkHeader, OkPayload, Leave, DeleteEntries
<1>5. ASSUME NEW k \in Conn, NEW p \in Port,
             StartFails(k, p) \/ Start(k, p) \/ CloseListener(k, p)
      PROVE  MapFollowsHandler'
  BY <1>5 DEF StartFails, Start, CloseListener
<1>6. ASSUME NEW k \in Conn, NEW p \in Port, NewConn(k, p) \/ AcceptorNext(k, p)
      PROVE  MapFollowsHandler'
  BY <1>6 DEF NewConn, AcceptorNext, AcceptorReturns, AcceptorDeletes, AcceptorCloses
<1>7. CASE UNCHANGED vars
  BY <1>7 DEF vars
<1> QED
  BY <1>1, <1>2, <1>3, <1>4, <1>5, <1>6, <1>7 DEF Next, HandlerNext

(* Entries and ports have acceptors: only Start makes them, with an         *)
(* acceptor, and an acceptor clears its entry before its port.              *)
LEMMA AcceptorsStep == TypeOK /\ AcceptorsHold /\ [Next]_vars => AcceptorsHold'
<1> SUFFICES ASSUME TypeOK, AcceptorsHold, [Next]_vars PROVE AcceptorsHold'
  OBVIOUS
<1> USE RegAssumption DEF TypeOK, AcceptorsHold, SetPc, regVars
<1>1. ASSUME NEW k \in Conn, Connect(k) \/ PeerGone(k) \/ NewConnPayload(k)
      PROVE  AcceptorsHold'
  BY <1>1 DEF Connect, PeerGone, NewConnPayload
<1>2. ASSUME NEW k \in Conn,
             \/ RegisterFails(k) \/ AuthFails(k) \/ Register(k) \/ OkHeader(k)
             \/ OkPayload(k) \/ Leave(k) \/ Forget(k)
      PROVE  AcceptorsHold'
  BY <1>2 DEF RegisterFails, AuthFails, Register, OkHeader, OkPayload, Leave, Forget
<1>3. ASSUME NEW k \in Conn, DeleteEntries(k) PROVE AcceptorsHold'
  BY <1>3 DEF DeleteEntries
<1>4. ASSUME NEW k \in Conn, NEW p \in Port, StartFails(k, p) PROVE AcceptorsHold'
  BY <1>4 DEF StartFails
<1>5. ASSUME NEW k \in Conn, NEW p \in Port, Start(k, p) PROVE AcceptorsHold'
  BY <1>5 DEF Start
<1>6. ASSUME NEW k \in Conn, NEW p \in Port, CloseListener(k, p) PROVE AcceptorsHold'
  BY <1>6 DEF CloseListener
<1>7. ASSUME NEW k \in Conn, NEW p \in Port, NewConn(k, p) PROVE AcceptorsHold'
  BY <1>7 DEF NewConn
<1>8. ASSUME NEW k \in Conn, NEW p \in Port, AcceptorReturns(k, p) PROVE AcceptorsHold'
  BY <1>8 DEF AcceptorReturns
<1>9. ASSUME NEW k \in Conn, NEW p \in Port, AcceptorDeletes(k, p) PROVE AcceptorsHold'
  BY <1>9 DEF AcceptorDeletes
<1>10. ASSUME NEW k \in Conn, NEW p \in Port, AcceptorCloses(k, p) PROVE AcceptorsHold'
  BY <1>10 DEF AcceptorCloses
<1>11. CASE UNCHANGED vars
  BY <1>11 DEF vars
<1> QED
  BY <1>1, <1>2, <1>3, <1>4, <1>5, <1>6, <1>7, <1>8, <1>9, <1>10, <1>11
  DEF Next, HandlerNext, AcceptorNext

(* A handler that is starting services has failed at none of those it has   *)
(* still to try.                                                            *)
LEMMA TodoStep == TypeOK /\ TodoUndecided /\ [Next]_vars => TodoUndecided'
<1> SUFFICES ASSUME TypeOK, TodoUndecided, [Next]_vars PROVE TodoUndecided'
  OBVIOUS
<1> USE RegAssumption DEF TypeOK, TodoUndecided, Started, SetPc, regVars
<1>1. ASSUME NEW k \in Conn,
             \/ Connect(k) \/ RegisterFails(k) \/ AuthFails(k) \/ OkHeader(k)
             \/ OkPayload(k) \/ DeleteEntries(k) \/ Forget(k)
      PROVE  TodoUndecided'
  BY <1>1 DEF Connect, RegisterFails, AuthFails, OkHeader, OkPayload, DeleteEntries, Forget
<1>2. ASSUME NEW k \in Conn, PeerGone(k) \/ NewConnPayload(k) PROVE TodoUndecided'
  BY <1>2 DEF PeerGone, NewConnPayload
<1>3. ASSUME NEW k \in Conn, Register(k) PROVE TodoUndecided'
  BY <1>3 DEF Register
<1>4. ASSUME NEW k \in Conn, Leave(k) PROVE TodoUndecided'
  BY <1>4 DEF Leave
<1>5. ASSUME NEW k \in Conn, NEW p \in Port, StartFails(k, p) PROVE TodoUndecided'
  BY <1>5 DEF StartFails
<1>6. ASSUME NEW k \in Conn, NEW p \in Port, Start(k, p) PROVE TodoUndecided'
  BY <1>6 DEF Start
<1>7. ASSUME NEW k \in Conn, NEW p \in Port, CloseListener(k, p) PROVE TodoUndecided'
  BY <1>7 DEF CloseListener
<1>8. ASSUME NEW k \in Conn, NEW p \in Port, NewConn(k, p) \/ AcceptorNext(k, p)
      PROVE  TodoUndecided'
  BY <1>8 DEF NewConn, AcceptorNext, AcceptorReturns, AcceptorDeletes, AcceptorCloses
<1>9. CASE UNCHANGED vars
  BY <1>9 DEF vars
<1> QED
  BY <1>1, <1>2, <1>3, <1>4, <1>5, <1>6, <1>7, <1>8, <1>9 DEF Next, HandlerNext

(* What a client holds is what its handler will close: it is entered when   *)
(* it is started, and the teardown goes through all of it.                  *)
LEMMA HandlerStep ==
    TypeOK /\ HandlerKnows /\ TodoUndecided /\ [Next]_vars => HandlerKnows'
<1> SUFFICES ASSUME TypeOK, HandlerKnows, TodoUndecided, [Next]_vars
             PROVE  HandlerKnows'
  OBVIOUS
<1> USE RegAssumption DEF TypeOK, HandlerKnows, TodoUndecided, Started, SetPc, regVars
<1>1. ASSUME NEW k \in Conn, Connect(k) PROVE HandlerKnows'
  BY <1>1 DEF Connect
<1>2. ASSUME NEW k \in Conn, PeerGone(k) \/ NewConnPayload(k) PROVE HandlerKnows'
  BY <1>2 DEF PeerGone, NewConnPayload
<1>3. ASSUME NEW k \in Conn, RegisterFails(k) \/ AuthFails(k) PROVE HandlerKnows'
  BY <1>3 DEF RegisterFails, AuthFails
<1>4. ASSUME NEW k \in Conn, Register(k) PROVE HandlerKnows'
  BY <1>4 DEF Register
<1>5. ASSUME NEW k \in Conn, OkHeader(k) \/ OkPayload(k) PROVE HandlerKnows'
  BY <1>5 DEF OkHeader, OkPayload
<1>6. ASSUME NEW k \in Conn, Leave(k) PROVE HandlerKnows'
  BY <1>6 DEF Leave
<1>7. ASSUME NEW k \in Conn, DeleteEntries(k) PROVE HandlerKnows'
  BY <1>7 DEF DeleteEntries
<1>8. ASSUME NEW k \in Conn, Forget(k) PROVE HandlerKnows'
  BY <1>8 DEF Forget
<1>9. ASSUME NEW k \in Conn, NEW p \in Port, StartFails(k, p) PROVE HandlerKnows'
  BY <1>9 DEF StartFails
<1>10. ASSUME NEW k \in Conn, NEW p \in Port, Start(k, p) PROVE HandlerKnows'
  BY <1>10 DEF Start
<1>11. ASSUME NEW k \in Conn, NEW p \in Port, CloseListener(k, p) PROVE HandlerKnows'
  BY <1>11 DEF CloseListener
<1>12. ASSUME NEW k \in Conn, NEW p \in Port, NewConn(k, p) \/ AcceptorReturns(k, p)
       PROVE  HandlerKnows'
  BY <1>12 DEF NewConn, AcceptorReturns
<1>13. ASSUME NEW k \in Conn, NEW p \in Port, AcceptorDeletes(k, p) PROVE HandlerKnows'
  BY <1>13 DEF AcceptorDeletes
<1>14. ASSUME NEW k \in Conn, NEW p \in Port, AcceptorCloses(k, p) PROVE HandlerKnows'
  BY <1>14 DEF AcceptorCloses
<1>15. CASE UNCHANGED vars
  BY <1>15 DEF vars
<1> QED
  BY <1>1, <1>2, <1>3, <1>4, <1>5, <1>6, <1>7, <1>8, <1>9, <1>10, <1>11, <1>12,
     <1>13, <1>14, <1>15
  DEF Next, HandlerNext, AcceptorNext

(* No port is ever blocked by an entry or a socket that nobody will clear   *)
(* away, and a client that has left holds nothing: whatever order handlers, *)
(* acceptors and teardowns of any number of clients come in.                *)
THEOREM NoStaleEntryHolds == Spec => []NoStaleEntry
<1>1. Init => HoldInv
  BY RegAssumption
  DEF Init, HoldInv, MapFollowsHandler, AcceptorsHold, HandlerKnows, TodoUndecided
<1>2. TypeOK /\ HoldInv /\ [Next]_vars => HoldInv'
  BY MapStep, AcceptorsStep, HandlerStep, TodoStep DEF HoldInv
<1>3. HoldInv => NoStaleEntry
  BY DEF HoldInv, MapFollowsHandler, AcceptorsHold, HandlerKnows, NoStaleEntry
<1> QED
  BY <1>1, <1>2, <1>3, TypeCorrect, PTL DEF Spec
=============================================================================
