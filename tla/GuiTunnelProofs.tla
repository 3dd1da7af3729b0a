-------------------------- MODULE GuiTunnelProofs --------------------------
(***************************************************************************)
(* Proofs about GuiTunnel, for any numbers of start and stop requests and  *)
(* any set of port mappings.                                               *)
(***************************************************************************)
EXTENDS GuiTunnel, TLAPS

(* TypeOK is inductive: one step per action of handleStart, runTunnel and   *)
(* handleStop.                                                              *)
LEMMA TypeStep == TypeOK /\ [Next]_vars => TypeOK'
<1> SUFFICES ASSUME TypeOK, [Next]_vars PROVE TypeOK'
  OBVIOUS
<1> USE GuiAssumption
<1>1. ASSUME NEW t \in Start, CheckRunning(t) PROVE TypeOK'
  BY <1>1 DEF TypeOK, CheckRunning, Goto, statVars, stopVars, cliVars, mapVars, tunVars, handVars, loopVars
<1>2. ASSUME NEW t \in Start, Spawn(t) PROVE TypeOK'
  BY <1>2 DEF TypeOK, Spawn, Goto, statVars, stopVars, cliVars, mapVars, tunVars, handVars, loopVars
<1>3. ASSUME NEW t \in Start, UpnpUp(t) PROVE TypeOK'
  BY <1>3 DEF TypeOK, UpnpUp, Goto, statVars, stopVars, cliVars, mapVars, tunVars, handVars, loopVars
<1>4. ASSUME NEW t \in Start, UpnpFails(t) PROVE TypeOK'
  BY <1>4 DEF TypeOK, UpnpFails, Goto, statVars, stopVars, cliVars, mapVars, tunVars, handVars, loopVars
<1>5. ASSUME NEW t \in Start, StunUp(t) PROVE TypeOK'
  BY <1>5 DEF TypeOK, StunUp, Goto, statVars, stopVars, cliVars, mapVars, tunVars, handVars, loopVars
<1>6. ASSUME NEW t \in Start, StartKeepalive(t) PROVE TypeOK'
  BY <1>6 DEF TypeOK, StartKeepalive, Goto, statVars, stopVars, cliVars, mapVars, tunVars, handVars, loopVars
<1>7. ASSUME NEW t \in Start, KeepaliveEnds(t) PROVE TypeOK'
  BY <1>7 DEF TypeOK, KeepaliveEnds, Goto, statVars, stopVars, cliVars, mapVars, tunVars, handVars, loopVars
<1>8. ASSUME NEW t \in Start, StunFails(t) PROVE TypeOK'
  BY <1>8 DEF TypeOK, StunFails, Goto, statVars, stopVars, cliVars, mapVars, tunVars, handVars, loopVars
<1>9. ASSUME NEW t \in Start, NoRelay(t) PROVE TypeOK'
  BY <1>9 DEF TypeOK, NoRelay, Goto, Fails, statVars, stopVars, cliVars, mapVars, tunVars, handVars, loopVars
<1>10. ASSUME NEW t \in Start, NewClient(t) PROVE TypeOK'
  BY <1>10 DEF TypeOK, NewClient, Goto, statVars, stopVars, cliVars, mapVars, tunVars, handVars, loopVars
<1>11. ASSUME NEW t \in Start, CallConnect(t) PROVE TypeOK'
  BY <1>11 DEF TypeOK, CallConnect, Goto, statVars, stopVars, cliVars, mapVars, tunVars, handVars, loopVars
<1>12. ASSUME NEW t \in Start, Dial(t) PROVE TypeOK'
  BY <1>12 DEF TypeOK, Dial, Goto, statVars, stopVars, cliVars, mapVars, tunVars, handVars, loopVars
<1>13. ASSUME NEW t \in Start, ConnectFails(t) PROVE TypeOK'
  BY <1>13 DEF TypeOK, ConnectFails, Goto, Fails, statVars, stopVars, cliVars, mapVars, tunVars, handVars, loopVars
<1>14. ASSUME NEW t \in Start, Registered(t) PROVE TypeOK'
  BY <1>14 DEF TypeOK, Registered, Goto, statVars, stopVars, cliVars, mapVars, tunVars, handVars, loopVars
<1>15. ASSUME NEW t \in Start, RelayUp(t) PROVE TypeOK'
  BY <1>15 DEF TypeOK, RelayUp, Goto, statVars, stopVars, cliVars, mapVars, tunVars, handVars, loopVars
<1>16. ASSUME NEW t \in Start, Wait(t) PROVE TypeOK'
  BY <1>16 DEF TypeOK, Wait, Goto, statVars, stopVars, cliVars, mapVars, tunVars, handVars, loopVars
<1>17. ASSUME NEW t \in Start, Woken(t) PROVE TypeOK'
  BY <1>17 DEF TypeOK, Woken, Goto, statVars, stopVars, cliVars, mapVars, tunVars, handVars, loopVars
<1>18. ASSUME NEW t \in Start, Undo(t) PROVE TypeOK'
  BY <1>18 DEF TypeOK, Undo, Goto, GatewayDeletes, statVars, stopVars, cliVars, mapVars, tunVars, handVars, loopVars
<1>19. ASSUME NEW t \in Start, NEW m \in Mapping, AddMapping(t, m) PROVE TypeOK'
  BY <1>19 DEF TypeOK, AddMapping, GatewayAdds, statVars, stopVars, cliVars, mapVars, tunVars, handVars, loopVars
<1>20. ASSUME NEW t \in Start, NEW m \in Mapping, MappingReplyLost(t, m) PROVE TypeOK'
  BY <1>20 DEF TypeOK, MappingReplyLost, Goto, GatewayAdds, statVars, stopVars, cliVars, mapVars, tunVars, handVars, loopVars
<1>21. ASSUME NEW h \in Stop, StopArrives(h) PROVE TypeOK'
  BY <1>21 DEF TypeOK, StopArrives, statVars, stopVars, cliVars, mapVars, tunVars, handVars, loopVars
<1>22. ASSUME NEW h \in Stop, StopClose(h) PROVE TypeOK'
  BY <1>22 DEF TypeOK, StopClose, statVars, stopVars, cliVars, mapVars, tunVars, handVars, loopVars
<1>23. ASSUME NEW h \in Stop, StopRenew(h) PROVE TypeOK'
  BY <1>23 DEF TypeOK, StopRenew, statVars, stopVars, cliVars, mapVars, tunVars, handVars, loopVars
<1>24. ASSUME NEW h \in Stop, StopLooks(h) PROVE TypeOK'
  BY <1>24 DEF TypeOK, StopLooks, statVars, stopVars, cliVars, mapVars, tunVars, handVars, loopVars
<1>25. ASSUME NEW h \in Stop, StopHangup(h) PROVE TypeOK'
  BY <1>25 DEF TypeOK, StopHangup, statVars, stopVars, cliVars, mapVars, tunVars, handVars, loopVars
<1>26. ASSUME NEW h \in Stop, StopForget(h) PROVE TypeOK'
  BY <1>26 DEF TypeOK, StopForget, statVars, stopVars, cliVars, mapVars, tunVars, handVars, loopVars
<1>27. ASSUME NEW h \in Stop, StopStatus(h) PROVE TypeOK'
  BY <1>27 DEF TypeOK, StopStatus, statVars, stopVars, cliVars, mapVars, tunVars, handVars, loopVars
<1>28. ASSUME NEW t \in Start, Discover(t) PROVE TypeOK'
  BY <1>28 DEF TypeOK, Discover, Goto, statVars, stopVars, cliVars, mapVars, tunVars, handVars, loopVars
<1>29. ASSUME NEW h \in Stop, StopSelects(h) PROVE TypeOK'
  BY <1>29 DEF TypeOK, StopSelects, statVars, stopVars, cliVars, mapVars, tunVars, handVars, loopVars
<1>30. ASSUME NEW h \in Stop, StopCloses(h) PROVE TypeOK'
  BY <1>30 DEF TypeOK, StopCloses, statVars, stopVars, cliVars, mapVars, tunVars, handVars, loopVars
<1>31. ASSUME NEW h \in Stop, StopHangs(h) PROVE TypeOK'
  BY <1>31 DEF TypeOK, StopHangs, statVars, stopVars, cliVars, mapVars, tunVars, handVars, loopVars
<1>32. ASSUME NEW t \in Start, ReadLoopEnds(t) PROVE TypeOK'
  BY <1>32 DEF TypeOK, ReadLoopEnds, statVars, stopVars, cliVars, mapVars, tunVars, handVars, loopVars
<1>33. ASSUME NEW t \in Start, ReadLoopSelects(t) PROVE TypeOK'
  BY <1>33 DEF TypeOK, ReadLoopSelects, statVars, stopVars, cliVars, mapVars, tunVars, handVars, loopVars
<1>34. ASSUME NEW t \in Start, ReadLoopCloses(t) PROVE TypeOK'
  BY <1>34 DEF TypeOK, ReadLoopCloses, statVars, stopVars, cliVars, mapVars, tunVars, handVars, loopVars
<1>35. ASSUME NEW t \in Start, ReadLoopHangs(t) PROVE TypeOK'
  BY <1>35 DEF TypeOK, ReadLoopHangs, statVars, stopVars, cliVars, mapVars, tunVars, handVars, loopVars
<1>36. CASE UNCHANGED vars
  BY <1>36 DEF TypeOK, vars, statVars, stopVars, cliVars, mapVars, tunVars, handVars, loopVars
<1> QED
  BY <1>1, <1>2, <1>3, <1>4, <1>5, <1>6, <1>7, <1>8, <1>9, <1>10, <1>11, <1>12, <1>13, <1>14, <1>15, <1>16, <1>17, <1>18, <1>19, <1>20, <1>21, <1>22, <1>23, <1>24, <1>25, <1>26, <1>27, <1>28, <1>29, <1>30, <1>31, <1>32, <1>33, <1>34, <1>35, <1>36
  DEF Next, TunnelNext, StopNext, ReadLoopNext

(* The initial state is well typed.                                         *)
LEMMA TypeInit == Init => TypeOK
<1> SUFFICES ASSUME Init PROVE TypeOK
  OBVIOUS
<1>1. /\ crashed \in BOOLEAN /\ running \in BOOLEAN /\ overlap \in BOOLEAN
      /\ interrupted \in BOOLEAN /\ broke \in BOOLEAN
  BY DEF Init
<1>2. /\ stopCh \in Nat /\ closedCh \subseteq 0 .. stopCh
      /\ relayClient \in Start \cup {NoStart}
      /\ gw \subseteq Mapping /\ lost \subseteq Mapping
  BY DEF Init
<1>3. /\ tun \in [Start -> {"none"}] /\ stp \in [Stop -> {"none"}] /\ rl \in [Start -> {"none"}]
      /\ target \in [Stop -> Start \cup {NoStart}]
  BY DEF Init
<1>4. /\ waitOn \in [Start -> Nat]
      /\ recv \in [Start -> Start \cup {NoStart}]
      /\ cliConn \in [Start -> Start \cup {NoStart}]
      /\ mine \in [Start -> SUBSET Mapping]
  BY DEF Init
<1>5. /\ closeCh \in [Start -> {"nil", "open", "closed"}]
      /\ sock \in [Start -> {"none", "open", "closed"}]
  BY DEF Init
<1> QED
  BY <1>1, <1>2, <1>3, <1>4, <1>5 DEF TypeOK

(* Every reachable state of the client application is well typed, and no    *)
(* stop channel is closed before it exists.                                 *)
THEOREM TypeCorrect == Spec => []TypeOK
  BY TypeInit, TypeStep, PTL DEF Spec

(* The steps that neither touch stop channels nor begin to wait keep the    *)
(* waiting part of the invariant; close and make need OneRenews.            *)
LEMMA StopStep == StopInv /\ [Next]_vars => (OneRenews /\ NoMissedStop)'
<1> SUFFICES ASSUME StopInv, [Next]_vars PROVE (OneRenews /\ NoMissedStop)'
  OBVIOUS
<1> USE GuiAssumption DEF StopInv
<1>1. ASSUME NEW t \in Start, CheckRunning(t) PROVE (OneRenews /\ NoMissedStop)'
  BY <1>1 DEF TypeOK, OneRenews, NoMissedStop, CheckRunning, Goto, statVars, stopVars, cliVars, mapVars, tunVars, handVars, loopVars
<1>2. ASSUME NEW t \in Start, Spawn(t) PROVE (OneRenews /\ NoMissedStop)'
  BY <1>2 DEF TypeOK, OneRenews, NoMissedStop, Spawn, Goto, statVars, stopVars, cliVars, mapVars, tunVars, handVars, loopVars
<1>3. ASSUME NEW t \in Start, UpnpUp(t) PROVE (OneRenews /\ NoMissedStop)'
  BY <1>3 DEF TypeOK, OneRenews, NoMissedStop, UpnpUp, Goto, statVars, stopVars, cliVars, mapVars, tunVars, handVars, loopVars
<1>4. ASSUME NEW t \in Start, UpnpFails(t) PROVE (OneRenews /\ NoMissedStop)'
  BY <1>4 DEF TypeOK, OneRenews, NoMissedStop, UpnpFails, Goto, statVars, stopVars, cliVars, mapVars, tunVars, handVars, loopVars
<1>5. ASSUME NEW t \in Start, StunUp(t) PROVE (OneRenews /\ NoMissedStop)'
  BY <1>5 DEF TypeOK, OneRenews, NoMissedStop, StunUp, Goto, statVars, stopVars, cliVars, mapVars, tunVars, handVars, loopVars
<1>6. ASSUME NEW t \in Start, StartKeepalive(t) PROVE (OneRenews /\ NoMissedStop)'
  BY <1>6 DEF TypeOK, OneRenews, NoMissedStop, StartKeepalive, Goto, statVars, stopVars, cliVars, mapVars, tunVars, handVars, loopVars
<1>7. ASSUME NEW t \in Start, KeepaliveEnds(t) PROVE (OneRenews /\ NoMissedStop)'
  BY <1>7 DEF TypeOK, OneRenews, NoMissedStop, KeepaliveEnds, Goto, statVars, stopVars, cliVars, mapVars, tunVars, handVars, loopVars
<1>8. ASSUME NEW t \in Start, StunFails(t) PROVE (OneRenews /\ NoMissedStop)'
  BY <1>8 DEF TypeOK, OneRenews, NoMissedStop, StunFails, Goto, statVars, stopVars, cliVars, mapVars, tunVars, handVars, loopVars
<1>9. ASSUME NEW t \in Start, NoRelay(t) PROVE (OneRenews /\ NoMissedStop)'
  BY <1>9 DEF TypeOK, OneRenews, NoMissedStop, NoRelay, Goto, Fails, statVars, stopVars, cliVars, mapVars, tunVars, handVars, loopVars
<1>10. ASSUME NEW t \in Start, NewClient(t) PROVE (OneRenews /\ NoMissedStop)'
  BY <1>10 DEF TypeOK, OneRenews, NoMissedStop, NewClient, Goto, statVars, stopVars, cliVars, mapVars, tunVars, handVars, loopVars
<1>11. ASSUME NEW t \in Start, CallConnect(t) PROVE (OneRenews /\ NoMissedStop)'
  BY <1>11 DEF TypeOK, OneRenews, NoMissedStop, CallConnect, Goto, statVars, stopVars, cliVars, mapVars, tunVars, handVars, loopVars
<1>12. ASSUME NEW t \in Start, Dial(t) PROVE (OneRenews /\ NoMissedStop)'
  BY <1>12 DEF TypeOK, OneRenews, NoMissedStop, Dial, Goto, statVars, stopVars, cliVars, mapVars, tunVars, handVars, loopVars
<1>13. ASSUME NEW t \in Start, ConnectFails(t) PROVE (OneRenews /\ NoMissedStop)'
  BY <1>13 DEF TypeOK, OneRenews, NoMissedStop, ConnectFails, Goto, Fails, statVars, stopVars, cliVars, mapVars, tunVars, handVars, loopVars
<1>14. ASSUME NEW t \in Start, Registered(t) PROVE (OneRenews /\ NoMissedStop)'
  BY <1>14 DEF TypeOK, OneRenews, NoMissedStop, Registered, Goto, statVars, stopVars, cliVars, mapVars, tunVars, handVars, loopVars
<1>15. ASSUME NEW t \in Start, RelayUp(t) PROVE (OneRenews /\ NoMissedStop)'
  BY <1>15 DEF TypeOK, OneRenews, NoMissedStop, RelayUp, Goto, statVars, stopVars, cliVars, mapVars, tunVars, handVars, loopVars
<1>16. ASSUME NEW t \in Start, Wait(t) PROVE (OneRenews /\ NoMissedStop)'
  BY <1>16 DEF TypeOK, OneRenews, NoMissedStop, Wait, Goto, statVars, stopVars, cliVars, mapVars, tunVars, handVars, loopVars
<1>17. ASSUME NEW t \in Start, Woken(t) PROVE (OneRenews /\ NoMissedStop)'
  BY <1>17 DEF TypeOK, OneRenews, NoMissedStop, Woken, Goto, statVars, stopVars, cliVars, mapVars, tunVars, handVars, loopVars
<1>18. ASSUME NEW t \in Start, Undo(t) PROVE (OneRenews /\ NoMissedStop)'
  BY <1>18 DEF TypeOK, OneRenews, NoMissedStop, Undo, Goto, GatewayDeletes, statVars, stopVars, cliVars, mapVars, tunVars, handVars, loopVars
<1>19. ASSUME NEW t \in Start, NEW m \in Mapping, AddMapping(t, m) PROVE (OneRenews /\ NoMissedStop)'
  BY <1>19 DEF TypeOK, OneRenews, NoMissedStop, AddMapping, GatewayAdds, statVars, stopVars, cliVars, mapVars, tunVars, handVars, loopVars
<1>20. ASSUME NEW t \in Start, NEW m \in Mapping, MappingReplyLost(t, m) PROVE (OneRenews /\ NoMissedStop)'
  BY <1>20 DEF TypeOK, OneRenews, NoMissedStop, MappingReplyLost, Goto, GatewayAdds, statVars, stopVars, cliVars, mapVars, tunVars, handVars, loopVars
<1>21. ASSUME NEW h \in Stop, StopArrives(h) PROVE (OneRenews /\ NoMissedStop)'
  BY <1>21 DEF TypeOK, OneRenews, NoMissedStop, StopArrives, statVars, stopVars, cliVars, mapVars, tunVars, handVars, loopVars
<1>22. ASSUME NEW h \in Stop, StopClose(h) PROVE (OneRenews /\ NoMissedStop)'
  BY <1>22 DEF TypeOK, OneRenews, NoMissedStop, StopClose, statVars, stopVars, cliVars, mapVars, tunVars, handVars, loopVars
<1>23. ASSUME NEW h \in Stop, StopRenew(h) PROVE (OneRenews /\ NoMissedStop)'
  BY <1>23 DEF TypeOK, OneRenews, NoMissedStop, StopRenew, statVars, stopVars, cliVars, mapVars, tunVars, handVars, loopVars
<1>24. ASSUME NEW h \in Stop, StopLooks(h) PROVE (OneRenews /\ NoMissedStop)'
  BY <1>24 DEF TypeOK, OneRenews, NoMissedStop, StopLooks, statVars, stopVars, cliVars, mapVars, tunVars, handVars, loopVars
<1>25. ASSUME NEW h \in Stop, StopHangup(h) PROVE (OneRenews /\ NoMissedStop)'
  BY <1>25 DEF TypeOK, OneRenews, NoMissedStop, StopHangup, statVars, stopVars, cliVars, mapVars, tunVars, handVars, loopVars
<1>26. ASSUME NEW h \in Stop, StopForget(h) PROVE (OneRenews /\ NoMissedStop)'
  BY <1>26 DEF TypeOK, OneRenews, NoMissedStop, StopForget, statVars, stopVars, cliVars, mapVars, tunVars, handVars, loopVars
<1>27. ASSUME NEW h \in Stop, StopStatus(h) PROVE (OneRenews /\ NoMissedStop)'
  BY <1>27 DEF TypeOK, OneRenews, NoMissedStop, StopStatus, statVars, stopVars, cliVars, mapVars, tunVars, handVars, loopVars
<1>28. ASSUME NEW t \in Start, Discover(t) PROVE (OneRenews /\ NoMissedStop)'
  BY <1>28 DEF TypeOK, OneRenews, NoMissedStop, Discover, Goto, statVars, stopVars, cliVars, mapVars, tunVars, handVars, loopVars
<1>29. ASSUME NEW h \in Stop, StopSelects(h) PROVE (OneRenews /\ NoMissedStop)'
  BY <1>29 DEF TypeOK, OneRenews, NoMissedStop, StopSelects, statVars, stopVars, cliVars, mapVars, tunVars, handVars, loopVars
<1>30. ASSUME NEW h \in Stop, StopCloses(h) PROVE (OneRenews /\ NoMissedStop)'
  BY <1>30 DEF TypeOK, OneRenews, NoMissedStop, StopCloses, statVars, stopVars, cliVars, mapVars, tunVars, handVars, loopVars
<1>31. ASSUME NEW h \in Stop, StopHangs(h) PROVE (OneRenews /\ NoMissedStop)'
  BY <1>31 DEF TypeOK, OneRenews, NoMissedStop, StopHangs, statVars, stopVars, cliVars, mapVars, tunVars, handVars, loopVars
<1>32. ASSUME NEW t \in Start, ReadLoopEnds(t) PROVE (OneRenews /\ NoMissedStop)'
  BY <1>32 DEF TypeOK, OneRenews, NoMissedStop, ReadLoopEnds, statVars, stopVars, cliVars, mapVars, tunVars, handVars, loopVars
<1>33. ASSUME NEW t \in Start, ReadLoopSelects(t) PROVE (OneRenews /\ NoMissedStop)'
  BY <1>33 DEF TypeOK, OneRenews, NoMissedStop, ReadLoopSelects, statVars, stopVars, cliVars, mapVars, tunVars, handVars, loopVars
<1>34. ASSUME NEW t \in Start, ReadLoopCloses(t) PROVE (OneRenews /\ NoMissedStop)'
  BY <1>34 DEF TypeOK, OneRenews, NoMissedStop, ReadLoopCloses, statVars, stopVars, cliVars, mapVars, tunVars, handVars, loopVars
<1>35. ASSUME NEW t \in Start, ReadLoopHangs(t) PROVE (OneRenews /\ NoMissedStop)'
  BY <1>35 DEF TypeOK, OneRenews, NoMissedStop, ReadLoopHangs, statVars, stopVars, cliVars, mapVars, tunVars, handVars, loopVars
<1>36. CASE UNCHANGED vars
  BY <1>36 DEF TypeOK, OneRenews, NoMissedStop, vars, statVars, stopVars, cliVars, mapVars, tunVars, handVars, loopVars
<1> QED
  BY <1>1, <1>2, <1>3, <1>4, <1>5, <1>6, <1>7, <1>8, <1>9, <1>10, <1>11, <1>12, <1>13, <1>14, <1>15, <1>16, <1>17, <1>18, <1>19, <1>20, <1>21, <1>22, <1>23, <1>24, <1>25, <1>26, <1>27, <1>28, <1>29, <1>30, <1>31, <1>32, <1>33, <1>34, <1>35, <1>36
  DEF Next, TunnelNext, StopNext, ReadLoopNext

(* No tunnel and no keepalive ever waits on a stop channel that no stop     *)
(* request will close, whatever requests race for stopCh in handleStop.     *)
THEOREM NoMissedStopHolds == Spec => []NoMissedStop
<1>1. Init => StopInv
  BY TypeInit DEF Init, StopInv, OneRenews, NoMissedStop
<1>2. StopInv /\ [Next]_vars => StopInv'
  BY TypeStep, StopStep DEF StopInv
<1>3. StopInv => NoMissedStop
  BY DEF StopInv
<1> QED
  BY <1>1, <1>2, <1>3, PTL DEF Spec

(* Deferred deletes belong to live tunnels and cover the gateway's table.   *)
LEMMA MapStep == MapInv /\ [Next]_vars => (DeferredAlive /\ MappingsGoWithTunnel)'
<1> SUFFICES ASSUME MapInv, [Next]_vars PROVE (DeferredAlive /\ MappingsGoWithTunnel)'
  OBVIOUS
<1> USE GuiAssumption DEF MapInv
<1>1. ASSUME NEW t \in Start, CheckRunning(t) PROVE (DeferredAlive /\ MappingsGoWithTunnel)'
  BY <1>1 DEF TypeOK, DeferredAlive, MappingsGoWithTunnel, Alive, CheckRunning, Goto, statVars, stopVars, cliVars, mapVars, tunVars, handVars, loopVars
<1>2. ASSUME NEW t \in Start, Spawn(t) PROVE (DeferredAlive /\ MappingsGoWithTunnel)'
  BY <1>2 DEF TypeOK, DeferredAlive, MappingsGoWithTunnel, Alive, Spawn, Goto, statVars, stopVars, cliVars, mapVars, tunVars, handVars, loopVars
<1>3. ASSUME NEW t \in Start, UpnpUp(t) PROVE (DeferredAlive /\ MappingsGoWithTunnel)'
  BY <1>3 DEF TypeOK, DeferredAlive, MappingsGoWithTunnel, Alive, UpnpUp, Goto, statVars, stopVars, cliVars, mapVars, tunVars, handVars, loopVars
<1>4. ASSUME NEW t \in Start, UpnpFails(t) PROVE (DeferredAlive /\ MappingsGoWithTunnel)'
  BY <1>4 DEF TypeOK, DeferredAlive, MappingsGoWithTunnel, Alive, UpnpFails, Goto, statVars, stopVars, cliVars, mapVars, tunVars, handVars, loopVars
<1>5. ASSUME NEW t \in Start, StunUp(t) PROVE (DeferredAlive /\ MappingsGoWithTunnel)'
  BY <1>5 DEF TypeOK, DeferredAlive, MappingsGoWithTunnel, Alive, StunUp, Goto, statVars, stopVars, cliVars, mapVars, tunVars, handVars, loopVars
<1>6. ASSUME NEW t \in Start, StartKeepalive(t) PROVE (DeferredAlive /\ MappingsGoWithTunnel)'
  BY <1>6 DEF TypeOK, DeferredAlive, MappingsGoWithTunnel, Alive, StartKeepalive, Goto, statVars, stopVars, cliVars, mapVars, tunVars, handVars, loopVars
<1>7. ASSUME NEW t \in Start, KeepaliveEnds(t) PROVE (DeferredAlive /\ MappingsGoWithTunnel)'
  BY <1>7 DEF TypeOK, DeferredAlive, MappingsGoWithTunnel, Alive, KeepaliveEnds, Goto, statVars, stopVars, cliVars, mapVars, tunVars, handVars, loopVars
<1>8. ASSUME NEW t \in Start, StunFails(t) PROVE (DeferredAlive /\ MappingsGoWithTunnel)'
  BY <1>8 DEF TypeOK, DeferredAlive, MappingsGoWithTunnel, Alive, StunFails, Goto, statVars, stopVars, cliVars, mapVars, tunVars, handVars, loopVars
<1>9. ASSUME NEW t \in Start, NoRelay(t) PROVE (DeferredAlive /\ MappingsGoWithTunnel)'
  BY <1>9 DEF TypeOK, DeferredAlive, MappingsGoWithTunnel, Alive, NoRelay, Goto, Fails, statVars, stopVars, cliVars, mapVars, tunVars, handVars, loopVars
<1>10. ASSUME NEW t \in Start, NewClient(t) PROVE (DeferredAlive /\ MappingsGoWithTunnel)'
  BY <1>10 DEF TypeOK, DeferredAlive, MappingsGoWithTunnel, Alive, NewClient, Goto, statVars, stopVars, cliVars, mapVars, tunVars, handVars, loopVars
<1>11. ASSUME NEW t \in Start, CallConnect(t) PROVE (DeferredAlive /\ MappingsGoWithTunnel)'
  BY <1>11 DEF TypeOK, DeferredAlive, MappingsGoWithTunnel, Alive, CallConnect, Goto, statVars, stopVars, cliVars, mapVars, tunVars, handVars, loopVars
<1>12. ASSUME NEW t \in Start, Dial(t) PROVE (DeferredAlive /\ MappingsGoWithTunnel)'
  BY <1>12 DEF TypeOK, DeferredAlive, MappingsGoWithTunnel, Alive, Dial, Goto, statVars, stopVars, cliVars, mapVars, tunVars, handVars, loopVars
<1>13. ASSUME NEW t \in Start, ConnectFails(t) PROVE (DeferredAlive /\ MappingsGoWithTunnel)'
  BY <1>13 DEF TypeOK, DeferredAlive, MappingsGoWithTunnel, Alive, ConnectFails, Goto, Fails, statVars, stopVars, cliVars, mapVars, tunVars, handVars, loopVars
<1>14. ASSUME NEW t \in Start, Registered(t) PROVE (DeferredAlive /\ MappingsGoWithTunnel)'
  BY <1>14 DEF TypeOK, DeferredAlive, MappingsGoWithTunnel, Alive, Registered, Goto, statVars, stopVars, cliVars, mapVars, tunVars, handVars, loopVars
<1>15. ASSUME NEW t \in Start, RelayUp(t) PROVE (DeferredAlive /\ MappingsGoWithTunnel)'
  BY <1>15 DEF TypeOK, DeferredAlive, MappingsGoWithTunnel, Alive, RelayUp, Goto, statVars, stopVars, cliVars, mapVars, tunVars, handVars, loopVars
<1>16. ASSUME NEW t \in Start, Wait(t) PROVE (DeferredAlive /\ MappingsGoWithTunnel)'
  BY <1>16 DEF TypeOK, DeferredAlive, MappingsGoWithTunnel, Alive, Wait, Goto, statVars, stopVars, cliVars, mapVars, tunVars, handVars, loopVars
<1>17. ASSUME NEW t \in Start, Woken(t) PROVE (DeferredAlive /\ MappingsGoWithTunnel)'
  BY <1>17 DEF TypeOK, DeferredAlive, MappingsGoWithTunnel, Alive, Woken, Goto, statVars, stopVars, cliVars, mapVars, tunVars, handVars, loopVars
<1>18. ASSUME NEW t \in Start, Undo(t) PROVE (DeferredAlive /\ MappingsGoWithTunnel)'
  BY <1>18 DEF TypeOK, DeferredAlive, MappingsGoWithTunnel, Alive, Undo, Goto, GatewayDeletes, statVars, stopVars, cliVars, mapVars, tunVars, handVars, loopVars
<1>19. ASSUME NEW t \in Start, NEW m \in Mapping, AddMapping(t, m) PROVE (DeferredAlive /\ MappingsGoWithTunnel)'
  BY <1>19 DEF TypeOK, DeferredAlive, MappingsGoWithTunnel, Alive, AddMapping, GatewayAdds, statVars, stopVars, cliVars, mapVars, tunVars, handVars, loopVars
<1>20. ASSUME NEW t \in Start, NEW m \in Mapping, MappingReplyLost(t, m) PROVE (DeferredAlive /\ MappingsGoWithTunnel)'
  BY <1>20 DEF TypeOK, DeferredAlive, MappingsGoWithTunnel, Alive, MappingReplyLost, Goto, GatewayAdds, statVars, stopVars, cliVars, mapVars, tunVars, handVars, loopVars
<1>21. ASSUME NEW h \in Stop, StopArrives(h) PROVE (DeferredAlive /\ MappingsGoWithTunnel)'
  BY <1>21 DEF TypeOK, DeferredAlive, MappingsGoWithTunnel, Alive, StopArrives, statVars, stopVars, cliVars, mapVars, tunVars, handVars, loopVars
<1>22. ASSUME NEW h \in Stop, StopClose(h) PROVE (DeferredAlive /\ MappingsGoWithTunnel)'
  BY <1>22 DEF TypeOK, DeferredAlive, MappingsGoWithTunnel, Alive, StopClose, statVars, stopVars, cliVars, mapVars, tunVars, handVars, loopVars
<1>23. ASSUME NEW h \in Stop, StopRenew(h) PROVE (DeferredAlive /\ MappingsGoWithTunnel)'
  BY <1>23 DEF TypeOK, DeferredAlive, MappingsGoWithTunnel, Alive, StopRenew, statVars, stopVars, cliVars, mapVars, tunVars, handVars, loopVars
<1>24. ASSUME NEW h \in Stop, StopLooks(h) PROVE (DeferredAlive /\ MappingsGoWithTunnel)'
  BY <1>24 DEF TypeOK, DeferredAlive, MappingsGoWithTunnel, Alive, StopLooks, statVars, stopVars, cliVars, mapVars, tunVars, handVars, loopVars
<1>25. ASSUME NEW h \in Stop, StopHangup(h) PROVE (DeferredAlive /\ MappingsGoWithTunnel)'
  BY <1>25 DEF TypeOK, DeferredAlive, MappingsGoWithTunnel, Alive, StopHangup, statVars, stopVars, cliVars, mapVars, tunVars, handVars, loopVars
<1>26. ASSUME NEW h \in Stop, StopForget(h) PROVE (DeferredAlive /\ MappingsGoWithTunnel)'
  BY <1>26 DEF TypeOK, DeferredAlive, MappingsGoWithTunnel, Alive, StopForget, statVars, stopVars, cliVars, mapVars, tunVars, handVars, loopVars
<1>27. ASSUME NEW h \in Stop, StopStatus(h) PROVE (DeferredAlive /\ MappingsGoWithTunnel)'
  BY <1>27 DEF TypeOK, DeferredAlive, MappingsGoWithTunnel, Alive, StopStatus, statVars, stopVars, cliVars, mapVars, tunVars, handVars, loopVars
<1>28. ASSUME NEW t \in Start, Discover(t) PROVE (DeferredAlive /\ MappingsGoWithTunnel)'
  BY <1>28 DEF TypeOK, DeferredAlive, MappingsGoWithTunnel, Alive, Discover, Goto, statVars, stopVars, cliVars, mapVars, tunVars, handVars, loopVars
<1>29. ASSUME NEW h \in Stop, StopSelects(h) PROVE (DeferredAlive /\ MappingsGoWithTunnel)'
  BY <1>29 DEF TypeOK, DeferredAlive, MappingsGoWithTunnel, Alive, StopSelects, statVars, stopVars, cliVars, mapVars, tunVars, handVars, loopVars
<1>30. ASSUME NEW h \in Stop, StopCloses(h) PROVE (DeferredAlive /\ MappingsGoWithTunnel)'
  BY <1>30 DEF TypeOK, DeferredAlive, MappingsGoWithTunnel, Alive, StopCloses, statVars, stopVars, cliVars, mapVars, tunVars, handVars, loopVars
<1>31. ASSUME NEW h \in Stop, StopHangs(h) PROVE (DeferredAlive /\ MappingsGoWithTunnel)'
  BY <1>31 DEF TypeOK, DeferredAlive, MappingsGoWithTunnel, Alive, StopHangs, statVars, stopVars, cliVars, mapVars, tunVars, handVars, loopVars
<1>32. ASSUME NEW t \in Start, ReadLoopEnds(t) PROVE (DeferredAlive /\ MappingsGoWithTunnel)'
  BY <1>32 DEF TypeOK, DeferredAlive, MappingsGoWithTunnel, Alive, ReadLoopEnds, statVars, stopVars, cliVars, mapVars, tunVars, handVars, loopVars
<1>33. ASSUME NEW t \in Start, ReadLoopSelects(t) PROVE (DeferredAlive /\ MappingsGoWithTunnel)'
  BY <1>33 DEF TypeOK, DeferredAlive, MappingsGoWithTunnel, Alive, ReadLoopSelects, statVars, stopVars, cliVars, mapVars, tunVars, handVars, loopVars
<1>34. ASSUME NEW t \in Start, ReadLoopCloses(t) PROVE (DeferredAlive /\ MappingsGoWithTunnel)'
  BY <1>34 DEF TypeOK, DeferredAlive, MappingsGoWithTunnel, Alive, ReadLoopCloses, statVars, stopVars, cliVars, mapVars, tunVars, handVars, loopVars
<1>35. ASSUME NEW t \in Start, ReadLoopHangs(t) PROVE (DeferredAlive /\ MappingsGoWithTunnel)'
  BY <1>35 DEF TypeOK, DeferredAlive, MappingsGoWithTunnel, Alive, ReadLoopHangs, statVars, stopVars, cliVars, mapVars, tunVars, handVars, loopVars
<1>36. CASE UNCHANGED vars
  BY <1>36 DEF TypeOK, DeferredAlive, MappingsGoWithTunnel, Alive, vars, statVars, stopVars, cliVars, mapVars, tunVars, handVars, loopVars
<1> QED
  BY <1>1, <1>2, <1>3, <1>4, <1>5, <1>6, <1>7, <1>8, <1>9, <1>10, <1>11, <1>12, <1>13, <1>14, <1>15, <1>16, <1>17, <1>18, <1>19, <1>20, <1>21, <1>22, <1>23, <1>24, <1>25, <1>26, <1>27, <1>28, <1>29, <1>30, <1>31, <1>32, <1>33, <1>34, <1>35, <1>36
  DEF Next, TunnelNext, StopNext, ReadLoopNext

(* A mapping the gateway confirmed never outlives the tunnels that made it: *)
(* every return of runTunnel runs the deferred deletes.                     *)
THEOREM MappingsGoHolds == Spec => []MappingsGoWithTunnel
<1>1. Init => MapInv
  BY TypeInit DEF Init, MapInv, DeferredAlive, MappingsGoWithTunnel, Alive
<1>2. MapInv /\ [Next]_vars => MapInv'
  BY TypeStep, MapStep DEF MapInv
<1>3. MapInv => MappingsGoWithTunnel
  BY DEF MapInv
<1> QED
  BY <1>1, <1>2, <1>3, PTL DEF Spec

-----------------------------------------------------------------------------
(* What GuiTunnel's last two invariants rest on.                            *)

Idle     == {"none", "done"}
Relayed  == {"register", "registered", "up", "wait"}
NotUpYet == {"checked", "upnp", "map", "stun", "relay", "connect", "dial", "register", "registered"}
Undialled == {"none", "checked", "upnp", "map", "stun", "relay", "connect", "dial"}
Joined   == {"registered", "up", "wait", "undo", "done"}

\* Starts that wait for each other are alone, find appStatus.Running unset, and
\* find their own client in relayClient, or nil.
OneTunnel == \A t, u \in Start : tun[t] \notin Idle /\ tun[u] \notin Idle => t = u
SetLast   == \A t \in Start : tun[t] \in NotUpYet => ~running
OwnClient ==
    \A t \in Start :
        /\ tun[t] \in Relayed \cup {"connect", "dial"} => relayClient \in {t, NoStart}
        /\ tun[t] = "dial" /\ ~crashed => recv[t] = t
        /\ tun[t] \in Relayed => recv[t] = t /\ cliConn[t] = t /\ closeCh[t] # "nil"
        /\ tun[t] \in Undialled => closeCh[t] = "nil"
        /\ cliConn[t] \in {t, NoStart}
AloneInv  == ~overlap => OneTunnel /\ SetLast /\ OwnClient

\* Then a readLoop works on the client and the connection of its own tunnel.  A
\* Close gets to conn.Close() only when closeCh is closed, and no readLoop is the
\* first to close it unless the connection ended by itself.
OwnLoop ==
    \A t \in Start : rl[t] # "none" =>
        recv[t] = t /\ cliConn[t] = t /\ closeCh[t] # "nil" /\ tun[t] \in Joined
Chosen == \A h \in Stop : stp[h] \in {"select", "closing", "conn"} => target[h] \in Start
HangsClosed ==
    /\ \A t \in Start : rl[t] = "conn" => closeCh[t] = "closed"
    /\ \A h \in Stop : stp[h] = "conn" => closeCh[target[h]] = "closed"
ShutIsClosed == \A t \in Start : rl[t] # "none" /\ sock[t] # "open" => closeCh[t] = "closed"
Unbroken ==
    ~broke => \A t \in Start : /\ rl[t] \in {"select", "conn", "done"} => closeCh[t] = "closed"
                              /\ rl[t] # "closing"
LoopInv   == ~overlap => OwnLoop /\ Chosen /\ HangsClosed /\ ShutIsClosed /\ Unbroken

\* The current stop channel is closed only while a request is about to renew it.
ClosedIsRenewed == stopCh \in closedCh => \E h \in Stop : stp[h] = "renew"

\* Running is backed by a tunnel that nothing has stopped, or a stop request is
\* on its way to SetStopped and cannot panic before it gets there, unless it is
\* overtaken in Client.Close by another that gets there instead.
Serves(t) == \/ tun[t] \in {"direct", "keepalive", "direct+keepalive", "up"}
             \/ tun[t] = "wait" /\ waitOn[t] \notin closedCh
Usable    == relayClient = NoStart \/ closeCh[relayClient] # "nil"
Resets(h) == \/ stp[h] \in {"renew", "client"} /\ Usable
             \/ stp[h] = "hangup" /\ relayClient # NoStart /\ Usable
             \/ stp[h] = "select" /\ closeCh[target[h]] \in {"open", "closed"}
             \/ stp[h] = "closing" /\ closeCh[target[h]] = "open"
             \/ stp[h] \in {"conn", "forget", "status"}
ShownInv  == ~overlap /\ ~broke /\ running =>
                 (\E t \in Start : Serves(t)) \/ (\E h \in Stop : Resets(h))

\* When stops wait for starts as well, no start meets a stop; a connection that
\* is open is the one of relayClient and of every Close under way, and a stop
\* that woke its tunnel, or a readLoop, has yet to close it.
Apart     == Stopping => \A t \in Start : tun[t] \notin Starting
Dialling  == \A t \in Start : tun[t] \in {"connect", "dial"} => relayClient = t
OnConn(t) == rl[t] = "conn" \/ \E h \in Stop : stp[h] = "conn" /\ target[h] = t
Comes(t)  == \E h \in Stop : \/ stp[h] \in {"renew", "client", "hangup"}
                             \/ stp[h] \in {"select", "closing"} /\ target[h] = t
WillHang(t) == OnConn(t) \/ Comes(t)
OpenIsCurrent ==
    \A t \in Start : sock[t] = "open" =>
        /\ relayClient = t /\ cliConn[t] = t /\ closeCh[t] # "nil"
        /\ tun[t] \in Relayed \cup {"undo", "done"}
        /\ tun[t] \in {"undo", "done"} => WillHang(t)
        /\ tun[t] = "wait" /\ waitOn[t] \in closedCh => WillHang(t)
        /\ closeCh[t] = "closed" => OnConn(t)
        /\ \A h \in Stop : stp[h] \in {"select", "closing", "conn"} => target[h] = t
ForgetsClosed ==
    (\E h \in Stop : stp[h] \in {"forget", "status"}) => \A t \in Start : sock[t] # "open"
ShownOpen ==
    \A t \in Start : sock[t] = "open" /\ tun[t] \in {"up", "wait", "undo", "done"} => running
QuietInv  == ~overlap /\ ~interrupted =>
                 Apart /\ Dialling /\ OpenIsCurrent /\ ForgetsClosed /\ ShownOpen

\* And a relay tunnel keeps its connection until a stop has closed the channel
\* it waits on.
PastClose ==
    \A h \in Stop : stp[h] \in {"renew", "client", "hangup", "select", "closing", "conn",
                               "forget", "status"} =>
        \A t \in Start : tun[t] = "wait" => waitOn[t] \in closedCh
Keeps(t)  == \/ tun[t] \in {"register", "registered", "up"}
             \/ tun[t] = "wait" /\ waitOn[t] \notin closedCh
Kept      == ~broke => \A t \in Start : Keeps(t) => sock[t] = "open" /\ closeCh[t] = "open"
KeptInv   == ~overlap /\ ~interrupted => PastClose /\ Kept

(* The steps of a tunnel that touch neither the status nor the client.      *)
Moves(t) ==
    \/ Spawn(t) \/ Discover(t) \/ UpnpFails(t) \/ StartKeepalive(t) \/ KeepaliveEnds(t)
    \/ StunFails(t) \/ Registered(t) \/ Wait(t) \/ Woken(t) \/ Undo(t)
    \/ \E m \in Mapping : AddMapping(t, m) \/ MappingReplyLost(t, m)

(* They only move the tunnel on, and never back to an earlier part.         *)
LEMMA MovesOn ==
    ASSUME TypeOK, NEW t \in Start, Moves(t)
    PROVE  /\ UNCHANGED <<statVars, stopVars, cliVars, recv, overlap, sock, handVars, broke>>
           /\ rl' = rl \/ Registered(t)
           /\ tun[t] \notin Idle /\ tun' = [tun EXCEPT ![t] = tun'[t]]
           /\ tun'[t] \in NotUpYet => tun[t] \in NotUpYet
           /\ tun'[t] \in Relayed => tun[t] \in Relayed
           /\ tun'[t] \notin {"connect", "dial"}
           /\ tun'[t] \in Starting => tun[t] \in Starting
           /\ tun[t] \in {"undo", "done"} => tun'[t] \in {"undo", "done"}
           /\ tun'[t] \in Undialled => tun[t] \in Undialled
           /\ tun[t] \in Joined => tun'[t] \in Joined
<1> USE DEF TypeOK, Idle, NotUpYet, Relayed, Starting, Undialled, Joined, Goto, statVars,
            stopVars, cliVars, mapVars, tunVars, handVars, loopVars
<1>1. CASE Spawn(t)
  BY <1>1 DEF Spawn
<1>2. CASE Discover(t)
  BY <1>2 DEF Discover
<1>3. CASE UpnpFails(t)
  BY <1>3 DEF UpnpFails
<1>4. CASE StartKeepalive(t)
  BY <1>4 DEF StartKeepalive
<1>5. CASE KeepaliveEnds(t)
  BY <1>5 DEF KeepaliveEnds
<1>6. CASE StunFails(t)
  BY <1>6 DEF StunFails
<1>7. CASE Registered(t)
  BY <1>7 DEF Registered
<1>8. CASE Wait(t)
  BY <1>8 DEF Wait
<1>9. CASE Woken(t)
  BY <1>9 DEF Woken
<1>10. CASE Undo(t)
  BY <1>10 DEF Undo
<1>11. ASSUME NEW m \in Mapping, AddMapping(t, m)
       PROVE  /\ tun[t] = "map"
              /\ UNCHANGED <<statVars, stopVars, cliVars, tunVars, sock, handVars, loopVars>>
  BY <1>11 DEF AddMapping
<1>12. ASSUME NEW m \in Mapping, MappingReplyLost(t, m)
       PROVE  /\ tun[t] = "map" /\ tun' = [tun EXCEPT ![t] = "stun"]
              /\ UNCHANGED <<statVars, stopVars, cliVars, recv, overlap, sock, handVars, loopVars>>
  BY <1>12 DEF MappingReplyLost
<1>13. CASE \E m \in Mapping : AddMapping(t, m) \/ MappingReplyLost(t, m)
  BY <1>11, <1>12, <1>13
<1> QED
  BY <1>1, <1>2, <1>3, <1>4, <1>5, <1>6, <1>7, <1>8, <1>9, <1>10, <1>13 DEF Moves

(* A readLoop and its Close touch the client, the connection and the crash  *)
(* flag only.                                                               *)
LEMMA LoopsApart ==
    ASSUME TypeOK, NEW t \in Start, ReadLoopNext(t)
    PROVE  /\ UNCHANGED <<running, stopVars, relayClient, cliConn, mapVars, tunVars, handVars>>
           /\ rl[t] # "none" /\ rl' = [rl EXCEPT ![t] = rl'[t]] /\ rl'[t] # "none"
           /\ broke => broke'
           /\ closeCh' = closeCh \/ ReadLoopCloses(t)
           /\ sock' = sock \/ ReadLoopHangs(t)
  BY DEF TypeOK, ReadLoopNext, ReadLoopEnds, ReadLoopSelects, ReadLoopCloses, ReadLoopHangs,
         statVars, stopVars, cliVars, mapVars, tunVars, handVars, loopVars

(* A stop request touches neither the tunnels nor the readLoops, and only   *)
(* its own place.                                                           *)
LEMMA StopsApart ==
    ASSUME TypeOK, NEW h \in Stop, StopArrives(h) \/ StopNext(h)
    PROVE  /\ UNCHANGED <<crashed, cliConn, tunVars, loopVars>>
           /\ running' => running
           /\ relayClient' \in {relayClient, NoStart}
           /\ stp' = [stp EXCEPT ![h] = stp'[h]]
           /\ target' = [target EXCEPT ![h] = target'[h]]
           /\ closeCh' = closeCh \/ StopCloses(h)
           /\ sock' = sock \/ StopHangs(h)
           /\ target' = target \/ StopHangup(h)
           /\ stp'[h] = "conn" => StopSelects(h) \/ StopCloses(h)
  BY DEF TypeOK, StopArrives, StopNext, StopClose, StopRenew, StopLooks, StopHangup, StopSelects,
         StopCloses, StopHangs, StopForget, StopStatus,
         statVars, stopVars, cliVars, mapVars, tunVars, handVars, loopVars

(* The three history flags stay set.                                        *)
LEMMA FlagsStay ==
    TypeOK /\ [Next]_vars =>
        (overlap => overlap') /\ (interrupted => interrupted') /\ (broke => broke')
<1> DEFINE Stay == (overlap => overlap') /\ (interrupted => interrupted') /\ (broke => broke')
<1> SUFFICES ASSUME TypeOK, [Next]_vars PROVE Stay
  OBVIOUS
<1> USE DEF statVars, stopVars, cliVars, mapVars, tunVars, handVars, loopVars, Goto, Fails
<1>1. ASSUME NEW t \in Start, CheckRunning(t) PROVE Stay
  BY <1>1 DEF CheckRunning
<1>2. ASSUME NEW t \in Start, TunnelNext(t) PROVE UNCHANGED <<overlap, interrupted, broke>>
  BY <1>2
  DEF TunnelNext, Spawn, Discover, UpnpUp, UpnpFails, StunUp, StartKeepalive, KeepaliveEnds,
      StunFails, NoRelay, NewClient, CallConnect, Dial, ConnectFails, Registered, RelayUp,
      Wait, Woken, Undo, AddMapping, MappingReplyLost
<1>3. ASSUME NEW h \in Stop, StopArrives(h) PROVE Stay
  BY <1>3 DEF StopArrives
<1>4. ASSUME NEW h \in Stop, StopNext(h) PROVE UNCHANGED <<overlap, interrupted, broke>>
  BY <1>4
  DEF StopNext, StopClose, StopRenew, StopLooks, StopHangup, StopSelects, StopCloses, StopHangs,
      StopForget, StopStatus
<1>5. ASSUME NEW t \in Start, ReadLoopNext(t) PROVE Stay
  BY <1>5, LoopsApart
<1>6. CASE UNCHANGED vars
  BY <1>6 DEF vars
<1> QED
  BY <1>1, <1>2, <1>3, <1>4, <1>5, <1>6 DEF Next

(* A start that was let through while nothing else was under way is alone.  *)
LEMMA AloneStep == TypeOK /\ AloneInv /\ LoopInv /\ [Next]_vars => AloneInv'
<1> DEFINE Alone == OneTunnel /\ SetLast /\ OwnClient
<1> SUFFICES ASSUME TypeOK, AloneInv, LoopInv, [Next]_vars, ~overlap' PROVE Alone'
  BY DEF AloneInv
<1>1. ~overlap /\ OneTunnel /\ SetLast /\ OwnClient
  BY FlagsStay DEF AloneInv
<1> HIDE DEF Alone
<1> USE GuiAssumption DEF TypeOK, Idle, statVars, stopVars, cliVars, mapVars, tunVars, handVars, loopVars
<1>2. ASSUME NEW t \in Start, CheckRunning(t) PROVE Alone'
  <2>1. CASE running
    BY <1>1, <1>2, <2>1
    DEF CheckRunning, Goto, Alone, OneTunnel, SetLast, OwnClient, NotUpYet, Relayed, Undialled
  <2>2. CASE ~running
    <3>1. \A u \in Start : tun[u] \in Idle
      BY <1>2, <2>2 DEF CheckRunning, Busy
    <3>2. /\ tun[t] = "none" /\ tun' = [tun EXCEPT ![t] = "checked"]
          /\ UNCHANGED <<crashed, running, relayClient, recv, cliConn, closeCh>>
      BY <1>2, <2>2 DEF CheckRunning, Goto
    <3>3. OneTunnel' /\ SetLast'
      BY <2>2, <3>1, <3>2 DEF OneTunnel, SetLast, NotUpYet
    <3>4. OwnClient'
      BY <1>1, <3>1, <3>2 DEF OwnClient, Relayed, Undialled
    <3> QED
      BY <3>3, <3>4 DEF Alone
  <2> QED
    BY <2>1, <2>2
<1>3. ASSUME NEW t \in Start, Moves(t) PROVE Alone'
  <2>1. OneTunnel'
    BY <1>1, <1>3, MovesOn DEF OneTunnel
  <2>2. SetLast'
    BY <1>1, <1>3, MovesOn DEF SetLast
  <2>3. OwnClient'
    BY <1>1, <1>3, MovesOn DEF OwnClient
  <2> QED
    BY <2>1, <2>2, <2>3 DEF Alone
<1>4. ASSUME NEW t \in Start, UpnpUp(t) \/ StunUp(t) \/ RelayUp(t) PROVE Alone'
  <2>1. /\ tun[t] \in {"map", "stun", "registered"} /\ running' = TRUE
        /\ tun' = [tun EXCEPT ![t] = tun'[t]]
        /\ tun'[t] \in {"direct", "keepalive", "up"}
        /\ tun'[t] = "up" => tun[t] = "registered"
        /\ UNCHANGED <<crashed, relayClient, recv, cliConn, closeCh>>
    BY <1>4 DEF UpnpUp, StunUp, RelayUp, Goto
  <2>2. \A u \in Start : u # t => tun[u] \in Idle /\ tun'[u] \in Idle
    BY <1>1, <2>1 DEF OneTunnel
  <2>3. OneTunnel' /\ SetLast'
    BY <2>1, <2>2 DEF OneTunnel, SetLast, NotUpYet
  <2>4. OwnClient'
    BY <1>1, <2>1, <2>2 DEF OwnClient, Relayed, Undialled
  <2> QED
    BY <2>3, <2>4 DEF Alone
<1>5. ASSUME NEW t \in Start, NoRelay(t) \/ ConnectFails(t) PROVE Alone'
  <2>1. /\ tun[t] \notin Idle /\ running' = FALSE /\ tun' = [tun EXCEPT ![t] = "undo"]
        /\ UNCHANGED <<crashed, relayClient, recv, cliConn, closeCh>>
    BY <1>5 DEF NoRelay, ConnectFails, Fails, Goto
  <2>2. OneTunnel' /\ SetLast'
    BY <1>1, <2>1 DEF OneTunnel, SetLast
  <2>3. OwnClient'
    BY <1>1, <2>1 DEF OwnClient, Relayed, Undialled
  <2> QED
    BY <2>2, <2>3 DEF Alone
<1>6. ASSUME ~crashed, NEW t \in Start, NewClient(t) \/ CallConnect(t) \/ Dial(t) PROVE Alone'
  <2>1. /\ tun[t] \in {"relay", "connect", "dial"} /\ running' = running
        /\ tun' = [tun EXCEPT ![t] = tun'[t]]
        /\ tun'[t] \in {"connect", "dial", "register"}
    BY <1>6 DEF NewClient, CallConnect, Dial, Goto
  <2>2. \A u \in Start : u # t => tun[u] \in Idle /\ tun'[u] \in Idle
    BY <1>1, <2>1 DEF OneTunnel
  <2>3. OneTunnel' /\ SetLast'
    BY <1>1, <2>1, <2>2 DEF OneTunnel, SetLast, NotUpYet
  <2>4. CASE NewClient(t)
    <3>1. /\ tun'[t] = "connect" /\ relayClient' = t /\ tun[t] = "relay"
          /\ UNCHANGED <<crashed, recv, cliConn, closeCh>>
      BY <2>4 DEF NewClient, Goto
    <3>2. OwnClient'
      BY <1>1, <2>1, <2>2, <3>1 DEF OwnClient, Relayed, Undialled
    <3> QED
      BY <2>3, <3>2 DEF Alone
  <2>5. CASE CallConnect(t)
    <3>1. /\ tun'[t] = "dial" /\ relayClient' = relayClient /\ relayClient \in {t, NoStart}
          /\ recv'[t] = relayClient /\ (relayClient = NoStart => crashed')
          /\ UNCHANGED <<cliConn, closeCh>> /\ tun[t] = "connect"
      BY <1>1, <2>5 DEF CallConnect, Goto, OwnClient
    <3>2. OwnClient'
      BY <1>1, <2>1, <2>2, <3>1 DEF OwnClient, Relayed, Undialled
    <3> QED
      BY <2>3, <3>2 DEF Alone
  <2>6. CASE Dial(t)
    <3>1. /\ tun'[t] = "register" /\ relayClient' = relayClient /\ relayClient \in {t, NoStart}
          /\ recv[t] = t /\ recv' = recv /\ crashed' = crashed
      BY <1>1, <1>6, <2>6 DEF Dial, Goto, OwnClient
    <3>2. /\ cliConn' = [cliConn EXCEPT ![t] = t] /\ closeCh' = [closeCh EXCEPT ![t] = "open"]
      BY <2>6, <3>1 DEF Dial
    <3>3. OwnClient'
      BY <1>1, <2>1, <2>2, <3>1, <3>2 DEF OwnClient, Relayed, Undialled
    <3> QED
      BY <2>3, <3>3 DEF Alone
  <2> QED
    BY <1>6, <2>4, <2>5, <2>6
<1>7. ASSUME NEW h \in Stop, StopArrives(h) \/ StopNext(h) PROVE Alone'
  <2>1. /\ UNCHANGED <<tun, recv, crashed, cliConn>> /\ relayClient' \in {relayClient, NoStart}
        /\ running' => running
    BY <1>7, StopsApart
  <2>2. ASSUME NEW t \in Start PROVE closeCh[t] = "nil" <=> closeCh'[t] = "nil"
    <3>1. CASE closeCh' = closeCh
      BY <3>1
    <3>2. CASE StopCloses(h)
      BY <3>2 DEF StopCloses
    <3> QED
      BY <1>7, <3>1, <3>2, StopsApart
  <2>3. OneTunnel' /\ SetLast'
    BY <1>1, <2>1 DEF OneTunnel, SetLast
  <2>4. OwnClient'
    BY <1>1, <2>1, <2>2 DEF OwnClient
  <2> QED
    BY <2>3, <2>4 DEF Alone
<1>8. ASSUME ~crashed, NEW t \in Start, ReadLoopNext(t) PROVE Alone'
  <2>1. UNCHANGED <<tun, recv, relayClient, cliConn, running>>
    BY <1>8, LoopsApart
  <2>2. ASSUME NEW u \in Start PROVE closeCh[u] = "nil" <=> closeCh'[u] = "nil"
    <3>1. CASE closeCh' = closeCh
      BY <3>1
    <3>2. CASE ReadLoopCloses(t)
      <4>1. recv[t] = t /\ closeCh[t] # "nil"
        BY <1>1, <3>2 DEF ReadLoopCloses, LoopInv, OwnLoop
      <4> QED
        BY <3>2, <4>1 DEF ReadLoopCloses
    <3> QED
      BY <1>8, <3>1, <3>2, LoopsApart
  <2>3. OneTunnel' /\ SetLast'
    BY <1>1, <2>1 DEF OneTunnel, SetLast
  <2>4. OwnClient'
    BY <1>1, <1>8, <2>1, <2>2 DEF OwnClient
  <2> QED
    BY <2>3, <2>4 DEF Alone
<1>9. CASE UNCHANGED vars
  BY <1>1, <1>9 DEF vars, Alone, OneTunnel, SetLast, OwnClient
<1> QED
  BY <1>2, <1>3, <1>4, <1>5, <1>6, <1>7, <1>8, <1>9 DEF Next, TunnelNext, Moves

(* A Close hangs up only what it closed, and a readLoop is not the first to *)
(* close its client while connections do not end by themselves.             *)
LEMMA LoopStep == TypeOK /\ AloneInv /\ LoopInv /\ [Next]_vars => LoopInv'
<1> DEFINE Loop == OwnLoop /\ Chosen /\ HangsClosed /\ ShutIsClosed /\ Unbroken
<1> SUFFICES ASSUME TypeOK, AloneInv, LoopInv, [Next]_vars, ~overlap' PROVE Loop'
  BY DEF LoopInv
<1>1. /\ ~overlap /\ OneTunnel /\ OwnClient /\ (broke => broke')
      /\ OwnLoop /\ Chosen /\ HangsClosed /\ ShutIsClosed /\ Unbroken
  BY FlagsStay DEF AloneInv, LoopInv
<1> HIDE DEF Loop
<1>2. ASSUME UNCHANGED <<recv, cliConn, closeCh, sock, stp, target, broke, rl>>,
             \A t \in Start : tun[t] \in Joined => tun'[t] \in Joined
      PROVE  Loop'
  <2>1. OwnLoop'
    BY <1>1, <1>2 DEF OwnLoop
  <2>2. Chosen' /\ HangsClosed' /\ ShutIsClosed' /\ Unbroken'
    BY <1>1, <1>2 DEF Chosen, HangsClosed, ShutIsClosed, Unbroken
  <2> QED
    BY <2>1, <2>2 DEF Loop
<1> USE GuiAssumption DEF TypeOK, statVars, stopVars, cliVars, mapVars, tunVars, handVars, loopVars
<1>3. ASSUME NEW t \in Start,
             \/ CheckRunning(t) \/ UpnpUp(t) \/ StunUp(t) \/ RelayUp(t) \/ NoRelay(t) \/ NewClient(t)
      PROVE  Loop'
  <2>1. UNCHANGED <<recv, cliConn, closeCh, sock, stp, target, broke, rl>>
    BY <1>3 DEF CheckRunning, UpnpUp, StunUp, RelayUp, NoRelay, NewClient
  <2>2. \A u \in Start : tun[u] \in Joined => tun'[u] \in Joined
    BY <1>3 DEF CheckRunning, UpnpUp, StunUp, RelayUp, NoRelay, NewClient, Goto, Fails, Joined
  <2> QED
    BY <1>2, <2>1, <2>2
<1>4. ASSUME NEW t \in Start, Moves(t), rl' = rl PROVE Loop'
  <2>1. UNCHANGED <<recv, cliConn, closeCh, sock, stp, target, broke, rl>>
    BY <1>4, MovesOn
  <2>2. \A u \in Start : tun[u] \in Joined => tun'[u] \in Joined
    BY <1>4, MovesOn
  <2> QED
    BY <1>2, <2>1, <2>2
<1>5. ASSUME NEW t \in Start, Registered(t) PROVE Loop'
  <2>1. /\ recv[t] = t /\ cliConn[t] = t /\ closeCh[t] # "nil" /\ tun'[t] \in Joined
        /\ sock[t] = "open" /\ rl' = [rl EXCEPT ![t] = "run"]
        /\ tun' = [tun EXCEPT ![t] = "registered"]
        /\ UNCHANGED <<recv, cliConn, closeCh, sock, stp, target, broke>>
    BY <1>1, <1>5 DEF Registered, OwnClient, Relayed, Joined, Goto
  <2>2. OwnLoop'
    BY <1>1, <2>1 DEF OwnLoop
  <2>3. Chosen' /\ HangsClosed' /\ ShutIsClosed' /\ Unbroken'
    BY <1>1, <2>1 DEF Chosen, HangsClosed, ShutIsClosed, Unbroken
  <2> QED
    BY <2>2, <2>3 DEF Loop
<1>6. ASSUME NEW t \in Start, CallConnect(t) PROVE Loop'
  <2>1. /\ tun[t] = "connect" /\ recv' = [recv EXCEPT ![t] = recv'[t]]
        /\ tun' = [tun EXCEPT ![t] = "dial"]
        /\ UNCHANGED <<cliConn, closeCh, sock, stp, target, broke, rl>>
    BY <1>6 DEF CallConnect, Goto
  <2>2. rl[t] = "none"
    BY <1>1, <2>1 DEF OwnLoop, Joined
  <2>3. OwnLoop'
    BY <1>1, <2>1, <2>2 DEF OwnLoop
  <2>4. Chosen' /\ HangsClosed' /\ ShutIsClosed' /\ Unbroken'
    BY <1>1, <2>1 DEF Chosen, HangsClosed, ShutIsClosed, Unbroken
  <2> QED
    BY <2>3, <2>4 DEF Loop
<1>7. ASSUME ~crashed, NEW t \in Start, Dial(t) PROVE Loop'
  <2>1. /\ recv[t] = t /\ tun[t] = "dial" /\ closeCh[t] = "nil"
        /\ tun' = [tun EXCEPT ![t] = "register"]
    BY <1>1, <1>7 DEF Dial, OwnClient, Undialled, Goto
  <2>2. /\ cliConn' = [cliConn EXCEPT ![t] = t] /\ closeCh' = [closeCh EXCEPT ![t] = "open"]
        /\ sock' = [sock EXCEPT ![t] = "open"]
        /\ UNCHANGED <<recv, stp, target, broke, rl>>
    BY <1>7, <2>1 DEF Dial
  <2>3. rl[t] = "none"
    BY <1>1, <2>1 DEF OwnLoop, Joined
  <2>4. OwnLoop'
    BY <1>1, <2>1, <2>2, <2>3 DEF OwnLoop
  <2>5. Chosen' /\ HangsClosed'
    BY <1>1, <2>1, <2>2, <2>3 DEF Chosen, HangsClosed
  <2>6. ShutIsClosed' /\ Unbroken'
    BY <1>1, <2>2, <2>3 DEF ShutIsClosed, Unbroken
  <2> QED
    BY <2>4, <2>5, <2>6 DEF Loop
<1>8. ASSUME NEW t \in Start, ConnectFails(t) PROVE Loop'
  <2>1. /\ tun[t] \in {"dial", "register"} /\ tun' = [tun EXCEPT ![t] = "undo"]
        /\ \A u \in Start : u # t => sock'[u] = sock[u]
        /\ UNCHANGED <<recv, cliConn, closeCh, stp, target, broke, rl>>
    BY <1>8 DEF ConnectFails, Fails, Goto
  <2>2. rl[t] = "none"
    BY <1>1, <2>1 DEF OwnLoop, Joined
  <2>3. OwnLoop' /\ ShutIsClosed'
    BY <1>1, <2>1, <2>2 DEF OwnLoop, ShutIsClosed
  <2>4. Chosen' /\ HangsClosed' /\ Unbroken'
    BY <1>1, <2>1 DEF Chosen, HangsClosed, Unbroken
  <2> QED
    BY <2>3, <2>4 DEF Loop
<1>9. ASSUME NEW h \in Stop, StopArrives(h) \/ StopNext(h) PROVE Loop'
  <2>1. /\ UNCHANGED <<tun, recv, cliConn, rl, broke>>
        /\ stp' = [stp EXCEPT ![h] = stp'[h]] /\ target' = [target EXCEPT ![h] = target'[h]]
    BY <1>9, StopsApart
  <2>2. ASSUME NEW t \in Start
        PROVE  /\ closeCh[t] # "nil" => closeCh'[t] # "nil"
               /\ closeCh[t] = "closed" => closeCh'[t] = "closed"
    <3>1. CASE StopCloses(h)
      BY <3>1 DEF StopCloses
    <3> QED
      BY <1>9, <3>1, StopsApart
  <2>3. OwnLoop' /\ Unbroken'
    BY <1>1, <2>1, <2>2 DEF OwnLoop, Unbroken
  <2>4. ASSUME NEW t \in Start, rl'[t] # "none", sock'[t] # "open" PROVE closeCh'[t] = "closed"
    <3>1. CASE sock[t] # "open"
      BY <1>1, <2>1, <2>2, <2>4, <3>1 DEF ShutIsClosed
    <3>2. CASE sock[t] = "open"
      <4>1. StopHangs(h) /\ cliConn[target[h]] = t
        BY <1>9, <2>4, <3>2, StopsApart DEF StopHangs
      <4>2. target[h] \in Start /\ closeCh[target[h]] = "closed"
        BY <1>1, <4>1 DEF StopHangs, Chosen, HangsClosed
      <4>3. target[h] = t
        BY <1>1, <4>1, <4>2 DEF OwnClient
      <4> QED
        BY <2>2, <4>2, <4>3
    <3> QED
      BY <3>1, <3>2
  <2>5. Chosen'
    <3>1. CASE stp'[h] \notin {"select", "closing", "conn"}
      BY <1>1, <2>1, <3>1 DEF Chosen
    <3>2. CASE stp'[h] \in {"select", "closing", "conn"}
      <4>1. target'[h] \in Start
        BY <1>1, <1>9, <3>2
        DEF Chosen, StopArrives, StopNext, StopClose, StopRenew, StopLooks, StopHangup,
            StopSelects, StopCloses, StopHangs, StopForget, StopStatus
      <4> QED
        BY <1>1, <2>1, <4>1 DEF Chosen
    <3> QED
      BY <3>1, <3>2
  <2>6. ASSUME NEW k \in Stop, stp'[k] = "conn" PROVE closeCh'[target'[k]] = "closed"
    <3>1. CASE k # h
      BY <1>1, <2>1, <2>2, <2>6, <3>1 DEF Chosen, HangsClosed
    <3>2. CASE k = h /\ StopSelects(h)
      BY <2>6, <3>2 DEF StopSelects
    <3>3. CASE k = h /\ StopCloses(h)
      <4>1. /\ target' = target /\ stp[h] = "closing"
            /\ closeCh' = [closeCh EXCEPT ![target[h]] = "closed"]
        BY <2>6, <3>3 DEF StopCloses
      <4>2. target[h] \in Start
        BY <1>1, <4>1 DEF Chosen
      <4> QED
        BY <3>3, <4>1, <4>2
    <3> QED
      BY <1>9, <2>6, <3>1, <3>2, <3>3, StopsApart
  <2>7. \A t \in Start : rl'[t] = "conn" => closeCh'[t] = "closed"
    BY <1>1, <2>1, <2>2 DEF HangsClosed
  <2> QED
    BY <2>3, <2>4, <2>5, <2>6, <2>7 DEF Loop, HangsClosed, ShutIsClosed
<1>10. ASSUME NEW t \in Start, ReadLoopNext(t) PROVE Loop'
  <2>1. /\ UNCHANGED <<tun, recv, cliConn, stp, target>> /\ rl[t] # "none"
        /\ rl' = [rl EXCEPT ![t] = rl'[t]]
    BY <1>10, LoopsApart
  <2>2. recv[t] = t /\ cliConn[t] = t /\ closeCh[t] # "nil" /\ tun[t] \in Joined
    BY <1>1, <2>1 DEF OwnLoop
  <2>3. \A u \in Start : /\ closeCh[u] = "closed" => closeCh'[u] = "closed"
                         /\ closeCh[u] # "nil" => closeCh'[u] # "nil"
    BY <1>10, <2>2, LoopsApart DEF ReadLoopCloses
  <2>4. OwnLoop' /\ Chosen'
    BY <1>1, <2>1, <2>2, <2>3 DEF OwnLoop, Chosen
  <2>5. rl'[t] = "conn" => closeCh'[t] = "closed"
    BY <1>10, <2>2
    DEF ReadLoopNext, ReadLoopEnds, ReadLoopSelects, ReadLoopCloses, ReadLoopHangs
  <2>6. HangsClosed'
    BY <1>1, <2>1, <2>3, <2>5 DEF Chosen, HangsClosed
  <2>7. sock'[t] # "open" => sock[t] # "open" \/ closeCh[t] = "closed"
    BY <1>1, <1>10, LoopsApart DEF ReadLoopHangs, HangsClosed
  <2>8. \A u \in Start : u # t => sock'[u] = sock[u]
    BY <1>10, <2>2, LoopsApart DEF ReadLoopHangs
  <2>9. ShutIsClosed'
    BY <1>1, <2>1, <2>3, <2>7, <2>8 DEF ShutIsClosed
  <2>10. ASSUME ~broke'
         PROVE  /\ rl'[t] \in {"select", "conn", "done"} => closeCh'[t] = "closed"
                /\ rl'[t] # "closing"
    <3>1. CASE ReadLoopEnds(t)
      BY <1>1, <2>2, <2>10, <3>1 DEF ReadLoopEnds, ShutIsClosed
    <3>2. CASE ReadLoopSelects(t) \/ ReadLoopCloses(t) \/ ReadLoopHangs(t)
      BY <1>1, <2>2, <2>10, <3>2 DEF ReadLoopSelects, ReadLoopCloses, ReadLoopHangs, Unbroken
    <3> QED
      BY <1>10, <3>1, <3>2 DEF ReadLoopNext
  <2>11. Unbroken'
    BY <1>1, <2>1, <2>3, <2>10 DEF Unbroken
  <2> QED
    BY <2>4, <2>6, <2>9, <2>11 DEF Loop
<1>11. CASE UNCHANGED vars
  BY <1>2, <1>11 DEF vars
<1> QED
  BY <1>3, <1>4, <1>5, <1>6, <1>7, <1>8, <1>9, <1>10, <1>11, MovesOn DEF Next, TunnelNext, Moves

(* close(stopCh) and make of a stop request are not torn apart for good.    *)
LEMMA ClosedStep == TypeOK /\ ClosedIsRenewed /\ [Next]_vars => ClosedIsRenewed'
<1> SUFFICES ASSUME TypeOK, ClosedIsRenewed, [Next]_vars PROVE ClosedIsRenewed'
  OBVIOUS
<1> USE DEF TypeOK, ClosedIsRenewed, statVars, stopVars, cliVars, mapVars, tunVars, handVars, loopVars
<1>1. ASSUME NEW t \in Start, CheckRunning(t) \/ TunnelNext(t) PROVE UNCHANGED <<stopCh, closedCh, stp>>
  BY <1>1
  DEF CheckRunning, TunnelNext, Spawn, Discover, UpnpUp, UpnpFails, StunUp, StartKeepalive,
      KeepaliveEnds, StunFails, NoRelay, NewClient, CallConnect, Dial, ConnectFails,
      Registered, RelayUp, Wait, Woken, Undo, AddMapping, MappingReplyLost
<1>2. ASSUME NEW h \in Stop, StopClose(h) PROVE ClosedIsRenewed'
  BY <1>2 DEF StopClose
<1>3. ASSUME NEW h \in Stop, StopRenew(h) PROVE ClosedIsRenewed'
  BY <1>3 DEF StopRenew
<1>4. ASSUME NEW h \in Stop,
             \/ StopArrives(h) \/ StopLooks(h) \/ StopHangup(h) \/ StopSelects(h)
             \/ StopCloses(h) \/ StopHangs(h) \/ StopForget(h) \/ StopStatus(h)
      PROVE  ClosedIsRenewed'
  <2>1. /\ UNCHANGED <<stopCh, closedCh>> /\ stp[h] # "renew"
        /\ stp' = [stp EXCEPT ![h] = stp'[h]]
    BY <1>4 DEF StopArrives, StopLooks, StopHangup, StopSelects, StopCloses, StopHangs,
                StopForget, StopStatus
  <2> QED
    BY <2>1
<1>5. ASSUME NEW t \in Start, ReadLoopNext(t) PROVE UNCHANGED <<stopCh, closedCh, stp>>
  BY <1>5, LoopsApart
<1>6. CASE UNCHANGED vars
  BY <1>6 DEF vars
<1> QED
  BY <1>1, <1>2, <1>3, <1>4, <1>5, <1>6 DEF Next, StopNext

(* A tunnel that stops serving leaves a stop request that resets the status.*)
LEMMA ShownStep ==
    TypeOK /\ AloneInv /\ LoopInv /\ ClosedIsRenewed /\ ShownInv /\ [Next]_vars => ShownInv'
<1> DEFINE Served   == \E t \in Start : Serves(t)
           Resetting == \E h \in Stop : Resets(h)
<1> SUFFICES ASSUME TypeOK, AloneInv, LoopInv, ClosedIsRenewed, ShownInv, [Next]_vars,
                    ~overlap', ~broke', running'
             PROVE  Served' \/ Resetting'
  BY DEF ShownInv
<1>1. ~overlap /\ ~broke /\ OneTunnel /\ SetLast /\ OwnClient
  BY FlagsStay DEF AloneInv
<1>2. running => Served \/ Resetting
  BY <1>1 DEF ShownInv
<1>3. \A t \in Start : tun[t] \in Relayed => Usable
  BY <1>1 DEF OwnClient, Usable
<1> HIDE DEF Served, Resetting
<1> DEFINE Goal == Served' \/ Resetting'
<1> SUFFICES Goal
  OBVIOUS
<1>4. ASSUME UNCHANGED <<relayClient, closeCh, stp, target>> PROVE Resetting' = Resetting
  BY <1>4 DEF Resetting, Usable, Resets
<1>5. ASSUME UNCHANGED <<relayClient, closeCh, stp, target, running>>, Served => Served' PROVE Goal
  BY <1>2, <1>4, <1>5
<1> HIDE DEF Goal
<1> USE GuiAssumption DEF TypeOK, statVars, stopVars, cliVars, mapVars, tunVars, handVars, loopVars
<1>6. ASSUME NEW t \in Start, CheckRunning(t) PROVE Goal
  <2>1. Served => Served'
    BY <1>6 DEF CheckRunning, Goto, Served, Serves
  <2> QED
    BY <1>5, <1>6, <2>1 DEF CheckRunning
<1>7. ASSUME NEW t \in Start, Spawn(t) \/ Discover(t) \/ UpnpFails(t) \/ StunFails(t) \/ Registered(t)
      PROVE  Goal
  <2>1. /\ tun[t] \in NotUpYet /\ tun' = [tun EXCEPT ![t] = tun'[t]]
        /\ UNCHANGED <<relayClient, closeCh, stp, target, running, waitOn, closedCh>>
    BY <1>7 DEF Spawn, Discover, UpnpFails, StunFails, Registered, Goto, NotUpYet
  <2>2. Served => Served'
    BY <2>1 DEF Served, Serves, NotUpYet
  <2> QED
    BY <1>5, <2>1, <2>2
<1>8. ASSUME NEW t \in Start, NEW m \in Mapping, AddMapping(t, m) \/ MappingReplyLost(t, m)
      PROVE  Goal
  <2>1. /\ tun[t] = "map" /\ tun' = [tun EXCEPT ![t] = tun'[t]]
        /\ UNCHANGED <<relayClient, closeCh, stp, target, running, waitOn, closedCh>>
    BY <1>8 DEF AddMapping, MappingReplyLost, Goto
  <2>2. Served => Served'
    BY <2>1 DEF Served, Serves
  <2> QED
    BY <1>5, <2>1, <2>2
<1>9. ASSUME NEW t \in Start,
             UpnpUp(t) \/ StunUp(t) \/ RelayUp(t) \/ StartKeepalive(t) \/ KeepaliveEnds(t)
      PROVE  Goal
  <2>1. tun'[t] \in {"direct", "keepalive", "direct+keepalive", "up"}
    BY <1>9 DEF UpnpUp, StunUp, RelayUp, StartKeepalive, KeepaliveEnds, Goto
  <2> QED
    BY <2>1 DEF Goal, Served, Serves
<1>10. ASSUME NEW t \in Start, NoRelay(t) \/ ConnectFails(t) PROVE Goal
  BY <1>10 DEF NoRelay, ConnectFails, Fails
<1>11. ASSUME NEW t \in Start, NewClient(t) \/ CallConnect(t) \/ Dial(t) PROVE Goal
  <2>1. tun[t] \in NotUpYet /\ running' = running
    BY <1>11 DEF NewClient, CallConnect, Dial, NotUpYet
  <2> QED
    BY <1>1, <2>1 DEF SetLast
<1>12. ASSUME NEW t \in Start, Wait(t) PROVE Goal
  <2>1. /\ tun[t] = "up" /\ tun'[t] = "wait" /\ waitOn'[t] = stopCh /\ closedCh' = closedCh
        /\ UNCHANGED <<relayClient, closeCh, stp, target>>
    BY <1>12 DEF Wait, Goto
  <2>2. CASE stopCh \in closedCh
    <3>1. \E h \in Stop : Resets(h)
      BY <1>3, <2>1, <2>2 DEF ClosedIsRenewed, Resets, Relayed
    <3> QED
      BY <1>4, <2>1, <3>1 DEF Goal, Resetting
  <2>3. CASE stopCh \notin closedCh
    BY <2>1, <2>3 DEF Goal, Served, Serves
  <2> QED
    BY <2>2, <2>3
<1>13. ASSUME NEW t \in Start, Woken(t) \/ Undo(t) PROVE Goal
  <2>1. /\ tun[t] = "undo" \/ (tun[t] = "wait" /\ waitOn[t] \in closedCh)
        /\ tun' = [tun EXCEPT ![t] = tun'[t]]
        /\ UNCHANGED <<relayClient, closeCh, stp, target, running, waitOn, closedCh>>
    BY <1>13 DEF Woken, Undo, Goto
  <2>2. Served => Served'
    BY <2>1 DEF Served, Serves
  <2> QED
    BY <1>5, <2>1, <2>2
<1>14. ASSUME NEW h \in Stop, StopArrives(h) \/ StopRenew(h) \/ StopLooks(h) PROVE Goal
  <2>1. /\ UNCHANGED <<tun, waitOn, closedCh, relayClient, closeCh, target, running>>
        /\ stp' = [stp EXCEPT ![h] = stp'[h]] /\ stp[h] \in {"none", "renew", "client"}
        /\ stp[h] # "none" => \/ stp'[h] \in {"client", "status"}
                              \/ stp'[h] = "hangup" /\ relayClient # NoStart
    BY <1>14 DEF StopArrives, StopRenew, StopLooks
  <2>2. Served => Served'
    BY <2>1 DEF Served, Serves
  <2>3. Resetting => Resetting'
    BY <2>1 DEF Resetting, Usable, Resets
  <2> QED
    BY <1>2, <2>1, <2>2, <2>3 DEF Goal
<1>15. ASSUME NEW h \in Stop, StopClose(h) PROVE Goal
  <2>1. /\ UNCHANGED <<tun, waitOn, relayClient, closeCh, target, running>>
        /\ closedCh' = closedCh \cup {stopCh} /\ stp[h] = "close"
        /\ stp' = [stp EXCEPT ![h] = stp'[h]]
        /\ stopCh \notin closedCh => stp'[h] = "renew"
    BY <1>15 DEF StopClose
  <2>2. Resetting => Resetting'
    BY <2>1 DEF Resetting, Usable, Resets
  <2>3. CASE Served
    <3>1. PICK t \in Start : Serves(t)
      BY <2>3 DEF Served
    <3>2. CASE Serves(t)'
      BY <3>2 DEF Goal, Served
    <3>3. CASE ~Serves(t)'
      <4>1. tun[t] = "wait" /\ stopCh \notin closedCh
        BY <2>1, <3>1, <3>3 DEF Serves
      <4>2. Usable'
        BY <1>3, <2>1, <4>1 DEF Usable, Relayed
      <4> QED
        BY <2>1, <4>1, <4>2 DEF Goal, Resetting, Resets
    <3> QED
      BY <3>2, <3>3
  <2> QED
    BY <1>2, <2>1, <2>2, <2>3 DEF Goal
<1>16. ASSUME NEW h \in Stop, StopHangup(h) PROVE Goal
  <2>1. /\ UNCHANGED <<tun, waitOn, closedCh, relayClient, closeCh, running>> /\ stp[h] = "hangup"
        /\ stp' = [stp EXCEPT ![h] = stp'[h]] /\ target' = [target EXCEPT ![h] = relayClient]
        /\ relayClient # NoStart => stp'[h] = "select"
    BY <1>16 DEF StopHangup
  <2>2. Served => Served'
    BY <2>1 DEF Served, Serves
  <2>3. ASSUME NEW k \in Stop, Resets(k) PROVE Resets(k)'
    <3>1. CASE k = h
      <4>1. relayClient \in Start /\ closeCh[relayClient] \in {"open", "closed"}
        BY <2>1, <2>3, <3>1 DEF Resets, Usable
      <4> QED
        BY <2>1, <3>1, <4>1 DEF Resets
    <3>2. CASE k # h
      BY <2>1, <2>3, <3>2 DEF Resets, Usable
    <3> QED
      BY <3>1, <3>2
  <2> QED
    BY <1>2, <2>1, <2>2, <2>3 DEF Goal, Resetting
<1>17. ASSUME NEW h \in Stop, StopSelects(h) PROVE Goal
  <2>1. /\ UNCHANGED <<tun, waitOn, closedCh, relayClient, closeCh, target, running>>
        /\ stp[h] = "select"
        /\ stp' = [stp EXCEPT ![h] = IF closeCh[target[h]] = "closed" THEN "conn" ELSE "closing"]
    BY <1>17 DEF StopSelects
  <2>2. Served => Served'
    BY <2>1 DEF Served, Serves
  <2>3. ASSUME NEW k \in Stop, Resets(k) PROVE Resets(k)'
    <3>1. CASE k = h
      <4>1. closeCh[target[h]] \in {"open", "closed"}
        BY <2>1, <2>3, <3>1 DEF Resets
      <4> QED
        BY <2>1, <3>1, <4>1 DEF Resets
    <3>2. CASE k # h
      BY <2>1, <2>3, <3>2 DEF Resets, Usable
    <3> QED
      BY <3>1, <3>2
  <2> QED
    BY <1>2, <2>1, <2>2, <2>3 DEF Goal, Resetting
<1>18. ASSUME NEW h \in Stop, StopCloses(h) PROVE Goal
  <2>1. CASE closeCh[target[h]] = "open"
    <3>1. stp'[h] = "conn"
      BY <1>18, <2>1 DEF StopCloses
    <3> QED
      BY <3>1 DEF Goal, Resetting, Resets
  <2>2. CASE closeCh[target[h]] # "open"
    <3>1. /\ UNCHANGED <<tun, waitOn, closedCh, relayClient, closeCh, target, running>>
          /\ stp[h] = "closing" /\ stp' = [stp EXCEPT ![h] = "panic"]
      BY <1>18, <2>2 DEF StopCloses
    <3>2. Served => Served'
      BY <3>1 DEF Served, Serves
    <3>3. ASSUME NEW k \in Stop, Resets(k) PROVE Resets(k)'
      <4>1. k # h
        BY <2>2, <3>1, <3>3 DEF Resets
      <4> QED
        BY <3>1, <3>3, <4>1 DEF Resets, Usable
    <3> QED
      BY <1>2, <3>1, <3>2, <3>3 DEF Goal, Resetting
  <2> QED
    BY <2>1, <2>2
<1>19. ASSUME NEW h \in Stop, StopHangs(h) \/ StopForget(h) PROVE Goal
  <2>1. stp'[h] \in {"forget", "status"}
    <3>1. StopHangs(h) => stp'[h] = "forget"
      BY DEF StopHangs
    <3>2. StopForget(h) => stp'[h] = "status"
      BY DEF StopForget
    <3> QED
      BY <1>19, <3>1, <3>2
  <2> QED
    BY <2>1 DEF Goal, Resetting, Resets
<1>20. ASSUME NEW h \in Stop, StopStatus(h) PROVE Goal
  BY <1>20 DEF StopStatus
<1>21. ASSUME NEW t \in Start, ReadLoopNext(t) PROVE Goal
  <2>1. closeCh' = closeCh
    BY <1>1, <1>21, LoopsApart DEF ReadLoopCloses, LoopInv, Unbroken
  <2>2. UNCHANGED <<relayClient, stp, target, running>> /\ UNCHANGED <<tun, waitOn, closedCh>>
    BY <1>21, LoopsApart
  <2>3. Served => Served'
    BY <2>2 DEF Served, Serves
  <2> QED
    BY <1>5, <2>1, <2>2, <2>3
<1>22. CASE UNCHANGED vars
  <2>1. UNCHANGED <<relayClient, closeCh, stp, target, running>> /\ UNCHANGED <<tun, waitOn, closedCh>>
    BY <1>22 DEF vars
  <2>2. Served => Served'
    BY <2>1 DEF Served, Serves
  <2> QED
    BY <1>5, <2>1, <2>2
<1> QED
  BY <1>6, <1>7, <1>8, <1>9, <1>10, <1>11, <1>12, <1>13, <1>14, <1>15, <1>16, <1>17, <1>18, <1>19,
     <1>20, <1>21, <1>22
  DEF Next, TunnelNext, StopNext

(* As long as starts and stops wait for each other, an open connection is   *)
(* the current client's, and a stop that woke its tunnel, or the tunnel's   *)
(* readLoop, will close it.                                                 *)
LEMMA QuietStep ==
    TypeOK /\ AloneInv /\ LoopInv /\ ClosedIsRenewed /\ QuietInv /\ [Next]_vars => QuietInv'
<1> DEFINE Goal == Apart' /\ Dialling' /\ OpenIsCurrent' /\ ForgetsClosed' /\ ShownOpen'
<1> SUFFICES ASSUME TypeOK, AloneInv, LoopInv, ClosedIsRenewed, QuietInv, [Next]_vars,
                    ~overlap', ~interrupted'
             PROVE  Goal
  BY DEF QuietInv
<1>1. /\ ~overlap /\ ~interrupted /\ OneTunnel /\ SetLast /\ OwnClient /\ OwnLoop
      /\ Apart /\ Dialling /\ OpenIsCurrent /\ ForgetsClosed /\ ShownOpen
  BY FlagsStay DEF AloneInv, LoopInv, QuietInv
<1> HIDE DEF Goal
<1>2. ASSUME NEW t \in Start, tun[t] \in NotUpYet
      PROVE  /\ ~Stopping /\ ~running
             /\ \A u \in Start : sock[u] = "open" => u = t /\ tun[t] \in {"register", "registered"}
  <2>1. ~Stopping /\ ~running
    BY <1>1, <1>2 DEF Apart, SetLast, NotUpYet, Starting
  <2>2. ASSUME NEW u \in Start, sock[u] = "open"
        PROVE  u = t /\ tun[t] \in {"register", "registered"}
    <3>1. tun[u] \in {"register", "registered"}
      BY <1>1, <2>1, <2>2 DEF OpenIsCurrent, ShownOpen, Relayed
    <3>2. u = t
      BY <1>1, <1>2, <3>1 DEF OneTunnel, Idle, NotUpYet
    <3> QED
      BY <3>1, <3>2
  <2> QED
    BY <2>1, <2>2
<1> USE GuiAssumption DEF TypeOK, statVars, stopVars, cliVars, mapVars, tunVars, handVars, loopVars
<1>3. ASSUME NEW t \in Start, CheckRunning(t) PROVE Goal
  <2>1. /\ tun[t] = "none" /\ tun' = [tun EXCEPT ![t] = tun'[t]] /\ tun'[t] \in {"done", "checked"}
        /\ UNCHANGED <<relayClient, cliConn, closeCh, sock, waitOn, closedCh, stp, target, rl, running>>
    BY <1>3 DEF CheckRunning, Goto
  <2>2. tun'[t] = "checked" => ~Stopping
    BY <1>3 DEF CheckRunning, Goto, Busy
  <2>3. Apart'
    BY <1>1, <2>1, <2>2 DEF Apart, Stopping, Starting
  <2>4. sock[t] # "open"
    BY <1>1, <2>1 DEF OpenIsCurrent, Relayed
  <2>5. Dialling' /\ ForgetsClosed' /\ ShownOpen'
    BY <1>1, <2>1, <2>4 DEF Dialling, ForgetsClosed, ShownOpen
  <2>6. OpenIsCurrent'
    BY <1>1, <2>1, <2>4 DEF OpenIsCurrent, WillHang, OnConn, Comes
  <2> QED
    BY <2>3, <2>5, <2>6 DEF Goal
<1>4. ASSUME NEW t \in Start, Moves(t) PROVE Goal
  <2>1. /\ tun' = [tun EXCEPT ![t] = tun'[t]]
        /\ UNCHANGED <<relayClient, cliConn, closeCh, sock, closedCh, stp, target, running>>
        /\ tun'[t] \notin {"connect", "dial"}
        /\ tun'[t] \in Starting => tun[t] \in Starting
    BY <1>4, MovesOn
  <2>2. \A u \in Start : rl[u] = "conn" => rl'[u] = "conn"
    <3>1. ASSUME Registered(t) PROVE rl[t] = "none" /\ rl' = [rl EXCEPT ![t] = "run"]
      BY <1>1, <3>1 DEF Registered, OwnLoop, Joined
    <3> QED
      BY <1>4, <3>1, MovesOn
  <2>3. \A u \in Start : (WillHang(u) => WillHang(u)') /\ (OnConn(u) => OnConn(u)')
    BY <2>1, <2>2 DEF WillHang, OnConn, Comes
  <2>4. Apart' /\ Dialling' /\ ForgetsClosed'
    BY <1>1, <2>1 DEF Apart, Dialling, ForgetsClosed, Stopping
  <2>5. ASSUME sock[t] = "open"
        PROVE  /\ tun'[t] \in Relayed \cup {"undo", "done"}
               /\ tun'[t] \in {"undo", "done"} => WillHang(t)
               /\ tun'[t] = "wait" /\ waitOn'[t] \in closedCh => WillHang(t)
               /\ tun'[t] \in {"up", "wait", "undo", "done"} => running
    <3>1. /\ tun[t] \in Relayed \cup {"undo", "done"}
          /\ tun[t] \in {"undo", "done"} => WillHang(t)
          /\ tun[t] = "wait" /\ waitOn[t] \in closedCh => WillHang(t)
          /\ tun[t] \in {"up", "wait", "undo", "done"} => running
      BY <1>1, <2>5 DEF OpenIsCurrent, ShownOpen
    <3>2. CASE tun[t] \in {"undo", "done"}
      BY <1>4, <3>1, <3>2, MovesOn
    <3>3. CASE tun[t] = "wait"
      <4>1. Woken(t)
        BY <1>4, <3>3
        DEF Moves, Spawn, Discover, UpnpFails, StartKeepalive, KeepaliveEnds, StunFails,
            Registered, Wait, Undo, AddMapping, MappingReplyLost
      <4> QED
        BY <3>1, <3>3, <4>1 DEF Woken, Goto
    <3>4. CASE tun[t] = "up"
      <4>1. Wait(t)
        BY <1>4, <3>4
        DEF Moves, Spawn, Discover, UpnpFails, StartKeepalive, KeepaliveEnds, StunFails,
            Registered, Woken, Undo, AddMapping, MappingReplyLost
      <4>2. tun'[t] = "wait" /\ waitOn'[t] = stopCh
        BY <4>1 DEF Wait, Goto
      <4> QED
        BY <3>1, <3>4, <4>2 DEF ClosedIsRenewed, WillHang, Comes, Relayed
    <3>5. CASE tun[t] \in {"register", "registered"}
      <4>1. Registered(t)
        BY <1>4, <3>5
        DEF Moves, Spawn, Discover, UpnpFails, StartKeepalive, KeepaliveEnds, StunFails,
            Wait, Woken, Undo, AddMapping, MappingReplyLost
      <4> QED
        BY <4>1 DEF Registered, Goto, Relayed
    <3> QED
      BY <3>1, <3>2, <3>3, <3>4, <3>5 DEF Relayed
  <2>6. \A u \in Start : u # t => waitOn'[u] = waitOn[u] /\ tun'[u] = tun[u]
    BY <1>4, <2>1
    DEF Moves, Spawn, Discover, UpnpFails, StartKeepalive, KeepaliveEnds, StunFails,
        Registered, Wait, Woken, Undo, AddMapping, MappingReplyLost
  <2>7. ShownOpen'
    BY <1>1, <2>1, <2>5, <2>6 DEF ShownOpen
  <2>8. OpenIsCurrent'
    <3> SUFFICES ASSUME NEW u \in Start, sock'[u] = "open" PROVE
            /\ relayClient' = u /\ cliConn'[u] = u /\ closeCh'[u] # "nil"
            /\ tun'[u] \in Relayed \cup {"undo", "done"}
            /\ tun'[u] \in {"undo", "done"} => WillHang(u)'
            /\ tun'[u] = "wait" /\ waitOn'[u] \in closedCh' => WillHang(u)'
            /\ closeCh'[u] = "closed" => OnConn(u)'
            /\ \A h \in Stop : stp'[h] \in {"select", "closing", "conn"} => target'[h] = u
      BY DEF OpenIsCurrent
    <3>1. CASE u = t
      BY <1>1, <2>1, <2>3, <2>5, <3>1 DEF OpenIsCurrent
    <3>2. CASE u # t
      BY <1>1, <2>1, <2>3, <2>6, <3>2 DEF OpenIsCurrent
    <3> QED
      BY <3>1, <3>2
  <2> QED
    BY <2>4, <2>7, <2>8 DEF Goal
<1>5. ASSUME NEW t \in Start, UpnpUp(t) \/ StunUp(t) \/ RelayUp(t) \/ NoRelay(t) PROVE Goal
  <2>1. /\ tun[t] \in {"map", "stun", "registered", "relay"}
        /\ tun' = [tun EXCEPT ![t] = tun'[t]]
        /\ tun'[t] \in {"direct", "keepalive", "up", "undo"}
        /\ tun[t] = "registered" => tun'[t] = "up" /\ running' = TRUE
        /\ UNCHANGED <<relayClient, cliConn, closeCh, sock, waitOn, closedCh, stp, target, rl>>
    BY <1>5 DEF UpnpUp, StunUp, RelayUp, NoRelay, Fails, Goto
  <2>2. \A u \in Start : sock[u] = "open" => u = t /\ tun[t] = "registered"
    BY <1>2, <2>1 DEF NotUpYet
  <2>3. Apart' /\ Dialling' /\ ForgetsClosed' /\ ShownOpen'
    BY <1>1, <2>1, <2>2 DEF Apart, Dialling, ForgetsClosed, ShownOpen, Stopping, Starting
  <2>4. OpenIsCurrent'
    BY <1>1, <2>1, <2>2 DEF OpenIsCurrent, WillHang, OnConn, Comes, Relayed
  <2> QED
    BY <2>3, <2>4 DEF Goal
<1>6. ASSUME NEW t \in Start, NewClient(t) \/ CallConnect(t) PROVE Goal
  <2>1. /\ tun[t] \in {"relay", "connect"} /\ tun' = [tun EXCEPT ![t] = tun'[t]]
        /\ tun'[t] \in {"connect", "dial"}
        /\ UNCHANGED <<cliConn, closeCh, sock, stp>>
        /\ relayClient' = t \/ (tun[t] = "connect" /\ relayClient' = relayClient)
    BY <1>6 DEF NewClient, CallConnect, Goto
  <2>2. ~Stopping /\ \A u \in Start : sock[u] # "open"
    BY <1>2, <2>1 DEF NotUpYet
  <2>3. Apart' /\ ForgetsClosed' /\ OpenIsCurrent' /\ ShownOpen'
    BY <2>1, <2>2 DEF Apart, ForgetsClosed, OpenIsCurrent, ShownOpen, Stopping
  <2>4. Dialling'
    BY <1>1, <2>1 DEF Dialling, OneTunnel, Idle
  <2> QED
    BY <2>3, <2>4 DEF Goal
<1>7. ASSUME ~crashed, NEW t \in Start, Dial(t) PROVE Goal
  <2>1. recv[t] = t /\ relayClient = t
    BY <1>1, <1>7 DEF Dial, OwnClient, Dialling
  <2>2. /\ tun[t] = "dial" /\ tun' = [tun EXCEPT ![t] = "register"]
        /\ cliConn'[t] = t /\ closeCh'[t] = "open" /\ sock' = [sock EXCEPT ![t] = "open"]
        /\ relayClient' = relayClient /\ stp' = stp
    BY <1>7, <2>1 DEF Dial, Goto
  <2>3. ~Stopping /\ \A u \in Start : u # t => sock[u] # "open"
    BY <1>2, <2>2 DEF NotUpYet
  <2>4. Apart' /\ ForgetsClosed' /\ ShownOpen'
    BY <2>2, <2>3 DEF Apart, ForgetsClosed, ShownOpen, Stopping
  <2>5. OpenIsCurrent'
    BY <2>1, <2>2, <2>3 DEF OpenIsCurrent, Stopping, Relayed
  <2>6. Dialling'
    BY <1>1, <2>2 DEF Dialling
  <2> QED
    BY <2>4, <2>5, <2>6 DEF Goal
<1>8. ASSUME NEW t \in Start, ConnectFails(t) PROVE Goal
  <2>1. /\ tun[t] \in {"dial", "register"} /\ tun' = [tun EXCEPT ![t] = "undo"] /\ sock'[t] # "open"
        /\ \A u \in Start : u # t => sock'[u] = sock[u]
        /\ UNCHANGED <<relayClient, cliConn, closeCh, waitOn, closedCh, stp>>
    BY <1>8 DEF ConnectFails, Fails, Goto
  <2>2. \A u \in Start : sock'[u] # "open"
    BY <1>2, <2>1 DEF NotUpYet
  <2>3. Apart' /\ Dialling'
    BY <1>1, <2>1 DEF Apart, Dialling, Stopping, Starting
  <2> QED
    BY <2>2, <2>3 DEF Goal, OpenIsCurrent, ForgetsClosed, ShownOpen
<1>9. ASSUME NEW h \in Stop, StopArrives(h) PROVE Goal
  <2>1. /\ UNCHANGED <<tun, relayClient, cliConn, closeCh, sock, waitOn, closedCh, target, rl, running>>
        /\ stp[h] = "none" /\ stp' = [stp EXCEPT ![h] = "close"]
    BY <1>9 DEF StopArrives
  <2>2. \A t \in Start : tun[t] \notin Starting
    BY <1>9 DEF StopArrives
  <2>3. Apart' /\ Dialling' /\ ForgetsClosed' /\ ShownOpen'
    BY <1>1, <2>1, <2>2 DEF Apart, Dialling, ForgetsClosed, ShownOpen
  <2>4. OpenIsCurrent'
    BY <1>1, <2>1 DEF OpenIsCurrent, WillHang, OnConn, Comes
  <2> QED
    BY <2>3, <2>4 DEF Goal
<1>10. ASSUME NEW h \in Stop, StopNext(h)
       PROVE  /\ Apart' /\ Dialling'
              /\ UNCHANGED <<tun, cliConn, waitOn, rl>>
              /\ stp' = [stp EXCEPT ![h] = stp'[h]]
  <2>1. /\ stp[h] \notin {"none", "done", "panic"}
        /\ UNCHANGED <<tun, cliConn, waitOn, rl>> /\ stp' = [stp EXCEPT ![h] = stp'[h]]
    BY <1>10
    DEF StopNext, StopClose, StopRenew, StopLooks, StopHangup, StopSelects, StopCloses, StopHangs,
        StopForget, StopStatus
  <2>2. \A t \in Start : tun[t] \notin Starting
    BY <1>1, <2>1 DEF Apart, Stopping
  <2> QED
    BY <2>1, <2>2 DEF Apart, Dialling, Starting
<1>11. ASSUME NEW h \in Stop, StopNext(h), \A t \in Start : sock'[t] # "open" PROVE Goal
  BY <1>10, <1>11 DEF Goal, OpenIsCurrent, ForgetsClosed, ShownOpen
<1>12. ASSUME NEW h \in Stop, StopNext(h), NEW t \in Start, sock[t] = "open", sock' = sock
       PROVE  \A u \in Start : sock'[u] = "open" => u = t
  BY <1>1, <1>12 DEF OpenIsCurrent
<1>13. ASSUME NEW h \in Stop, StopNext(h), NEW t \in Start, sock[t] = "open",
              UNCHANGED <<sock, relayClient, running>>, closeCh'[t] # "nil",
              stp'[h] \notin {"forget", "status"},
              closedCh' = closedCh \/ WillHang(t)',
              WillHang(t) => WillHang(t)',
              closeCh'[t] = "closed" => OnConn(t)',
              \A k \in Stop : stp'[k] \in {"select", "closing", "conn"} => target'[k] = t
       PROVE  Goal
  <2>1. OpenIsCurrent'
    BY <1>1, <1>10, <1>12, <1>13 DEF OpenIsCurrent
  <2>2. ForgetsClosed' /\ ShownOpen'
    BY <1>1, <1>10, <1>13 DEF ForgetsClosed, ShownOpen
  <2> QED
    BY <1>10, <1>13, <2>1, <2>2 DEF Goal
<1>14. ASSUME NEW h \in Stop, StopNext(h), NEW t \in Start, sock[t] = "open" PROVE Goal
  <2>1. /\ relayClient = t /\ cliConn[t] = t /\ closeCh[t] \in {"open", "closed"}
        /\ closeCh[t] = "closed" => OnConn(t)
        /\ \A k \in Stop : /\ stp[k] \in {"select", "closing", "conn"} => target[k] = t
                           /\ stp[k] \notin {"forget", "status"}
    BY <1>1, <1>14 DEF OpenIsCurrent, ForgetsClosed
  <2>2. CASE StopClose(h)
    <3>1. /\ UNCHANGED <<sock, relayClient, running, closeCh, target, rl>>
          /\ closedCh' = closedCh \cup {stopCh}
          /\ stp[h] = "close" /\ stp'[h] \in {"renew", "panic"} /\ stp' = [stp EXCEPT ![h] = stp'[h]]
          /\ stopCh \notin closedCh => stp'[h] = "renew"
      BY <2>2 DEF StopClose
    <3>2. (WillHang(t) => WillHang(t)') /\ (OnConn(t) => OnConn(t)')
      BY <3>1 DEF WillHang, OnConn, Comes
    <3>3. closedCh' = closedCh \/ WillHang(t)'
      BY <3>1 DEF WillHang, Comes
    <3> QED
      BY <1>13, <1>14, <2>1, <3>1, <3>2, <3>3
  <2>3. CASE StopRenew(h) \/ StopLooks(h)
    <3>1. /\ UNCHANGED <<sock, relayClient, running, closeCh, target, rl, closedCh>>
          /\ stp[h] \in {"renew", "client"} /\ stp'[h] \in {"client", "hangup"}
          /\ stp' = [stp EXCEPT ![h] = stp'[h]]
      BY <2>1, <2>3 DEF StopRenew, StopLooks
    <3>2. (WillHang(t) => WillHang(t)') /\ (OnConn(t) => OnConn(t)')
      BY <3>1 DEF WillHang, OnConn, Comes
    <3> QED
      BY <1>13, <1>14, <2>1, <3>1, <3>2
  <2>4. CASE StopHangup(h)
    <3>1. /\ UNCHANGED <<sock, relayClient, running, closeCh, rl, closedCh>>
          /\ stp[h] = "hangup" /\ stp' = [stp EXCEPT ![h] = "select"]
          /\ target' = [target EXCEPT ![h] = t]
      BY <2>1, <2>4 DEF StopHangup
    <3>2. (WillHang(t) => WillHang(t)') /\ (OnConn(t) => OnConn(t)')
      BY <3>1 DEF WillHang, OnConn, Comes
    <3>3. \A k \in Stop : stp'[k] \in {"select", "closing", "conn"} => target'[k] = t
      BY <2>1, <3>1
    <3> QED
      BY <1>13, <1>14, <2>1, <3>1, <3>2, <3>3
  <2>5. CASE StopSelects(h)
    <3>1. /\ UNCHANGED <<sock, relayClient, running, closeCh, rl, closedCh, target>>
          /\ stp[h] = "select" /\ stp'[h] \in {"conn", "closing"}
          /\ stp' = [stp EXCEPT ![h] = stp'[h]] /\ target[h] = t
      BY <2>1, <2>5 DEF StopSelects
    <3>2. (WillHang(t) => WillHang(t)') /\ (OnConn(t) => OnConn(t)')
      BY <3>1 DEF WillHang, OnConn, Comes
    <3> QED
      BY <1>13, <1>14, <2>1, <3>1, <3>2
  <2>6. CASE StopCloses(h)
    <3>1. /\ UNCHANGED <<sock, relayClient, running, rl, closedCh, target>>
          /\ stp[h] = "closing" /\ stp'[h] \in {"conn", "panic"}
          /\ stp' = [stp EXCEPT ![h] = stp'[h]] /\ target[h] = t
          /\ closeCh'[t] = "closed" /\ (closeCh[t] = "open" => stp'[h] = "conn")
      BY <2>1, <2>6 DEF StopCloses
    <3>2. OnConn(t)'
      BY <2>1, <3>1 DEF OnConn
    <3>3. WillHang(t)'
      BY <3>2 DEF WillHang
    <3> QED
      BY <1>13, <1>14, <2>1, <3>1, <3>2, <3>3
  <2>7. CASE StopHangs(h)
    <3>1. sock' = [sock EXCEPT ![t] = "closed"]
      BY <2>1, <2>7 DEF StopHangs
    <3>2. \A u \in Start : sock'[u] # "open"
      BY <1>1, <2>1, <3>1 DEF OpenIsCurrent
    <3> QED
      BY <1>11, <1>14, <3>2
  <2>8. CASE StopForget(h) \/ StopStatus(h)
    BY <2>1, <2>8 DEF StopForget, StopStatus
  <2> QED
    BY <1>14, <2>2, <2>3, <2>4, <2>5, <2>6, <2>7, <2>8 DEF StopNext
<1>15. ASSUME NEW h \in Stop, StopNext(h) PROVE Goal
  <2>1. CASE \A t \in Start : sock[t] # "open"
    <3>1. \A t \in Start : sock'[t] # "open"
      BY <1>15, <2>1, StopsApart DEF StopHangs
    <3> QED
      BY <1>11, <1>15, <3>1
  <2> QED
    BY <1>14, <1>15, <2>1
<1>16. ASSUME NEW t \in Start, ReadLoopNext(t) PROVE Goal
  <2>1. /\ UNCHANGED <<tun, relayClient, cliConn, waitOn, closedCh, stp, target, running>>
        /\ rl[t] # "none" /\ rl' = [rl EXCEPT ![t] = rl'[t]]
    BY <1>16, LoopsApart
  <2>2. recv[t] = t /\ cliConn[t] = t /\ closeCh[t] # "nil"
    BY <1>1, <2>1 DEF OwnLoop
  <2>3. \A u \in Start : sock'[u] = "open" => sock[u] = "open"
    BY <1>16, <2>2, LoopsApart DEF ReadLoopHangs
  <2>4. rl[t] = "conn" => sock'[t] # "open"
    BY <1>16, <2>2
    DEF ReadLoopNext, ReadLoopEnds, ReadLoopSelects, ReadLoopCloses, ReadLoopHangs
  <2>5. closeCh' = closeCh \/ (closeCh' = [closeCh EXCEPT ![t] = "closed"] /\ rl'[t] = "conn")
    BY <1>16, <2>2, LoopsApart DEF ReadLoopCloses
  <2>6. \A u \in Start : sock'[u] = "open" =>
            (OnConn(u) => OnConn(u)') /\ (WillHang(u) => WillHang(u)')
    BY <2>1, <2>4 DEF WillHang, OnConn, Comes
  <2>7. \A u \in Start : closeCh'[u] = "closed" => closeCh[u] = "closed" \/ OnConn(u)'
    BY <2>1, <2>5 DEF OnConn
  <2>8. \A u \in Start : closeCh[u] # "nil" => closeCh'[u] # "nil"
    BY <2>5
  <2>9. OpenIsCurrent'
    BY <1>1, <2>1, <2>3, <2>6, <2>7, <2>8 DEF OpenIsCurrent
  <2>10. Apart' /\ Dialling' /\ ForgetsClosed' /\ ShownOpen'
    BY <1>1, <2>1, <2>3 DEF Apart, Dialling, ForgetsClosed, ShownOpen, Stopping
  <2> QED
    BY <2>9, <2>10 DEF Goal
<1>17. CASE UNCHANGED vars
  BY <1>1, <1>17
  DEF vars, Goal, Apart, Dialling, OpenIsCurrent, ForgetsClosed, ShownOpen, Stopping, WillHang,
      OnConn, Comes
<1> QED
  BY <1>3, <1>4, <1>5, <1>6, <1>7, <1>8, <1>9, <1>15, <1>16, <1>17
  DEF Next, TunnelNext, Moves

(* A relay tunnel keeps its connection until a stop has closed the channel  *)
(* it waits on, unless the connection ends by itself.                       *)
LEMMA KeptStep ==
    TypeOK /\ AloneInv /\ LoopInv /\ QuietInv /\ NoMissedStop /\ KeptInv /\ [Next]_vars => KeptInv'
<1> DEFINE Goal == PastClose' /\ Kept'
<1> SUFFICES ASSUME TypeOK, AloneInv, LoopInv, QuietInv, NoMissedStop, KeptInv, [Next]_vars,
                    ~overlap', ~interrupted'
             PROVE  Goal
  BY DEF KeptInv
<1>1. /\ ~overlap /\ ~interrupted /\ OneTunnel /\ OwnClient /\ OwnLoop /\ HangsClosed /\ Unbroken
      /\ Apart /\ PastClose /\ Kept /\ (broke => broke')
  BY FlagsStay DEF AloneInv, LoopInv, QuietInv, KeptInv
<1> HIDE DEF Goal
<1> USE GuiAssumption DEF TypeOK, statVars, stopVars, cliVars, mapVars, tunVars, handVars, loopVars
<1>2. ASSUME NEW t \in Start,
             UNCHANGED <<closedCh, stp, sock, closeCh>>,
             \A u \in Start : u # t => tun'[u] = tun[u] /\ waitOn'[u] = waitOn[u],
             tun'[t] = "wait" => tun[t] = "up" \/ (tun[t] = "wait" /\ waitOn'[t] = waitOn[t]),
             Keeps(t)' => Keeps(t)
      PROVE  Goal
  <2>1. Kept'
    BY <1>1, <1>2 DEF Kept, Keeps
  <2>2. tun[t] = "up" => ~Stopping
    BY <1>1, <1>2 DEF Apart, Starting
  <2>3. PastClose'
    BY <1>1, <1>2, <2>2 DEF PastClose, Stopping
  <2> QED
    BY <2>1, <2>3 DEF Goal
<1>3. ASSUME NEW t \in Start,
             \/ CheckRunning(t) \/ Spawn(t) \/ Discover(t) \/ UpnpFails(t) \/ StartKeepalive(t)
             \/ KeepaliveEnds(t) \/ StunFails(t)
      PROVE  Goal
  <2>1. /\ UNCHANGED <<closedCh, stp, sock, closeCh>>
        /\ \A u \in Start : u # t => tun'[u] = tun[u] /\ waitOn'[u] = waitOn[u]
        /\ tun'[t] \notin {"wait", "register", "registered", "up"}
    BY <1>3 DEF CheckRunning, Spawn, Discover, UpnpFails, StartKeepalive, KeepaliveEnds, StunFails, Goto
  <2> QED
    BY <1>2, <2>1 DEF Keeps
<1>4. ASSUME NEW t \in Start,
             UpnpUp(t) \/ StunUp(t) \/ NoRelay(t) \/ NewClient(t) \/ CallConnect(t) \/ Undo(t)
      PROVE  Goal
  <2>1. /\ UNCHANGED <<closedCh, stp, sock, closeCh>>
        /\ \A u \in Start : u # t => tun'[u] = tun[u] /\ waitOn'[u] = waitOn[u]
        /\ tun'[t] \notin {"wait", "register", "registered", "up"}
    BY <1>4 DEF UpnpUp, StunUp, NoRelay, Fails, NewClient, CallConnect, Undo, Goto
  <2> QED
    BY <1>2, <2>1 DEF Keeps
<1>5. ASSUME NEW t \in Start, NEW m \in Mapping, AddMapping(t, m) \/ MappingReplyLost(t, m) PROVE Goal
  <2>1. /\ UNCHANGED <<closedCh, stp, sock, closeCh>>
        /\ \A u \in Start : u # t => tun'[u] = tun[u] /\ waitOn'[u] = waitOn[u]
        /\ tun'[t] \notin {"wait", "register", "registered", "up"}
    BY <1>5 DEF AddMapping, MappingReplyLost, Goto
  <2> QED
    BY <1>2, <2>1 DEF Keeps
<1>6. ASSUME NEW t \in Start, Registered(t) \/ RelayUp(t) \/ Wait(t) \/ Woken(t) PROVE Goal
  <2>1. /\ UNCHANGED <<closedCh, stp, sock, closeCh>>
        /\ \A u \in Start : u # t => tun'[u] = tun[u] /\ waitOn'[u] = waitOn[u]
        /\ tun'[t] = "wait" => tun[t] = "up"
        /\ Keeps(t)' => Keeps(t)
    BY <1>6 DEF Registered, RelayUp, Wait, Woken, Goto, Keeps
  <2> QED
    BY <1>2, <2>1
<1>7. ASSUME ~crashed, NEW t \in Start, Dial(t) PROVE Goal
  <2>1. recv[t] = t /\ tun[t] = "dial"
    BY <1>1, <1>7 DEF Dial, OwnClient
  <2>2. /\ tun' = [tun EXCEPT ![t] = "register"] /\ closeCh' = [closeCh EXCEPT ![t] = "open"]
        /\ sock' = [sock EXCEPT ![t] = "open"] /\ UNCHANGED <<waitOn, closedCh, stp>>
    BY <1>7, <2>1 DEF Dial, Goto
  <2>3. Kept'
    BY <1>1, <2>2 DEF Kept, Keeps
  <2>4. PastClose'
    BY <1>1, <2>1, <2>2 DEF PastClose
  <2> QED
    BY <2>3, <2>4 DEF Goal
<1>8. ASSUME NEW t \in Start, ConnectFails(t) PROVE Goal
  <2>1. /\ tun' = [tun EXCEPT ![t] = "undo"] /\ \A u \in Start : u # t => sock'[u] = sock[u]
        /\ UNCHANGED <<waitOn, closedCh, stp, closeCh>>
    BY <1>8 DEF ConnectFails, Fails, Goto
  <2>2. Kept'
    BY <1>1, <2>1 DEF Kept, Keeps
  <2>3. PastClose'
    BY <1>1, <2>1 DEF PastClose
  <2> QED
    BY <2>2, <2>3 DEF Goal
<1>9. ASSUME NEW h \in Stop, StopArrives(h) \/ StopClose(h) PROVE Goal
  <2>1. /\ UNCHANGED <<tun, waitOn, stopCh, sock, closeCh>>
        /\ closedCh \subseteq closedCh' /\ stp' = [stp EXCEPT ![h] = stp'[h]]
        /\ stp'[h] \in {"close", "renew", "panic"}
        /\ stp'[h] = "renew" => closedCh' = closedCh \cup {stopCh}
    BY <1>9 DEF StopArrives, StopClose
  <2>2. Kept'
    BY <1>1, <2>1, StopsApart, <1>9 DEF Kept, Keeps, StopNext
  <2>3. stp'[h] = "renew" => \A t \in Start : tun[t] = "wait" => waitOn[t] \in closedCh'
    BY <2>1 DEF NoMissedStop
  <2>4. PastClose'
    BY <1>1, <2>1, <2>3 DEF PastClose
  <2> QED
    BY <2>2, <2>4 DEF Goal
<1>10. ASSUME NEW h \in Stop,
              \/ StopRenew(h) \/ StopLooks(h) \/ StopHangup(h) \/ StopSelects(h)
              \/ StopCloses(h) \/ StopHangs(h) \/ StopForget(h) \/ StopStatus(h)
       PROVE  Goal
  <2>1. /\ stp[h] \in {"renew", "client", "hangup", "select", "closing", "conn", "forget", "status"}
        /\ UNCHANGED <<tun, waitOn, closedCh>> /\ stp' = [stp EXCEPT ![h] = stp'[h]]
    BY <1>10 DEF StopRenew, StopLooks, StopHangup, StopSelects, StopCloses, StopHangs, StopForget,
                 StopStatus
  <2>2. \A t \in Start : tun[t] = "wait" => waitOn[t] \in closedCh
    BY <1>1, <2>1 DEF PastClose
  <2>3. \A t \in Start : ~Keeps(t)
    BY <1>1, <2>1, <2>2 DEF Apart, Stopping, Starting, Keeps
  <2>4. Kept'
    BY <2>1, <2>3 DEF Kept, Keeps
  <2>5. PastClose'
    BY <2>1, <2>2 DEF PastClose
  <2> QED
    BY <2>4, <2>5 DEF Goal
<1>11. ASSUME NEW t \in Start, ReadLoopNext(t) PROVE Goal
  <2>1. /\ UNCHANGED <<tun, waitOn, closedCh, stp>> /\ rl[t] # "none"
    BY <1>11, LoopsApart
  <2>2. PastClose'
    BY <1>1, <2>1 DEF PastClose
  <2>3. recv[t] = t /\ cliConn[t] = t
    BY <1>1, <2>1 DEF OwnLoop
  <2>4. ASSUME ~broke PROVE closeCh' = closeCh
    BY <1>1, <1>11, <2>4, LoopsApart DEF ReadLoopCloses, Unbroken
  <2>5. sock' = sock \/ (closeCh[t] = "closed" /\ sock' = [sock EXCEPT ![t] = "closed"])
    BY <1>1, <1>11, <2>3, LoopsApart DEF ReadLoopHangs, HangsClosed
  <2>6. Kept'
    BY <1>1, <2>1, <2>4, <2>5 DEF Kept, Keeps
  <2> QED
    BY <2>2, <2>6 DEF Goal
<1>12. CASE UNCHANGED vars
  BY <1>1, <1>12 DEF vars, Goal, PastClose, Kept, Keeps
<1> QED
  BY <1>3, <1>4, <1>5, <1>6, <1>7, <1>8, <1>9, <1>10, <1>11, <1>12
  DEF Next, TunnelNext, StopNext

(* What the last two theorems need holds at first, and steps keep it.       *)
LEMMA GuiInvHolds ==
    Spec => [](TypeOK /\ AloneInv /\ LoopInv /\ ClosedIsRenewed /\ ShownInv /\ QuietInv /\ KeptInv)
<1>1. Init => AloneInv /\ LoopInv /\ ClosedIsRenewed /\ ShownInv
  BY DEF Init, AloneInv, OneTunnel, SetLast, OwnClient, Idle, NotUpYet, Relayed, Undialled,
         LoopInv, OwnLoop, Chosen, HangsClosed, ShutIsClosed, Unbroken, ClosedIsRenewed, ShownInv
<1>2. Init => QuietInv /\ KeptInv
  BY DEF Init, QuietInv, Apart, Dialling, OpenIsCurrent, ForgetsClosed, ShownOpen, Starting,
         KeptInv, PastClose, Kept, Keeps
<1> QED
  BY <1>1, <1>2, TypeCorrect, NoMissedStopHolds, AloneStep, LoopStep, ClosedStep, ShownStep,
     QuietStep, KeptStep, PTL DEF Spec

(* As long as starts wait for earlier requests to be over and no relay      *)
(* connection ends by itself, appStatus.Running never claims a tunnel whose *)
(* goroutine has returned: a stop request that ends a tunnel gets to        *)
(* SetStopped, or is overtaken in Client.Close by one that does, whatever   *)
(* happens to relayClient meanwhile.  If no stop came before a start was    *)
(* through, a tunnel by relay that is shown also has its connection.        *)
THEOREM ShownRunningIsServedHolds == Spec => []ShownRunningIsServed
<1>1. TypeOK /\ ShownInv /\ KeptInv => ShownRunningIsServed
  <2> SUFFICES ASSUME TypeOK, ShownInv, KeptInv, running, ~overlap, ~broke, ~Stopping
               PROVE  \E t \in Alive : \/ interrupted
                                       \/ tun[t] \in {"keepalive", "direct+keepalive", "direct"}
                                       \/ sock[t] = "open"
    BY DEF ShownRunningIsServed
  <2>1. PICK t \in Start : Serves(t)
    BY DEF ShownInv, Resets, Stopping
  <2>2. t \in Alive
    BY <2>1 DEF Serves, Alive
  <2>3. \/ interrupted \/ tun[t] \in {"keepalive", "direct+keepalive", "direct"}
        \/ sock[t] = "open"
    BY <2>1 DEF Serves, KeptInv, Kept, Keeps
  <2> QED
    BY <2>2, <2>3
<1> QED
  BY <1>1, GuiInvHolds, PTL

(* When starts wait for earlier requests and stops for a start to be        *)
(* through, a tunnel that was stopped has lost its connection to the relay  *)
(* server, or its readLoop is about to close it, however many stops race    *)
(* through Client.Close and relayClient = nil.                              *)
THEOREM StopDisconnectsHolds == Spec => []StopDisconnects
<1>1. QuietInv => StopDisconnects
  BY DEF QuietInv, OpenIsCurrent, WillHang, OnConn, Comes, StopDisconnects, Stopping
<1> QED
  BY <1>1, GuiInvHolds, PTL
=============================================================================
