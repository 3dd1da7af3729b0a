------------------------ MODULE ServerChannelsProofs ------------------------
(***************************************************************************)
(* Proofs about ServerChannels for any finite set of channel ids and       *)
(* services, any remote addresses and any limits.                          *)
(***************************************************************************)
EXTENDS ServerChannels, FiniteSetTheorems, TLAPS

USE DEF accVars, chanVars, loopVars, sessVars, rdVars, linkVars, ckVars,
        slotVars, idVars, tcpVars, udpVars, bookVars, offTcp, offUdp, offRd,
        offCk, vars, CloseExt, DropSession

-----------------------------------------------------------------------------
(* Type correctness.                                                        *)

\* The client just registered is well typed.
LEMMA InitType == Init => TypeOK
<1> SUFFICES ASSUME Init PROVE TypeOK
  OBVIOUS
<1> USE DEF Init, AccStates, AccBusy, PipeStates, UdpStates, RdStates, CkStates
<1>1. /\ accPc \in [TcpSvc -> AccStates]
      /\ accCh \in [TcpSvc -> Chan \cup {NoChan}]
      /\ \A s \in TcpSvc : accPc[s] = "accept"
      /\ ext \in [Chan -> {"none", "open", "closed"}]
      /\ pipe \in [Chan -> PipeStates]
  OBVIOUS
<1>2. /\ udpPc \in [UdpSvc -> UdpStates]
      /\ udpAddr \in [UdpSvc -> Addr \cup {NoAddr}]
      /\ udpCh \in [UdpSvc -> Chan \cup {NoChan}]
      /\ \A u \in UdpSvc : udpPc[u] = "read"
      /\ sess \in [Addr -> Chan \cup {NoChan}]
      /\ owner \in [Chan -> UdpSvc \cup {NoChan}]
  OBVIOUS
<1>3. stop \in BOOLEAN /\ registered \in BOOLEAN /\ sessNil \in BOOLEAN
  BY Zenon
<1> QED
  BY <1>1, <1>2, <1>3 DEF TypeOK

\* No step of any goroutine leaves the types.
LEMMA NextType == TypeOK /\ [Next]_vars => TypeOK'
<1> SUFFICES ASSUME TypeOK, [Next]_vars PROVE TypeOK'
  OBVIOUS
<1> USE ConstAssumption DEF TypeOK, AccStates, AccBusy, PipeStates, UdpStates,
        RdStates, CkStates
<1>1. ASSUME NEW s \in TcpSvc, TcpAccept(s) PROVE TypeOK'
  BY <1>1 DEF TcpAccept, GlobalAdmits, GlobalRefuses, AcceptHead
<1>2. ASSUME NEW s \in TcpSvc, TcpRefuse(s) PROVE TypeOK'
  BY <1>2 DEF TcpRefuse, AcceptHead
<1>3. ASSUME NEW s \in TcpSvc, TcpAdmit(s) PROVE TypeOK'
  BY <1>3 DEF TcpAdmit, ClientTake
<1>4. ASSUME NEW s \in TcpSvc, TcpInsert(s) PROVE TypeOK'
  BY <1>4 DEF TcpInsert
<1>5. ASSUME NEW s \in TcpSvc, TcpOpenRefused(s) PROVE TypeOK'
  BY <1>5 DEF TcpOpenRefused, Release, GlobalRelease, ClientRelease
<1>6. ASSUME NEW s \in TcpSvc, TcpOpenAllowed(s) PROVE TypeOK'
  BY <1>6 DEF TcpOpenAllowed
<1>7. ASSUME NEW s \in TcpSvc, TcpAnnounce(s) PROVE TypeOK'
  BY <1>7 DEF TcpAnnounce, AcceptHead, WriteOk
<1>8. ASSUME NEW s \in TcpSvc, TcpAnnounceFails(s) PROVE TypeOK'
  BY <1>8 DEF TcpAnnounceFails, WriteFail
<1>9. ASSUME NEW s \in TcpSvc, TcpUndo(s) PROVE TypeOK'
  BY <1>9 DEF TcpUndo, Release, GlobalRelease, ClientRelease
<1>10. ASSUME NEW s \in TcpSvc, TcpClosing(s) PROVE TypeOK'
  BY <1>10 DEF TcpClosing
<1>11. ASSUME NEW s \in TcpSvc, TcpAcceptFails(s) PROVE TypeOK'
  BY <1>11 DEF TcpAcceptFails
<1>12. ASSUME NEW c \in Chan, ExtGone(c) PROVE TypeOK'
  BY <1>12 DEF ExtGone
<1>13. ASSUME NEW c \in Chan, PipeEnds(c) PROVE TypeOK'
  BY <1>13 DEF PipeEnds, WriteFail
<1>14. ASSUME NEW c \in Chan, PipeForget(c) PROVE TypeOK'
  BY <1>14 DEF PipeForget
<1>15. ASSUME NEW c \in Chan, PipeRelease(c) PROVE TypeOK'
  BY <1>15 DEF PipeRelease, Release, GlobalRelease, ClientRelease
<1>16. ASSUME NEW c \in Chan, ReadClose(c) PROVE TypeOK'
  BY <1>16 DEF ReadClose
<1>17. ASSUME NEW c \in Chan, CheckNext(c) PROVE TypeOK'
  BY <1>17 DEF CheckNext
<1>18. ASSUME NEW u \in UdpSvc, NEW a \in Addr, UdpDatagram(u, a) PROVE TypeOK'
  BY <1>18 DEF UdpDatagram, GlobalAdmits, GlobalRefuses, UdpHead
<1>19. ASSUME NEW u \in UdpSvc, UdpIdle(u) PROVE TypeOK'
  BY <1>19 DEF UdpIdle
<1>20. ASSUME NEW u \in UdpSvc, UdpKnown(u) PROVE TypeOK'
  BY <1>20 DEF UdpKnown
<1>21. ASSUME NEW u \in UdpSvc, UdpFull(u) PROVE TypeOK'
  BY <1>21 DEF UdpFull, UdpHead, ClientFull
<1>22. ASSUME NEW u \in UdpSvc, UdpOpen(u) PROVE TypeOK'
  BY <1>22 DEF UdpOpen, ClientTake, WriteOk, WriteFail
<1>23. ASSUME NEW u \in UdpSvc, UdpOpenRefused(u) PROVE TypeOK'
  BY <1>23 DEF UdpOpenRefused, UdpHead, ClientFull
<1>24. ASSUME NEW u \in UdpSvc, UdpNilMap(u) PROVE TypeOK'
  BY <1>24 DEF UdpNilMap, ClientFull
<1>25. ASSUME NEW u \in UdpSvc, UdpWrite(u) PROVE TypeOK'
  BY <1>25 DEF UdpWrite, UdpHead, WriteOk, WriteFail
<1>26. ASSUME NEW a \in Addr, UdpCleanup(a) PROVE TypeOK'
  BY <1>26 DEF UdpCleanup, Release, GlobalRelease, ClientRelease
<1>27. ASSUME ReadReleaseTcp PROVE TypeOK'
  BY <1>27 DEF ReadReleaseTcp, Release, GlobalRelease, ClientRelease
<1>28. ASSUME ReadCloseUdp PROVE TypeOK'
  BY <1>28 DEF ReadCloseUdp, SessChans
<1>29. ASSUME ReadReleaseUdp PROVE TypeOK'
  BY <1>29 DEF ReadReleaseUdp, Release, GlobalRelease, ClientRelease
<1>30. ASSUME LinkBreaks PROVE TypeOK'
  BY <1>30 DEF LinkBreaks
<1>31. ASSUME Teardown PROVE TypeOK'
  BY <1>31 DEF Teardown
<1>32. ASSUME TeardownTcp PROVE TypeOK'
  BY <1>32 DEF TeardownTcp
<1>33. ASSUME TeardownUdp PROVE TypeOK'
  BY <1>33 DEF TeardownUdp
<1>34. ASSUME TeardownClients PROVE TypeOK'
  BY <1>34 DEF TeardownClients
<1>35. ASSUME Check PROVE TypeOK'
  BY <1>35 DEF Check
<1>36. ASSUME CheckTcp PROVE TypeOK'
  BY <1>36 DEF CheckTcp
<1>37. ASSUME CheckUdp PROVE TypeOK'
  BY <1>37 DEF CheckUdp, SessChans
<1>38. ASSUME CheckRelease PROVE TypeOK'
  BY <1>38 DEF CheckRelease, GlobalRelease
<1>39. CASE UNCHANGED vars
  BY <1>39
<1>40. ASSUME NEW c \in Chan, ReadData(c) PROVE TypeOK'
  BY <1>40 DEF ReadData
<1>41. ASSUME ReadWritten \/ ReadDatagram PROVE TypeOK'
  BY <1>41 DEF ReadWritten, ReadDatagram
<1> QED
  BY <1>1, <1>2, <1>3, <1>4, <1>5, <1>6, <1>7, <1>8, <1>9, <1>10, <1>11, <1>12, <1>13, <1>14, <1>15, <1>16, <1>17, <1>18, <1>19, <1>20, <1>21, <1>22, <1>23, <1>24, <1>25, <1>26, <1>27, <1>28, <1>29, <1>30, <1>31, <1>32, <1>33, <1>34, <1>35, <1>36, <1>37, <1>38, <1>39, <1>40, <1>41
  DEF Next, TcpNext, PipeNext, UdpNext, ReaderNext, CheckerNext

(* Every variable keeps its type; an acceptor that holds a connection holds  *)
(* its channel id, a loop that holds a datagram its sender.                  *)
THEOREM TypeCorrect == Spec => []TypeOK
  BY InitType, NextType, PTL DEF Spec

-----------------------------------------------------------------------------
(* Ownership: at most one goroutine may give a slot back.                   *)

\* At the start nothing is owned.
LEMMA InitOwnership == Init => Ownership
  BY ConstAssumption DEF Init, Ownership, Busy, AccBusy

\* Who may give a slot back changes hands, and never has two owners.
LEMMA NextOwnership == TypeOK /\ Ownership /\ [Next]_vars => Ownership'
<1> SUFFICES ASSUME TypeOK, Ownership, [Next]_vars PROVE Ownership'
  OBVIOUS
<1> USE ConstAssumption DEF TypeOK, Ownership, Busy, AccStates, AccBusy, PipeStates,
        UdpStates, RdStates, CkStates
<1>1. ASSUME NEW s \in TcpSvc, TcpAccept(s) PROVE Ownership'
  BY <1>1 DEF TcpAccept, GlobalAdmits, GlobalRefuses, AcceptHead
<1>2. ASSUME NEW s \in TcpSvc, TcpRefuse(s) PROVE Ownership'
  BY <1>2 DEF TcpRefuse, AcceptHead
<1>3. ASSUME NEW s \in TcpSvc, TcpAdmit(s) PROVE Ownership'
  BY <1>3 DEF TcpAdmit, ClientTake
<1>4. ASSUME NEW s \in TcpSvc, TcpInsert(s) PROVE Ownership'
  BY <1>4 DEF TcpInsert
<1>5. ASSUME NEW s \in TcpSvc, TcpOpenRefused(s) PROVE Ownership'
  BY <1>5 DEF TcpOpenRefused, Release, GlobalRelease, ClientRelease
<1>6. ASSUME NEW s \in TcpSvc, TcpOpenAllowed(s) PROVE Ownership'
  BY <1>6 DEF TcpOpenAllowed
<1>7. ASSUME NEW s \in TcpSvc, TcpAnnounce(s) PROVE Ownership'
  BY <1>7 DEF TcpAnnounce, AcceptHead, WriteOk
<1>8. ASSUME NEW s \in TcpSvc, TcpAnnounceFails(s) PROVE Ownership'
  BY <1>8 DEF TcpAnnounceFails, WriteFail
<1>9. ASSUME NEW s \in TcpSvc, TcpUndo(s) PROVE Ownership'
  BY <1>9 DEF TcpUndo, Release, GlobalRelease, ClientRelease
<1>10. ASSUME NEW s \in TcpSvc, TcpClosing(s) PROVE Ownership'
  BY <1>10 DEF TcpClosing
<1>11. ASSUME NEW s \in TcpSvc, TcpAcceptFails(s) PROVE Ownership'
  BY <1>11 DEF TcpAcceptFails
<1>12. ASSUME NEW c \in Chan, ExtGone(c) PROVE Ownership'
  BY <1>12 DEF ExtGone
<1>13. ASSUME NEW c \in Chan, PipeEnds(c) PROVE Ownership'
  BY <1>13 DEF PipeEnds, WriteFail
<1>14. ASSUME NEW c \in Chan, PipeForget(c) PROVE Ownership'
  BY <1>14 DEF PipeForget
<1>15. ASSUME NEW c \in Chan, PipeRelease(c) PROVE Ownership'
  BY <1>15 DEF PipeRelease, Release, GlobalRelease, ClientRelease
<1>16. ASSUME NEW c \in Chan, ReadClose(c) PROVE Ownership'
  BY <1>16 DEF ReadClose
<1>17. ASSUME NEW c \in Chan, CheckNext(c) PROVE Ownership'
  BY <1>17 DEF CheckNext
<1>18. ASSUME NEW u \in UdpSvc, NEW a \in Addr, UdpDatagram(u, a) PROVE Ownership'
  BY <1>18 DEF UdpDatagram, GlobalAdmits, GlobalRefuses, UdpHead
<1>19. ASSUME NEW u \in UdpSvc, UdpIdle(u) PROVE Ownership'
  BY <1>19 DEF UdpIdle
<1>20. ASSUME NEW u \in UdpSvc, UdpKnown(u) PROVE Ownership'
  BY <1>20 DEF UdpKnown
<1>21. ASSUME NEW u \in UdpSvc, UdpFull(u) PROVE Ownership'
  BY <1>21 DEF UdpFull, UdpHead, ClientFull
<1>22. ASSUME NEW u \in UdpSvc, UdpOpen(u) PROVE Ownership'
  BY <1>22 DEF UdpOpen, ClientTake, WriteOk, WriteFail
<1>23. ASSUME NEW u \in UdpSvc, UdpOpenRefused(u) PROVE Ownership'
  BY <1>23 DEF UdpOpenRefused, UdpHead, ClientFull
<1>24. ASSUME NEW u \in UdpSvc, UdpNilMap(u) PROVE Ownership'
  BY <1>24 DEF UdpNilMap, ClientFull
<1>25. ASSUME NEW u \in UdpSvc, UdpWrite(u) PROVE Ownership'
  BY <1>25 DEF UdpWrite, UdpHead, WriteOk, WriteFail
<1>26. ASSUME NEW a \in Addr, UdpCleanup(a) PROVE Ownership'
  BY <1>26 DEF UdpCleanup, Release, GlobalRelease, ClientRelease
<1>27. ASSUME ReadReleaseTcp PROVE Ownership'
  BY <1>27 DEF ReadReleaseTcp, Release, GlobalRelease, ClientRelease
<1>28. ASSUME ReadCloseUdp PROVE Ownership'
  BY <1>28 DEF ReadCloseUdp, SessChans
<1>29. ASSUME ReadReleaseUdp PROVE Ownership'
  BY <1>29 DEF ReadReleaseUdp, Release, GlobalRelease, ClientRelease
<1>30. ASSUME LinkBreaks PROVE Ownership'
  BY <1>30 DEF LinkBreaks
<1>31. ASSUME Teardown PROVE Ownership'
  BY <1>31 DEF Teardown
<1>32. ASSUME TeardownTcp PROVE Ownership'
  BY <1>32 DEF TeardownTcp
<1>33. ASSUME TeardownUdp PROVE Ownership'
  BY <1>33 DEF TeardownUdp
<1>34. ASSUME TeardownClients PROVE Ownership'
  BY <1>34 DEF TeardownClients
<1>35. ASSUME Check PROVE Ownership'
  BY <1>35 DEF Check
<1>36. ASSUME CheckTcp PROVE Ownership'
  BY <1>36 DEF CheckTcp
<1>37. ASSUME CheckUdp PROVE Ownership'
  BY <1>37 DEF CheckUdp, SessChans
<1>38. ASSUME CheckRelease PROVE Ownership'
  BY <1>38 DEF CheckRelease, GlobalRelease
<1>39. CASE UNCHANGED vars
  BY <1>39
<1>40. ASSUME NEW c \in Chan, ReadData(c) PROVE Ownership'
  BY <1>40 DEF ReadData
<1>41. ASSUME ReadWritten \/ ReadDatagram PROVE Ownership'
  BY <1>41 DEF ReadWritten, ReadDatagram
<1> QED
  BY <1>1, <1>2, <1>3, <1>4, <1>5, <1>6, <1>7, <1>8, <1>9, <1>10, <1>11, <1>12, <1>13, <1>14, <1>15, <1>16, <1>17, <1>18, <1>19, <1>20, <1>21, <1>22, <1>23, <1>24, <1>25, <1>26, <1>27, <1>28, <1>29, <1>30, <1>31, <1>32, <1>33, <1>34, <1>35, <1>36, <1>37, <1>38, <1>39, <1>40, <1>41
  DEF Next, TcpNext, PipeNext, UdpNext, ReaderNext, CheckerNext

-----------------------------------------------------------------------------
(* The client's limiter counts the channels that owe a release.             *)

\* A slot taken for a new channel keeps counter and history together.
LEMMA TakeSlot ==
  ASSUME TypeOK, ClientSlots, NEW c \in Chan \ held, ClientTake(c)
  PROVE  ClientSlots'
<1>1. IsFiniteSet(held)
  BY ConstAssumption, FS_Subset DEF TypeOK
<1>2. Cardinality(held \cup {c}) = Cardinality(held) + 1
  BY <1>1, FS_AddElement
<1> QED
  BY <1>2, ConstAssumption DEF TypeOK, ClientSlots, ClientTake

\* So does a slot given back for a channel that holds one.
LEMMA GiveSlot ==
  ASSUME TypeOK, ClientSlots, NEW c \in held, ClientRelease(c)
  PROVE  ClientSlots'
<1>1. IsFiniteSet(held)
  BY ConstAssumption, FS_Subset DEF TypeOK
<1>2. Cardinality(held \ {c}) = Cardinality(held) - 1
  BY <1>1, FS_RemoveElement
<1> QED
  BY <1>2, ConstAssumption DEF TypeOK, ClientSlots, ClientRelease

\* And a step that touches neither.
LEMMA KeepSlots ==
  ASSUME ClientSlots, UNCHANGED <<current, held>>
  PROVE  ClientSlots'
  BY DEF ClientSlots

\* At the start the counter is zero and nothing is held.
LEMMA InitSlots == Init => ClientSlots
  BY FS_EmptySet, ConstAssumption DEF Init, ClientSlots

\* Every release is made by the owner of a slot: the counter stays exact.
LEMMA NextSlots == TypeOK /\ Ownership /\ ClientSlots /\ [Next]_vars => ClientSlots'
<1> SUFFICES ASSUME TypeOK, Ownership, ClientSlots, [Next]_vars PROVE ClientSlots'
  OBVIOUS
<1>1. ASSUME NEW s \in TcpSvc, TcpNext(s) PROVE ClientSlots'
  <2>1. CASE TcpAdmit(s)
    <3>1. PICK c \in Chan \ used : ClientTake(c)
      BY <2>1 DEF TcpAdmit
    <3>2. c \in Chan \ held
      BY DEF Ownership
    <3> QED
      BY <3>1, <3>2, TakeSlot
  <2>2. CASE TcpOpenRefused(s) \/ TcpUndo(s)
    <3>1. accCh[s] \in held /\ ClientRelease(accCh[s])
      BY <2>2 DEF TcpOpenRefused, TcpUndo, Release, Ownership, Busy, AccBusy
    <3> QED
      BY <3>1, GiveSlot
  <2>3. CASE ~(TcpAdmit(s) \/ TcpOpenRefused(s) \/ TcpUndo(s))
    <3>1. UNCHANGED <<current, held>>
      BY <1>1, <2>3 DEF TcpNext, TcpAccept, TcpRefuse, TcpInsert, TcpOpenAllowed,
         TcpAnnounce, TcpAnnounceFails, TcpClosing, TcpAcceptFails
    <3> QED
      BY <3>1, KeepSlots
  <2> QED
    BY <2>1, <2>2, <2>3
<1>2. ASSUME NEW c \in Chan, ExtGone(c) \/ PipeNext(c) PROVE ClientSlots'
  <2>1. CASE PipeRelease(c)
    <3>1. c \in held /\ ClientRelease(c)
      BY <2>1 DEF PipeRelease, Release, Ownership
    <3> QED
      BY <3>1, GiveSlot
  <2>2. CASE ExtGone(c) \/ PipeEnds(c) \/ PipeForget(c)
    <3>1. UNCHANGED <<current, held>>
      BY <2>2 DEF ExtGone, PipeEnds, PipeForget
    <3> QED
      BY <3>1, KeepSlots
  <2> QED
    BY <1>2, <2>1, <2>2 DEF PipeNext
<1>3. ASSUME NEW u \in UdpSvc, UdpNext(u) PROVE ClientSlots'
  <2>1. CASE UdpOpen(u)
    <3>1. PICK c \in Chan \ used : ClientTake(c)
      BY <2>1 DEF UdpOpen
    <3>2. c \in Chan \ held
      BY DEF Ownership
    <3> QED
      BY <3>1, <3>2, TakeSlot
  <2>2. CASE ~UdpOpen(u)
    <3>1. UNCHANGED <<current, held>>
      BY <1>3, <2>2 DEF UdpNext, UdpDatagram, UdpIdle, UdpKnown, UdpFull,
         UdpOpenRefused, UdpNilMap, UdpWrite
    <3> QED
      BY <3>1, KeepSlots
  <2> QED
    BY <2>1, <2>2
<1>4. ASSUME NEW a \in Addr, UdpCleanup(a) PROVE ClientSlots'
  <2>1. sess[a] \in held /\ ClientRelease(sess[a])
    BY <1>4 DEF UdpCleanup, Release, Ownership
  <2> QED
    BY <2>1, GiveSlot
<1>5. ASSUME ReaderNext PROVE ClientSlots'
  <2>1. CASE ReadReleaseTcp \/ ReadReleaseUdp
    <3>1. rdCh \in held /\ ClientRelease(rdCh)
      BY <2>1 DEF ReadReleaseTcp, ReadReleaseUdp, Release, Ownership
    <3> QED
      BY <3>1, GiveSlot
  <2>2. CASE ~(ReadReleaseTcp \/ ReadReleaseUdp)
    <3>1. UNCHANGED <<current, held>>
      BY <1>5, <2>2 DEF ReaderNext, ReadData, ReadWritten, ReadDatagram, ReadClose, ReadCloseUdp, Teardown,
         TeardownTcp, TeardownUdp, TeardownClients
    <3> QED
      BY <3>1, KeepSlots
  <2> QED
    BY <2>1, <2>2
<1>6. ASSUME CheckerNext \/ LinkBreaks \/ UNCHANGED vars PROVE ClientSlots'
  <2>1. UNCHANGED <<current, held>>
    BY <1>6 DEF CheckerNext, Check, CheckNext, CheckTcp, CheckUdp, CheckRelease,
       LinkBreaks
  <2> QED
    BY <2>1, KeepSlots
<1> QED
  BY <1>1, <1>2, <1>3, <1>4, <1>5, <1>6 DEF Next

\* The inductive invariant of the client limiter.
LEMMA SlotInvariant == Spec => []SlotInv
<1>1. Init => SlotInv
  BY InitType, InitOwnership, InitSlots DEF SlotInv
<1>2. SlotInv /\ [Next]_vars => SlotInv'
  BY NextType, NextOwnership, NextSlots DEF SlotInv
<1> QED
  BY <1>1, <1>2, PTL DEF Spec

(* Each admitted channel gives its client slot back at most once, whatever  *)
(* the interleaving: client.connLimiter.current is the number of channels   *)
(* that still owe a release and stays within 0 .. MaxConns.                 *)
THEOREM SlotAccountingHolds == Spec => []SlotAccounting
<1>1. SlotInv => SlotAccounting
  <2> SUFFICES ASSUME SlotInv, MaxConns > 0
               PROVE  current = Cardinality(held) /\ current \in 0 .. MaxConns
    BY DEF SlotAccounting
  <2>1. IsFiniteSet(held)
    BY ConstAssumption, FS_Subset DEF SlotInv, TypeOK
  <2>2. Cardinality(held) \in Nat
    BY <2>1, FS_CardinalityType
  <2> QED
    BY <2>2, ConstAssumption DEF SlotInv, ClientSlots
<1> QED
  BY <1>1, SlotInvariant, PTL

(* The client's -max-conns is never exceeded by the connections and         *)
(* sessions the server relays to it.                                        *)
THEOREM ClientLimitHolds == Spec => []ClientLimitEnforced
<1>1. SlotInv => ClientLimitEnforced
  <2> SUFFICES ASSUME SlotInv, MaxConns > 0
               PROVE  Cardinality(Relayed) =< MaxConns
    BY DEF ClientLimitEnforced
  <2>1. IsFiniteSet(held)
    BY ConstAssumption, FS_Subset DEF SlotInv, TypeOK
  <2>2. Relayed \subseteq held
    BY DEF SlotInv, TypeOK, Ownership, Relayed, SessChans
  <2>3. Cardinality(Relayed) =< Cardinality(held)
    BY <2>1, <2>2, FS_Subset
  <2>4. Cardinality(Relayed) \in Nat /\ Cardinality(held) \in Nat
    BY <2>1, <2>2, FS_Subset, FS_CardinalityType
  <2> QED
    BY <2>3, <2>4, ConstAssumption DEF SlotInv, ClientSlots
<1> QED
  BY <1>1, SlotInvariant, PTL

-----------------------------------------------------------------------------
(* A server without dynamic plugins loses no client slot.                   *)

\* Nothing is leaked at the start.
LEMMA InitNoPlugin == Init => NoPluginInv
  BY DEF Init, NoPluginInv, NoSlotLeak

\* Without plugins a channel leaves Owed only together with its slot.
LEMMA NextNoPlugin ==
  TypeOK /\ Ownership /\ NoPluginInv /\ [Next]_vars => NoPluginInv'
<1> SUFFICES ASSUME TypeOK, Ownership, NoPluginInv, ~DynPlugins, [Next]_vars
             PROVE  NoPluginInv'
  BY DEF NoPluginInv
<1> USE ConstAssumption DEF TypeOK, Ownership, Busy, NoPluginInv, NoSlotLeak, Owed,
        SessChans, AccStates, AccBusy, PipeStates, UdpStates, RdStates, CkStates
<1>1. ASSUME NEW s \in TcpSvc, TcpAccept(s) PROVE NoPluginInv'
  BY <1>1 DEF TcpAccept, GlobalAdmits, GlobalRefuses, AcceptHead
<1>2. ASSUME NEW s \in TcpSvc, TcpRefuse(s) PROVE NoPluginInv'
  BY <1>2 DEF TcpRefuse, AcceptHead
<1>3. ASSUME NEW s \in TcpSvc, TcpAdmit(s) PROVE NoPluginInv'
  BY <1>3 DEF TcpAdmit, ClientTake
<1>4. ASSUME NEW s \in TcpSvc, TcpInsert(s) PROVE NoPluginInv'
  BY <1>4 DEF TcpInsert
<1>5. ASSUME NEW s \in TcpSvc, TcpOpenRefused(s) PROVE NoPluginInv'
  BY <1>5 DEF TcpOpenRefused, Release, GlobalRelease, ClientRelease
<1>6. ASSUME NEW s \in TcpSvc, TcpOpenAllowed(s) PROVE NoPluginInv'
  BY <1>6 DEF TcpOpenAllowed
<1>7. ASSUME NEW s \in TcpSvc, TcpAnnounce(s) PROVE NoPluginInv'
  BY <1>7 DEF TcpAnnounce, AcceptHead, WriteOk
<1>8. ASSUME NEW s \in TcpSvc, TcpAnnounceFails(s) PROVE NoPluginInv'
  BY <1>8 DEF TcpAnnounceFails, WriteFail
<1>9. ASSUME NEW s \in TcpSvc, TcpUndo(s) PROVE NoPluginInv'
  BY <1>9 DEF TcpUndo, Release, GlobalRelease, ClientRelease
<1>10. ASSUME NEW s \in TcpSvc, TcpClosing(s) PROVE NoPluginInv'
  BY <1>10 DEF TcpClosing
<1>11. ASSUME NEW s \in TcpSvc, TcpAcceptFails(s) PROVE NoPluginInv'
  BY <1>11 DEF TcpAcceptFails
<1>12. ASSUME NEW c \in Chan, ExtGone(c) PROVE NoPluginInv'
  BY <1>12 DEF ExtGone
<1>13. ASSUME NEW c \in Chan, PipeEnds(c) PROVE NoPluginInv'
  BY <1>13 DEF PipeEnds, WriteFail
<1>14. ASSUME NEW c \in Chan, PipeForget(c) PROVE NoPluginInv'
  BY <1>14 DEF PipeForget
<1>15. ASSUME NEW c \in Chan, PipeRelease(c) PROVE NoPluginInv'
  BY <1>15 DEF PipeRelease, Release, GlobalRelease, ClientRelease
<1>16. ASSUME NEW c \in Chan, ReadClose(c) PROVE NoPluginInv'
  BY <1>16 DEF ReadClose
<1>17. ASSUME NEW c \in Chan, CheckNext(c) PROVE NoPluginInv'
  BY <1>17 DEF CheckNext
<1>18. ASSUME NEW u \in UdpSvc, NEW a \in Addr, UdpDatagram(u, a) PROVE NoPluginInv'
  BY <1>18 DEF UdpDatagram, GlobalAdmits, GlobalRefuses, UdpHead
<1>19. ASSUME NEW u \in UdpSvc, UdpIdle(u) PROVE NoPluginInv'
  BY <1>19 DEF UdpIdle
<1>20. ASSUME NEW u \in UdpSvc, UdpKnown(u) PROVE NoPluginInv'
  BY <1>20 DEF UdpKnown
<1>21. ASSUME NEW u \in UdpSvc, UdpFull(u) PROVE NoPluginInv'
  BY <1>21 DEF UdpFull, UdpHead, ClientFull
<1>22. ASSUME NEW u \in UdpSvc, UdpOpen(u) PROVE NoPluginInv'
  BY <1>22 DEF UdpOpen, ClientTake, WriteOk, WriteFail
<1>23. ASSUME NEW u \in UdpSvc, UdpOpenRefused(u) PROVE NoPluginInv'
  BY <1>23 DEF UdpOpenRefused, UdpHead, ClientFull
<1>24. ASSUME NEW u \in UdpSvc, UdpNilMap(u) PROVE NoPluginInv'
  BY <1>24 DEF UdpNilMap, ClientFull
<1>25. ASSUME NEW u \in UdpSvc, UdpWrite(u) PROVE NoPluginInv'
  BY <1>25 DEF UdpWrite, UdpHead, WriteOk, WriteFail
<1>26. ASSUME NEW a \in Addr, UdpCleanup(a) PROVE NoPluginInv'
  BY <1>26 DEF UdpCleanup, Release, GlobalRelease, ClientRelease
<1>27. ASSUME ReadReleaseTcp PROVE NoPluginInv'
  BY <1>27 DEF ReadReleaseTcp, Release, GlobalRelease, ClientRelease
<1>28. ASSUME ReadCloseUdp PROVE NoPluginInv'
  BY <1>28 DEF ReadCloseUdp, SessChans
<1>29. ASSUME ReadReleaseUdp PROVE NoPluginInv'
  BY <1>29 DEF ReadReleaseUdp, Release, GlobalRelease, ClientRelease
<1>30. ASSUME LinkBreaks PROVE NoPluginInv'
  BY <1>30 DEF LinkBreaks
<1>31. ASSUME Teardown PROVE NoPluginInv'
  BY <1>31 DEF Teardown
<1>32. ASSUME TeardownTcp PROVE NoPluginInv'
  BY <1>32 DEF TeardownTcp
<1>33. ASSUME TeardownUdp PROVE NoPluginInv'
  BY <1>33 DEF TeardownUdp
<1>34. ASSUME TeardownClients PROVE NoPluginInv'
  BY <1>34 DEF TeardownClients
<1>35. ASSUME Check PROVE NoPluginInv'
  BY <1>35 DEF Check
<1>36. ASSUME CheckTcp PROVE NoPluginInv'
  BY <1>36 DEF CheckTcp
<1>37. ASSUME CheckUdp PROVE NoPluginInv'
  BY <1>37 DEF CheckUdp, SessChans
<1>38. ASSUME CheckRelease PROVE NoPluginInv'
  BY <1>38 DEF CheckRelease, GlobalRelease
<1>39. CASE UNCHANGED vars
  BY <1>39
<1>40. ASSUME NEW c \in Chan, ReadData(c) PROVE NoPluginInv'
  BY <1>40 DEF ReadData
<1>41. ASSUME ReadWritten \/ ReadDatagram PROVE NoPluginInv'
  BY <1>41 DEF ReadWritten, ReadDatagram
<1> QED
  BY <1>1, <1>2, <1>3, <1>4, <1>5, <1>6, <1>7, <1>8, <1>9, <1>10, <1>11, <1>12, <1>13, <1>14, <1>15, <1>16, <1>17, <1>18, <1>19, <1>20, <1>21, <1>22, <1>23, <1>24, <1>25, <1>26, <1>27, <1>28, <1>29, <1>30, <1>31, <1>32, <1>33, <1>34, <1>35, <1>36, <1>37, <1>38, <1>39, <1>40, <1>41
  DEF Next, TcpNext, PipeNext, UdpNext, ReaderNext, CheckerNext

(* In a server without dynamic plugins each client slot taken while the     *)
(* client is connected belongs to a channel some goroutine still releases.  *)
THEOREM NoSlotLeakWithoutPlugins == Spec => [](~DynPlugins => NoSlotLeak)
<1>1. Init => NoPluginInv
  BY InitNoPlugin
<1>2. SlotInv /\ NoPluginInv /\ [Next]_vars => NoPluginInv'
  BY NextNoPlugin DEF SlotInv
<1>3. NoPluginInv => (~DynPlugins => NoSlotLeak)
  BY DEF NoPluginInv
<1> QED
  BY <1>1, <1>2, <1>3, SlotInvariant, PTL DEF Spec

-----------------------------------------------------------------------------
(* A server without dynamic plugins enforces its own limit.                 *)

\* Cardinalities are defined: what is held and what is pending is finite.
LEMMA FiniteBooks ==
  ASSUME TypeOK
  PROVE  /\ IsFiniteSet(held) /\ Cardinality(held) \in Nat
         /\ IsFiniteSet(Pending) /\ Cardinality(Pending) \in Nat
<1>1. IsFiniteSet(TcpSvc \cup UdpSvc)
  BY ConstAssumption, FS_Union
<1>2. Pending \subseteq TcpSvc \cup UdpSvc
  BY DEF Pending
<1>3. IsFiniteSet(held) /\ IsFiniteSet(Pending)
  BY <1>1, <1>2, ConstAssumption, FS_Subset DEF TypeOK
<1> QED
  BY <1>3, FS_CardinalityType

\* pluginMgr.OnAccept admitted one more; it may be pending now.
LEMMA GlobalAdded ==
  ASSUME TypeOK, GlobalSlots, GlobalAdmits, held' = held, NEW x,
         Pending' \subseteq Pending \cup {x}
  PROVE  GlobalSlots'
<1>1. /\ IsFiniteSet(Pending \cup {x})
      /\ Cardinality(Pending \cup {x}) =< Cardinality(Pending) + 1
  BY FiniteBooks, FS_AddElement
<1>2. IsFiniteSet(Pending') /\ Cardinality(Pending') =< Cardinality(Pending \cup {x})
  BY <1>1, FS_Subset
<1>3. Cardinality(Pending') \in Nat /\ Cardinality(Pending \cup {x}) \in Nat
  BY <1>1, <1>2, FS_CardinalityType
<1> QED
  BY <1>1, <1>2, <1>3, FiniteBooks, ConstAssumption DEF TypeOK, GlobalSlots, GlobalAdmits

\* An admission ended without a channel, or nothing happened to the books.
LEMMA GlobalDropped ==
  ASSUME TypeOK, GlobalSlots, gcur' = gcur, held' = held, Pending' \subseteq Pending
  PROVE  GlobalSlots'
<1>1. IsFiniteSet(Pending') /\ Cardinality(Pending') =< Cardinality(Pending)
  BY FiniteBooks, FS_Subset
<1>2. Cardinality(Pending') \in Nat
  BY <1>1, FS_CardinalityType
<1> QED
  BY <1>1, <1>2, FiniteBooks, ConstAssumption DEF TypeOK, GlobalSlots

\* A pending admission became a channel.
LEMMA GlobalMoved ==
  ASSUME TypeOK, GlobalSlots, gcur' = gcur, NEW c, c \notin held,
         held' = held \cup {c}, NEW x \in Pending, Pending' = Pending \ {x}
  PROVE  GlobalSlots'
<1>1. Cardinality(held') = Cardinality(held) + 1
  BY FiniteBooks, FS_AddElement
<1>2. Cardinality(Pending') = Cardinality(Pending) - 1
  BY FiniteBooks, FS_RemoveElement
<1> QED
  BY <1>1, <1>2, FiniteBooks, ConstAssumption DEF TypeOK, GlobalSlots

\* Both limiters were released for a channel that held its slots.
LEMMA GlobalGiven ==
  ASSUME TypeOK, GlobalSlots, NEW c \in held, Release(c), Pending' = Pending
  PROVE  GlobalSlots'
<1>1. Cardinality(held \ {c}) = Cardinality(held) - 1
  BY FiniteBooks, FS_RemoveElement
<1> QED
  BY <1>1, FiniteBooks, ConstAssumption
  DEF TypeOK, GlobalSlots, Release, GlobalRelease, ClientRelease

\* The server-wide counter starts at zero.
LEMMA InitGlobal == Init => GlobalSlots
<1> SUFFICES ASSUME Init PROVE GlobalSlots
  OBVIOUS
<1>1. held = {} /\ Pending = {}
  BY DEF Init, Pending
<1> QED
  BY <1>1, FS_EmptySet, ConstAssumption DEF Init, GlobalSlots

\* Without plugins the server-wide counter never falls below what it counts.
LEMMA NextGlobal ==
  SlotInv /\ NoPluginInv /\ GlobalSlots /\ [Next]_vars => GlobalSlots'
<1> SUFFICES ASSUME TypeOK, Ownership, NoPluginInv, GlobalSlots, ~DynPlugins,
                    [Next]_vars
             PROVE  GlobalSlots'
  BY DEF GlobalSlots, SlotInv
<1> USE ConstAssumption
<1>1. ASSUME NEW s \in TcpSvc, TcpNext(s) PROVE GlobalSlots'
  <2>1. CASE TcpAccept(s)
    <3>1. CASE GlobalAdmits /\ accPc' = [accPc EXCEPT ![s] = "admit"]
      <4>1. held' = held /\ Pending' \subseteq Pending \cup {s}
        BY <2>1, <3>1 DEF TcpAccept, Pending, TypeOK
      <4> QED
        BY <3>1, <4>1, GlobalAdded
    <3>2. CASE GlobalRefuses /\ accPc' = [accPc EXCEPT ![s] = AcceptHead]
      <4>1. gcur' = gcur /\ held' = held /\ Pending' \subseteq Pending
        BY <2>1, <3>2 DEF TcpAccept, GlobalRefuses, Pending, TypeOK, AcceptHead
      <4> QED
        BY <4>1, GlobalDropped
    <3> QED
      BY <2>1, <3>1, <3>2 DEF TcpAccept
  <2>2. CASE TcpAdmit(s)
    <3>1. PICK c \in Chan \ used : ClientTake(c)
      BY <2>2 DEF TcpAdmit
    <3>2. c \notin held /\ held' = held \cup {c} /\ gcur' = gcur
      BY <2>2, <3>1 DEF TcpAdmit, ClientTake, Ownership
    <3>3. s \in Pending /\ Pending' = Pending \ {s}
      BY <2>2 DEF TcpAdmit, Pending, TypeOK
    <3> QED
      BY <3>2, <3>3, GlobalMoved
  <2>3. CASE TcpUndo(s)
    <3>1. accCh[s] \in held /\ Release(accCh[s]) /\ Pending' = Pending
      BY <2>3 DEF TcpUndo, Ownership, Busy, AccBusy, Pending, TypeOK
    <3> QED
      BY <3>1, GlobalGiven
  <2>4. CASE TcpRefuse(s) \/ TcpInsert(s) \/ TcpOpenAllowed(s) \/ TcpAnnounce(s)
             \/ TcpAnnounceFails(s) \/ TcpClosing(s) \/ TcpAcceptFails(s)
    <3>1. gcur' = gcur /\ held' = held /\ Pending' \subseteq Pending
      BY <2>4 DEF TcpRefuse, TcpInsert, TcpOpenAllowed, TcpAnnounce, AcceptHead,
         TcpAnnounceFails, TcpClosing, TcpAcceptFails, Pending, TypeOK
    <3> QED
      BY <3>1, GlobalDropped
  <2> QED
    BY <1>1, <2>1, <2>2, <2>3, <2>4 DEF TcpNext, TcpOpenRefused
<1>2. ASSUME NEW c \in Chan, ExtGone(c) \/ PipeNext(c) PROVE GlobalSlots'
  <2>1. CASE PipeRelease(c)
    <3>1. c \in held /\ Release(c) /\ Pending' = Pending
      BY <2>1 DEF PipeRelease, Ownership, Pending
    <3> QED
      BY <3>1, GlobalGiven
  <2>2. CASE ExtGone(c) \/ PipeEnds(c) \/ PipeForget(c)
    <3>1. gcur' = gcur /\ held' = held /\ Pending' \subseteq Pending
      BY <2>2 DEF ExtGone, PipeEnds, PipeForget, Pending
    <3> QED
      BY <3>1, GlobalDropped
  <2> QED
    BY <1>2, <2>1, <2>2 DEF PipeNext
<1>3. ASSUME NEW u \in UdpSvc, UdpNext(u) PROVE GlobalSlots'
  <2>1. ASSUME NEW a \in Addr, UdpDatagram(u, a) PROVE GlobalSlots'
    <3>1. CASE GlobalAdmits
      <4>1. held' = held /\ Pending' \subseteq Pending \cup {u}
        BY <2>1 DEF UdpDatagram, UdpHead, Pending, TypeOK
      <4> QED
        BY <3>1, <4>1, GlobalAdded
    <3>2. CASE ~GlobalAdmits
      <4>1. gcur' = gcur /\ held' = held /\ Pending' \subseteq Pending
        BY <2>1, <3>2 DEF UdpDatagram, GlobalRefuses, UdpHead, Pending, TypeOK
      <4> QED
        BY <4>1, GlobalDropped
    <3> QED
      BY <3>1, <3>2
  <2>2. CASE UdpOpen(u)
    <3>1. PICK c \in Chan \ used : ClientTake(c)
      BY <2>2 DEF UdpOpen
    <3>2. c \notin held /\ held' = held \cup {c} /\ gcur' = gcur
      BY <2>2, <3>1 DEF UdpOpen, ClientTake, Ownership
    <3>3. u \in Pending /\ Pending' = Pending \ {u}
      BY <2>2 DEF UdpOpen, Pending, TypeOK
    <3> QED
      BY <3>2, <3>3, GlobalMoved
  <2>3. CASE UdpIdle(u) \/ UdpKnown(u) \/ UdpFull(u) \/ UdpNilMap(u) \/ UdpWrite(u)
    <3>1. gcur' = gcur /\ held' = held /\ Pending' \subseteq Pending
      BY <2>3 DEF UdpIdle, UdpKnown, UdpFull, UdpNilMap, UdpWrite, UdpHead, Pending,
         TypeOK
    <3> QED
      BY <3>1, GlobalDropped
  <2> QED
    BY <1>3, <2>1, <2>2, <2>3 DEF UdpNext, UdpOpenRefused
<1>4. ASSUME NEW a \in Addr, UdpCleanup(a) PROVE GlobalSlots'
  <2>1. sess[a] \in held /\ Release(sess[a]) /\ Pending' = Pending
    BY <1>4 DEF UdpCleanup, Ownership, Pending
  <2> QED
    BY <2>1, GlobalGiven
<1>5. ASSUME ReaderNext PROVE GlobalSlots'
  <2>1. CASE ReadReleaseTcp \/ ReadReleaseUdp
    <3>1. rdCh \in held /\ Release(rdCh) /\ Pending' = Pending
      BY <2>1 DEF ReadReleaseTcp, ReadReleaseUdp, Ownership, Pending
    <3> QED
      BY <3>1, GlobalGiven
  <2>2. CASE ~(ReadReleaseTcp \/ ReadReleaseUdp)
    <3>1. gcur' = gcur /\ held' = held /\ Pending' \subseteq Pending
      BY <1>5, <2>2 DEF ReaderNext, ReadData, ReadWritten, ReadDatagram, ReadClose, ReadCloseUdp, Teardown,
         TeardownTcp, TeardownUdp, TeardownClients, Pending
    <3> QED
      BY <3>1, GlobalDropped
  <2> QED
    BY <2>1, <2>2
<1>6. ASSUME CheckerNext \/ LinkBreaks \/ UNCHANGED vars PROVE GlobalSlots'
  <2>1. gcur' = gcur /\ held' = held /\ Pending' \subseteq Pending
    BY <1>6 DEF CheckerNext, Check, CheckNext, CheckTcp, CheckUdp, CheckRelease,
       LinkBreaks, Pending, NoPluginInv
  <2> QED
    BY <2>1, GlobalDropped
<1> QED
  BY <1>1, <1>2, <1>3, <1>4, <1>5, <1>6 DEF Next

(* In a server without dynamic plugins the connections and sessions relayed *)
(* never exceed the server's own -max-conns: nothing is released twice on   *)
(* pluginMgr's limiter.                                                     *)
THEOREM GlobalLimitWithoutPlugins == Spec => [](~DynPlugins => GlobalLimitEnforced)
<1> DEFINE Inv == SlotInv /\ NoPluginInv /\ GlobalSlots
<1>1. Init => Inv
  BY InitType, InitOwnership, InitSlots, InitNoPlugin, InitGlobal DEF SlotInv
<1>2. Inv /\ [Next]_vars => Inv'
  BY NextType, NextOwnership, NextSlots, NextNoPlugin, NextGlobal DEF SlotInv
<1>3. Inv => (~DynPlugins => GlobalLimitEnforced)
  <2> SUFFICES ASSUME Inv, ~DynPlugins, GlobalMax > 0
               PROVE  Cardinality(Relayed) =< GlobalMax
    BY DEF GlobalLimitEnforced
  <2>1. Relayed \subseteq held
    BY DEF SlotInv, TypeOK, Ownership, Relayed, SessChans
  <2>2. IsFiniteSet(Relayed) /\ Cardinality(Relayed) =< Cardinality(held)
    BY <2>1, FiniteBooks, FS_Subset DEF SlotInv
  <2>3. Cardinality(Relayed) \in Nat
    BY <2>2, FS_CardinalityType
  <2> QED
    BY <2>2, <2>3, FiniteBooks, ConstAssumption DEF SlotInv, GlobalSlots, TypeOK
<1> QED
  BY <1>1, <1>2, <1>3, PTL DEF Spec

-----------------------------------------------------------------------------
(* Channel ids.                                                             *)

\* What it means to be owed a release, without set images.
LEMMA OwedMembers ==
    ASSUME TypeOK, NEW c \in Chan
    PROVE  c \in Owed <=>
             \/ \E s \in TcpSvc : accPc[s] \in AccBusy /\ accCh[s] = c
             \/ c \in tab
             \/ \E a \in Addr : sess[a] = c
             \/ pipe[c] = "release"
             \/ rdPc \in {"relTcp", "relUdp"} /\ rdCh = c
  BY ConstAssumption DEF Owed, SessChans, TypeOK

(* An id that was given up never comes back: no goroutine that still has it *)
(* in a local variable puts it into a table again, and none is handed out   *)
(* twice.                                                                   *)
THEOREM IdsStayRetired == Spec => IdsNeverReused
<1>1. TypeOK /\ TypeOK' /\ [Next]_vars => [\A c \in used \ Owed : c \notin Owed']_vars
  <2> SUFFICES ASSUME TypeOK, TypeOK', Next, NEW c \in used \ Owed
               PROVE  c \notin Owed'
    OBVIOUS
  <2>1. c \in Chan /\ c \in used /\ c # NoChan
    BY ConstAssumption DEF TypeOK
  <2>2. /\ \A s \in TcpSvc : accPc[s] \in AccBusy => accCh[s] # c
        /\ c \notin tab
        /\ \A a \in Addr : sess[a] # c
        /\ pipe[c] # "release"
        /\ rdPc \in {"relTcp", "relUdp"} => rdCh # c
    BY <2>1, OwedMembers
  <2>3. SUFFICES /\ \A s \in TcpSvc : accPc'[s] \in AccBusy => accCh'[s] # c
                 /\ c \notin tab'
                 /\ \A a \in Addr : sess'[a] # c
                 /\ pipe'[c] # "release"
                 /\ rdPc' \in {"relTcp", "relUdp"} => rdCh' # c
    <3>1. (c \in Owed <=>
             \/ \E s \in TcpSvc : accPc[s] \in AccBusy /\ accCh[s] = c
             \/ c \in tab
             \/ \E a \in Addr : sess[a] = c
             \/ pipe[c] = "release"
             \/ rdPc \in {"relTcp", "relUdp"} /\ rdCh = c)'
      BY <2>1, ConstAssumption DEF Owed, SessChans, TypeOK
    <3> QED BY <3>1 DEF AccBusy
  <2> USE <2>1, <2>2, ConstAssumption
  <2>4. ASSUME NEW s \in TcpSvc, TcpNext(s)
        PROVE  /\ \A t \in TcpSvc : accPc'[t] \in AccBusy => accCh'[t] # c
               /\ c \notin tab' /\ sess' = sess /\ pipe'[c] # "release"
               /\ rdPc' = rdPc /\ rdCh' = rdCh
    <3>1. CASE TcpAccept(s) \/ TcpRefuse(s) \/ TcpAcceptFails(s) \/ TcpClosing(s)
      BY <3>1 DEF TcpAccept, TcpRefuse, TcpAcceptFails, TcpClosing, AcceptHead, offTcp,
                  udpVars, sessVars, rdVars, chanVars, AccBusy, TypeOK
    <3>2. CASE TcpAdmit(s)
      BY <3>2 DEF TcpAdmit, offTcp, udpVars, sessVars, rdVars, AccBusy, TypeOK
    <3>3. CASE TcpInsert(s) \/ TcpOpenRefused(s) \/ TcpOpenAllowed(s)
      BY <3>3 DEF TcpInsert, TcpOpenRefused, TcpOpenAllowed, offTcp, udpVars, sessVars,
                  rdVars, chanVars, AccBusy, TypeOK
    <3>4. CASE TcpAnnounce(s) \/ TcpAnnounceFails(s) \/ TcpUndo(s)
      BY <3>4 DEF TcpAnnounce, TcpAnnounceFails, TcpUndo, AcceptHead, offTcp, udpVars,
                  sessVars, rdVars, chanVars, AccBusy, TypeOK
    <3> QED BY <2>4, <3>1, <3>2, <3>3, <3>4 DEF TcpNext
  <2>5. ASSUME NEW d \in Chan, ExtGone(d) \/ PipeNext(d)
        PROVE  /\ accPc' = accPc /\ accCh' = accCh /\ c \notin tab' /\ sess' = sess
               /\ pipe'[c] # "release" /\ rdPc' = rdPc /\ rdCh' = rdCh
    BY <2>5 DEF ExtGone, PipeNext, PipeEnds, PipeForget, PipeRelease, accVars, offTcp,
                udpVars, sessVars, rdVars, TypeOK
  <2>6. ASSUME NEW u \in UdpSvc, UdpNext(u)
        PROVE  /\ accPc' = accPc /\ accCh' = accCh /\ tab' = tab /\ pipe' = pipe
               /\ \A a \in Addr : sess'[a] # c
               /\ rdPc' = rdPc /\ rdCh' = rdCh
    BY <2>6 DEF UdpNext, UdpDatagram, UdpIdle, UdpKnown, UdpFull, UdpOpen, UdpOpenRefused,
                UdpNilMap, UdpWrite, offUdp, tcpVars, accVars, chanVars, sessVars, rdVars,
                TypeOK
  <2>7. ASSUME NEW a \in Addr, UdpCleanup(a)
        PROVE  /\ accPc' = accPc /\ accCh' = accCh /\ tab' = tab /\ pipe' = pipe
               /\ \A b \in Addr : sess'[b] # c
               /\ rdPc' = rdPc /\ rdCh' = rdCh
    BY <2>7 DEF UdpCleanup, offUdp, tcpVars, accVars, chanVars, rdVars, TypeOK
  <2>8. ASSUME ReaderNext
        PROVE  /\ accPc' = accPc /\ accCh' = accCh /\ pipe' = pipe
               /\ c \notin tab' /\ \A a \in Addr : sess'[a] # c
               /\ rdPc' \in {"relTcp", "relUdp"} => rdCh' # c
    <3>1. CASE \E d \in Chan : ReadClose(d)
      BY <3>1 DEF ReadClose, accVars, udpVars, sessVars, TypeOK
    <3>2. CASE ReadReleaseTcp \/ ReadReleaseUdp
      BY <3>2 DEF ReadReleaseTcp, ReadReleaseUdp, offRd, tcpVars, accVars, chanVars,
                  udpVars, sessVars
    <3>3. CASE ReadCloseUdp
      BY <3>3 DEF ReadCloseUdp, DropSession, SessChans, tcpVars, accVars, chanVars, TypeOK
    <3>4. CASE Teardown \/ TeardownTcp \/ TeardownUdp \/ TeardownClients
      BY <3>4 DEF Teardown, TeardownTcp, TeardownUdp, TeardownClients, offRd, tcpVars,
                  accVars, chanVars, udpVars, sessVars, TypeOK
    <3>5. CASE ReadWritten \/ ReadDatagram \/ \E d \in Chan : ReadData(d)
      BY <3>5 DEF ReadWritten, ReadDatagram, ReadData, offRd, tcpVars, accVars, chanVars,
                  udpVars, sessVars
    <3> QED BY <2>8, <3>1, <3>2, <3>3, <3>4, <3>5 DEF ReaderNext
  <2>9. ASSUME CheckerNext
        PROVE  /\ accPc' = accPc /\ accCh' = accCh /\ pipe' = pipe
               /\ c \notin tab' /\ \A a \in Addr : sess'[a] # c
               /\ rdPc' = rdPc /\ rdCh' = rdCh
    BY <2>9 DEF CheckerNext, Check, CheckNext, CheckTcp, CheckUdp, CheckRelease,
                DropSession, offCk, tcpVars, accVars, chanVars, udpVars, sessVars, rdVars,
                TypeOK
  <2>10. ASSUME LinkBreaks
         PROVE  /\ accPc' = accPc /\ accCh' = accCh /\ pipe' = pipe /\ tab' = tab
                /\ sess' = sess /\ rdPc' = rdPc /\ rdCh' = rdCh
    BY <2>10 DEF LinkBreaks, offRd, tcpVars, accVars, chanVars, udpVars, sessVars, rdVars
  <2> QED BY <2>4, <2>5, <2>6, <2>7, <2>8, <2>9, <2>10 DEF Next
<1> QED BY <1>1, TypeCorrect, PTL DEF Spec, IdsNeverReused
=============================================================================
