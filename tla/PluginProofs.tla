---------------------------- MODULE PluginProofs ----------------------------
(***************************************************************************)
(* Proofs about dynamic plugins: PluginProcess for any number of calling   *)
(* goroutines, requests and answers, and IdleTimeout for any set of        *)
(* channels, timeout and pipe.                                             *)
(***************************************************************************)
EXTENDS PluginProcess, IdleTimeout, TLAPS

-----------------------------------------------------------------------------
(* Calls: a line never gets another matter than the one its id was made     *)
(* for, whatever the plugin does with it.                                   *)
Matched == {l \in Lines : l.id = l.about}

LinesMatch ==
    /\ stdin \in Seq(Matched) /\ stdout \in Seq(Matched)
    /\ DOMAIN asked \subseteq Matched /\ line \in Matched

\* The ids in use are the ones given out, and a caller's id is its matter.
IdsMatch ==
    /\ nextID = asks /\ pending \subseteq 1 .. nextID
    /\ \A i \in 1 .. MaxID : chan[i] \in {Empty, i}
    /\ \A c \in Caller :
         /\ pcs[c] # "idle" /\ ids[c] # 0 => about[c] = ids[c]
         /\ pcs[c] = "wait" => ids[c] # 0
         /\ pcs[c] = "idle" \/ ids[c] = 0 => result[c] \in {about[c], Error}

\* An id is in pending, on its way through readLoop, or answered: never two.
OnePlace ==
    /\ \A i \in pending : chan[i] = Empty
    /\ reader = "send" => /\ line.id \in 1 .. nextID /\ line.id \notin pending
                          /\ chan[line.id] = Empty

CallInv == TypeOK /\ LinesMatch /\ IdsMatch /\ OnePlace /\ PendingIsInFlight

(* Requests and answers pass through the pipes and the plugin unchanged.    *)
LEMMA CallLines == TypeOK /\ LinesMatch /\ IdsMatch /\ [Next]_vars => LinesMatch'
<1> SUFFICES ASSUME TypeOK, LinesMatch, IdsMatch, [Next]_vars PROVE LinesMatch'
  OBVIOUS
<1> USE PluginAssumption DEF LinesMatch, Empty, Error, callVars, pluginVars, readVars
<1>1. ASSUME NEW c \in Caller, Call(c) PROVE LinesMatch'
  BY <1>1 DEF Call
<1>2. ASSUME NEW c \in Caller, Notify(c) PROVE LinesMatch'
  BY <1>2 DEF Notify
<1>3. ASSUME NEW c \in Caller, Lock(c) PROVE LinesMatch'
  BY <1>3 DEF Lock
<1>4. ASSUME NEW c \in Caller, Send(c) PROVE LinesMatch'
  BY <1>4 DEF Send, TypeOK, IdsMatch, Matched, Lines
<1>5. ASSUME NEW c \in Caller, SendFails(c) PROVE LinesMatch'
  BY <1>5 DEF SendFails, Return
<1>6. ASSUME NEW c \in Caller, Answered(c) PROVE LinesMatch'
  BY <1>6 DEF Answered, Return
<1>7. ASSUME NEW c \in Caller, TimesOut(c) PROVE LinesMatch'
  BY <1>7 DEF TimesOut, Return
<1>8. ASSUME NEW c \in Caller, SeesStop(c) PROVE LinesMatch'
  BY <1>8 DEF SeesStop, Return
<1>9. CASE Scan
  BY <1>9 DEF Scan
<1>10. CASE Deliver
  BY <1>10 DEF Deliver
<1>11. CASE ReaderEnds
  BY <1>11 DEF ReaderEnds
<1>12. CASE PluginReads
  BY <1>12 DEF PluginReads
<1>13. CASE PluginAnswers
  BY <1>13 DEF PluginAnswers
<1>14. CASE PluginDies
  BY <1>14 DEF PluginDies
<1>15. CASE Stop
  BY <1>15 DEF Stop
<1>16. CASE UNCHANGED vars
  BY <1>16 DEF vars
<1> QED
  BY <1>1, <1>2, <1>3, <1>4, <1>5, <1>6, <1>7, <1>8, <1>9, <1>10,
     <1>11, <1>12, <1>13, <1>14, <1>15, <1>16
  DEF Next, Returns, Reader

(* Every variable of the calls keeps its type.                              *)
LEMMA CallTypes == TypeOK /\ IdsMatch /\ [Next]_vars => TypeOK'
<1> SUFFICES ASSUME TypeOK, IdsMatch, [Next]_vars PROVE TypeOK'
  OBVIOUS
<1> USE PluginAssumption DEF TypeOK, IdsMatch, Empty, Error, callVars, pluginVars, readVars
<1>1. ASSUME NEW c \in Caller, Call(c) PROVE TypeOK'
  <2>1. nextID' \in 1 .. MaxID /\ asks' = nextID' /\ pending' \subseteq 1 .. MaxID
    BY <1>1 DEF Call
  <2>2. /\ chan' \in [1 .. MaxID -> 0 .. MaxID] /\ ids' \in [Caller -> 0 .. MaxID]
        /\ about' \in [Caller -> 0 .. MaxID]
        /\ pcs' \in [Caller -> {"idle", "lock", "send", "wait"}]
    BY <1>1, <2>1 DEF Call
  <2>3. UNCHANGED <<stopped, result, notes, writer, alive, stdin, asked, stdout, reader, line>>
    BY <1>1 DEF Call
  <2>4. nextID' \in 0 .. MaxID /\ asks' \in 0 .. MaxID
    BY <2>1
  <2> HIDE DEF IdsMatch
  <2> QED
    BY <2>1, <2>2, <2>3, <2>4
<1>2. ASSUME NEW c \in Caller, Notify(c) PROVE TypeOK'
  <2>1. notes' \in 0 .. MaxNotes
    BY <1>2 DEF Notify
  <2>2. ids' \in [Caller -> 0 .. MaxID]
    BY <1>2 DEF Notify
  <2> QED
    BY <1>2, <2>1, <2>2 DEF Notify
<1>3. ASSUME NEW c \in Caller, Lock(c) PROVE TypeOK'
  BY <1>3 DEF Lock
<1>4. ASSUME NEW c \in Caller, Send(c) PROVE TypeOK'
  <2>1. stdin' \in Seq(Lines)
    BY <1>4 DEF Send, Lines
  <2>2. pcs' \in [Caller -> {"idle", "lock", "send", "wait"}]
    BY <1>4 DEF Send
  <2> QED
    BY <1>4, <2>1, <2>2 DEF Send
<1>5. ASSUME NEW c \in Caller, SendFails(c) PROVE TypeOK'
  <2>1. pending' \subseteq pending
    BY <1>5 DEF SendFails, Return
  <2>2. pending' \subseteq 1 .. MaxID
    BY <2>1
  <2>3. /\ result' \in [Caller -> 0 .. MaxID]
        /\ pcs' \in [Caller -> {"idle", "lock", "send", "wait"}]
    BY <1>5 DEF SendFails, Return
  <2> QED
    BY <1>5, <2>2, <2>3 DEF SendFails, Return
<1>6. ASSUME NEW c \in Caller, Answered(c) PROVE TypeOK'
  BY <1>6 DEF Answered, Return
<1>7. ASSUME NEW c \in Caller, TimesOut(c) PROVE TypeOK'
  <2>1. pending' \subseteq pending
    BY <1>7 DEF TimesOut, Return
  <2>2. pending' \subseteq 1 .. MaxID
    BY <2>1
  <2>3. result' \in [Caller -> 0 .. MaxID]
    BY <1>7 DEF TimesOut, Return
  <2> QED
    BY <1>7, <2>2, <2>3 DEF TimesOut, Return
<1>8. ASSUME NEW c \in Caller, SeesStop(c) PROVE TypeOK'
  <2>1. /\ result' \in [Caller -> 0 .. MaxID] /\ pending' = pending
        /\ pcs' \in [Caller -> {"idle", "lock", "send", "wait"}]
    BY <1>8 DEF SeesStop, Return
  <2> QED
    BY <1>8, <2>1 DEF SeesStop, Return
<1>9. CASE Scan
  <2>1. pending' \subseteq pending
    BY <1>9 DEF Scan
  <2>2. pending' \subseteq 1 .. MaxID
    BY <2>1
  <2> QED
    BY <1>9, <2>2 DEF Scan
<1>10. CASE Deliver
  BY <1>10 DEF Deliver, Lines
<1>11. CASE ReaderEnds
  BY <1>11 DEF ReaderEnds
<1>12. CASE PluginReads
  <2>1. stdin # <<>> /\ stdin \in Seq(Lines) /\ stdin' = Tail(stdin)
    BY <1>12 DEF PluginReads
  <2>2. Head(stdin) \in Lines /\ stdin' \in Seq(Lines)
    BY <2>1
  <2>3. DOMAIN asked' \subseteq DOMAIN asked \cup {Head(stdin)}
    BY <1>12 DEF PluginReads
  <2>4. DOMAIN asked' \subseteq Lines
    BY <2>2, <2>3
  <2>5. UNCHANGED <<stopped, callVars, alive, stdout, readVars>>
    BY <1>12 DEF PluginReads
  <2> QED
    BY <2>2, <2>4, <2>5
<1>13. CASE PluginAnswers
  <2>1. stdout' \in Seq(Lines) /\ DOMAIN asked' \subseteq Lines
    BY <1>13 DEF PluginAnswers
  <2> QED
    BY <1>13, <2>1 DEF PluginAnswers
<1>14. CASE PluginDies
  BY <1>14 DEF PluginDies
<1>15. CASE Stop
  BY <1>15 DEF Stop
<1>16. CASE UNCHANGED vars
  BY <1>16 DEF vars
<1> QED
  BY <1>1, <1>2, <1>3, <1>4, <1>5, <1>6, <1>7, <1>8, <1>9, <1>10,
     <1>11, <1>12, <1>13, <1>14, <1>15, <1>16
  DEF Next, Returns, Reader

(* A call gets a fresh id, and the answer it takes is the one to that id.   *)
LEMMA CallIds == TypeOK /\ LinesMatch /\ IdsMatch /\ [Next]_vars => IdsMatch'
<1> SUFFICES ASSUME TypeOK, LinesMatch, IdsMatch, [Next]_vars PROVE IdsMatch'
  OBVIOUS
<1> USE PluginAssumption DEF TypeOK, LinesMatch, IdsMatch, Matched, Lines, Empty, Error, callVars, pluginVars, readVars
<1>1. ASSUME NEW c \in Caller, Call(c) PROVE IdsMatch'
  <2>1. /\ nextID \in Nat /\ nextID' = nextID + 1 /\ asks' = nextID' /\ nextID' \in 1 .. MaxID
        /\ pending' = pending \cup {nextID'}
        /\ chan' = [chan EXCEPT ![nextID'] = Empty] /\ ids' = [ids EXCEPT ![c] = nextID']
        /\ about' = [about EXCEPT ![c] = nextID'] /\ pcs' = [pcs EXCEPT ![c] = "lock"]
        /\ result' = result
    BY <1>1 DEF Call
  <2>2. pending' \subseteq 1 .. nextID'
    BY <2>1
  <2>3. \A i \in 1 .. MaxID : chan'[i] \in {Empty, i}
    BY <2>1
  <2>4. ASSUME NEW d \in Caller
        PROVE  /\ pcs'[d] # "idle" /\ ids'[d] # 0 => about'[d] = ids'[d]
               /\ pcs'[d] = "wait" => ids'[d] # 0
               /\ pcs'[d] = "idle" \/ ids'[d] = 0 => result'[d] \in {about'[d], Error}
    <3>1. CASE d = c
      BY <2>1, <3>1
    <3>2. CASE d # c
      <4>1. /\ pcs'[d] = pcs[d] /\ ids'[d] = ids[d] /\ about'[d] = about[d]
            /\ result'[d] = result[d]
        BY <2>1, <3>2
      <4> QED
        BY <4>1
    <3> QED
      BY <3>1, <3>2
  <2> QED
    BY <2>1, <2>2, <2>3, <2>4
<1>2. ASSUME NEW c \in Caller, Notify(c) PROVE IdsMatch'
  BY <1>2 DEF Notify
<1>3. ASSUME NEW c \in Caller, Lock(c) PROVE IdsMatch'
  BY <1>3 DEF Lock
<1>4. ASSUME NEW c \in Caller, Send(c) PROVE IdsMatch'
  BY <1>4 DEF Send
<1>5. ASSUME NEW c \in Caller, SendFails(c) PROVE IdsMatch'
  BY <1>5 DEF SendFails, Return
<1>6. ASSUME NEW c \in Caller, Answered(c) PROVE IdsMatch'
  BY <1>6 DEF Answered, Return
<1>7. ASSUME NEW c \in Caller, TimesOut(c) PROVE IdsMatch'
  BY <1>7 DEF TimesOut, Return
<1>8. ASSUME NEW c \in Caller, SeesStop(c) PROVE IdsMatch'
  BY <1>8 DEF SeesStop, Return
<1>9. CASE Scan
  BY <1>9 DEF Scan
<1>10. CASE Deliver
  BY <1>10 DEF Deliver
<1>11. CASE ReaderEnds
  BY <1>11 DEF ReaderEnds
<1>12. CASE PluginReads
  BY <1>12 DEF PluginReads
<1>13. CASE PluginAnswers
  BY <1>13 DEF PluginAnswers
<1>14. CASE PluginDies
  BY <1>14 DEF PluginDies
<1>15. CASE Stop
  BY <1>15 DEF Stop
<1>16. CASE UNCHANGED vars
  BY <1>16 DEF vars
<1> QED
  BY <1>1, <1>2, <1>3, <1>4, <1>5, <1>6, <1>7, <1>8, <1>9, <1>10,
     <1>11, <1>12, <1>13, <1>14, <1>15, <1>16
  DEF Next, Returns, Reader

(* readLoop takes an id out of pending before it hands the answer over, so  *)
(* nothing is handed over twice.                                            *)
LEMMA CallPlaces == TypeOK /\ IdsMatch /\ OnePlace /\ [Next]_vars => OnePlace'
<1> SUFFICES ASSUME TypeOK, IdsMatch, OnePlace, [Next]_vars PROVE OnePlace'
  OBVIOUS
<1> USE PluginAssumption DEF TypeOK, IdsMatch, OnePlace, Lines, Empty, Error, callVars, pluginVars, readVars
<1>1. ASSUME NEW c \in Caller, Call(c) PROVE OnePlace'
  <2>1. /\ nextID' = nextID + 1 /\ nextID' \in 1 .. MaxID /\ nextID' \notin pending
        /\ pending' = pending \cup {nextID'} /\ chan' = [chan EXCEPT ![nextID'] = Empty]
        /\ UNCHANGED <<reader, line>>
    BY <1>1 DEF Call
  <2>2. \A i \in pending' : chan'[i] = Empty
    BY <2>1
  <2>3. ASSUME reader' = "send"
        PROVE  line'.id \in 1 .. nextID' /\ line'.id \notin pending' /\ chan'[line'.id] = Empty
    <3>1. /\ line' = line /\ line.id \in 1 .. nextID /\ line.id \notin pending
          /\ chan[line.id] = Empty /\ nextID \in Nat
      BY <2>1, <2>3
    <3>2. line.id # nextID' /\ line.id \in 1 .. nextID'
      <4> HIDE DEF TypeOK, IdsMatch, OnePlace
      <4> QED
        BY <2>1, <3>1
    <3> QED
      BY <2>1, <3>1, <3>2
  <2> QED
    BY <2>2, <2>3
<1>2. ASSUME NEW c \in Caller, Notify(c) PROVE OnePlace'
  BY <1>2 DEF Notify
<1>3. ASSUME NEW c \in Caller, Lock(c) PROVE OnePlace'
  BY <1>3 DEF Lock
<1>4. ASSUME NEW c \in Caller, Send(c) PROVE OnePlace'
  BY <1>4 DEF Send
<1>5. ASSUME NEW c \in Caller, SendFails(c) PROVE OnePlace'
  BY <1>5 DEF SendFails, Return
<1>6. ASSUME NEW c \in Caller, Answered(c) PROVE OnePlace'
  BY <1>6 DEF Answered, Return
<1>7. ASSUME NEW c \in Caller, TimesOut(c) PROVE OnePlace'
  BY <1>7 DEF TimesOut, Return
<1>8. ASSUME NEW c \in Caller, SeesStop(c) PROVE OnePlace'
  BY <1>8 DEF SeesStop, Return
<1>9. CASE Scan
  BY <1>9 DEF Scan
<1>10. CASE Deliver
  BY <1>10 DEF Deliver
<1>11. CASE ReaderEnds
  BY <1>11 DEF ReaderEnds
<1>12. CASE PluginReads
  BY <1>12 DEF PluginReads
<1>13. CASE PluginAnswers
  BY <1>13 DEF PluginAnswers
<1>14. CASE PluginDies
  BY <1>14 DEF PluginDies
<1>15. CASE Stop
  BY <1>15 DEF Stop
<1>16. CASE UNCHANGED vars
  BY <1>16 DEF vars
<1> QED
  BY <1>1, <1>2, <1>3, <1>4, <1>5, <1>6, <1>7, <1>8, <1>9, <1>10,
     <1>11, <1>12, <1>13, <1>14, <1>15, <1>16
  DEF Next, Returns, Reader

(* Every way out of a call, but the one through Stop, takes its id out of   *)
(* pending.                                                                 *)
LEMMA CallPending == TypeOK /\ OnePlace /\ PendingIsInFlight /\ [Next]_vars => PendingIsInFlight'
<1> SUFFICES ASSUME TypeOK, OnePlace, PendingIsInFlight, [Next]_vars PROVE PendingIsInFlight'
  OBVIOUS
<1> USE PluginAssumption DEF TypeOK, OnePlace, PendingIsInFlight, Empty, Error, callVars, pluginVars, readVars
<1>1. ASSUME NEW c \in Caller, Call(c) PROVE PendingIsInFlight'
  <2>1. /\ pending' = pending \cup {nextID'} /\ ids' = [ids EXCEPT ![c] = nextID']
        /\ pcs[c] = "idle" /\ pcs' = [pcs EXCEPT ![c] = "lock"] /\ stopped' = stopped
    BY <1>1 DEF Call
  <2>2. ASSUME ~stopped, NEW i \in pending PROVE \E d \in Caller : ids'[d] = i /\ pcs'[d] # "idle"
    <3>1. PICK d \in Caller : ids[d] = i /\ pcs[d] # "idle"
      BY <2>2
    <3> QED
      BY <2>1, <3>1
  <2>3. ids'[c] = nextID' /\ pcs'[c] # "idle"
    BY <2>1
  <2> QED
    BY <2>1, <2>2, <2>3
<1>2. ASSUME NEW c \in Caller, Notify(c) PROVE PendingIsInFlight'
  BY <1>2 DEF Notify
<1>3. ASSUME NEW c \in Caller, Lock(c) PROVE PendingIsInFlight'
  BY <1>3 DEF Lock
<1>4. ASSUME NEW c \in Caller, Send(c) PROVE PendingIsInFlight'
  BY <1>4 DEF Send
<1>5. ASSUME NEW c \in Caller, SendFails(c) PROVE PendingIsInFlight'
  BY <1>5 DEF SendFails, Return
<1>6. ASSUME NEW c \in Caller, Answered(c) PROVE PendingIsInFlight'
  BY <1>6 DEF Answered, Return
<1>7. ASSUME NEW c \in Caller, TimesOut(c) PROVE PendingIsInFlight'
  BY <1>7 DEF TimesOut, Return
<1>8. ASSUME NEW c \in Caller, SeesStop(c) PROVE PendingIsInFlight'
  BY <1>8 DEF SeesStop, Return
<1>9. CASE Scan
  BY <1>9 DEF Scan
<1>10. CASE Deliver
  BY <1>10 DEF Deliver
<1>11. CASE ReaderEnds
  BY <1>11 DEF ReaderEnds
<1>12. CASE PluginReads
  BY <1>12 DEF PluginReads
<1>13. CASE PluginAnswers
  BY <1>13 DEF PluginAnswers
<1>14. CASE PluginDies
  BY <1>14 DEF PluginDies
<1>15. CASE Stop
  BY <1>15 DEF Stop
<1>16. CASE UNCHANGED vars
  BY <1>16 DEF vars
<1> QED
  BY <1>1, <1>2, <1>3, <1>4, <1>5, <1>6, <1>7, <1>8, <1>9, <1>10,
     <1>11, <1>12, <1>13, <1>14, <1>15, <1>16
  DEF Next, Returns, Reader

(* The invariant of the calls, and what it gives: in every reachable state  *)
(* of a plugin with any number of callers the variables have their types.   *)
LEMMA CallInvHolds == Spec => []CallInv
<1>1. Init => CallInv
  <2> SUFFICES ASSUME Init PROVE CallInv
    OBVIOUS
  <2> USE PluginAssumption DEF Init, Empty, Error, NoLine
  <2>1. NoLine \in Matched /\ NoLine \in Lines
    BY DEF Matched, Lines
  <2>2. LinesMatch
    BY <2>1 DEF LinesMatch
  <2>3. TypeOK
    <3>1. DOMAIN asked \subseteq Lines
      OBVIOUS
    <3>2. chan \in [1 .. MaxID -> 0 .. MaxID]
      OBVIOUS
    <3>3. /\ pcs \in [Caller -> {"idle", "lock", "send", "wait"}]
          /\ ids \in [Caller -> 0 .. MaxID] /\ about \in [Caller -> 0 .. MaxID]
          /\ result \in [Caller -> 0 .. MaxID]
      OBVIOUS
    <3>4. /\ nextID \in 0 .. MaxID /\ pending \subseteq 1 .. MaxID /\ asks \in 0 .. MaxID
          /\ notes \in 0 .. MaxNotes /\ writer \in Caller \cup {0}
      OBVIOUS
    <3>5. stdin \in Seq(Lines) /\ stdout \in Seq(Lines)
      OBVIOUS
    <3>6. line \in Lines
      BY <2>1
    <3>7. alive \in BOOLEAN /\ stopped \in BOOLEAN /\ reader \in {"scan", "send", "done"}
      OBVIOUS
    <3> QED
      BY <3>1, <3>2, <3>3, <3>4, <3>5, <3>6, <3>7 DEF TypeOK
  <2>4. IdsMatch /\ OnePlace /\ PendingIsInFlight
    BY DEF IdsMatch, OnePlace, PendingIsInFlight
  <2> QED
    BY <2>2, <2>3, <2>4 DEF CallInv
<1>2. CallInv /\ [Next]_vars => CallInv'
  BY CallLines, CallTypes, CallIds, CallPlaces, CallPending DEF CallInv
<1> QED
  BY <1>1, <1>2, PTL DEF Spec

(* Every variable of the plugin process and its callers has its type.       *)
THEOREM PluginTypeCorrect == Spec => []TypeOK
BY CallInvHolds, PTL DEF CallInv

(* No hook acts on the answer to another request, neither of another        *)
(* goroutine nor of one of its own that timed out.                          *)
THEOREM AnswerIsMineHolds == Spec => []AnswerIsMine
<1>1. CallInv => AnswerIsMine
  BY DEF CallInv, IdsMatch, AnswerIsMine
<1> QED
  BY <1>1, CallInvHolds, PTL

(* readLoop always finds room in the channel it hands an answer to, however *)
(* often and however late the plugin answers.                               *)
THEOREM ReaderNeverBlocksHolds == Spec => []ReaderNeverBlocks
<1>1. CallInv => ReaderNeverBlocks
  BY DEF CallInv, OnePlace, ReaderNeverBlocks
<1> QED
  BY <1>1, CallInvHolds, PTL

(* The pending map holds no id of a call that has returned, until Stop.     *)
THEOREM PendingIsInFlightHolds == Spec => []PendingIsInFlight
BY CallInvHolds, PTL DEF CallInv

-----------------------------------------------------------------------------
(* The idle timeout.  What stands in the plugin's pipe is seen through three *)
(* facts: which hooks are in it, that it is a sequence of hooks, and that a  *)
(* channel's on_open is followed by its on_close.                            *)
HookName  == {"on_open", "on_data", "on_close"}
HookLines == [m : HookName, ch : HookChan, wanted : BOOLEAN]
                 \cup [m : {"on_check"}, wanted : BOOLEAN]

Is(i, m, c) == inbox[i].m = m /\ inbox[i].ch = c

OpenBeforeClose(c) ==
    \A i \in 1 .. Len(inbox) :
        Is(i, "on_open", c) => \E j \in i + 1 .. Len(inbox) : Is(j, "on_close", c)

(* A hook that is written comes last.                                       *)
LEMMA InboxGrows ==
    ASSUME inbox \in Seq(HookLines), NEW m \in HookName, NEW c \in HookChan, Hook(m, c)
    PROVE  /\ inbox' \in Seq(HookLines)
           /\ \A n \in HookName, d \in HookChan :
                InInbox(n, d)' <=> InInbox(n, d) \/ (n = m /\ d = c)
           /\ \A d \in HookChan :
                /\ OpenBeforeClose(d) /\ ~(m = "on_open" /\ d = c) => OpenBeforeClose(d)'
                /\ m = "on_close" /\ d = c => OpenBeforeClose(d)'
<1> DEFINE new == [m |-> m, ch |-> c, wanted |-> TRUE]
           n == Len(inbox)
<1>1. new \in HookLines
  BY DEF HookLines
<1>2. /\ inbox' \in Seq(HookLines) /\ n \in Nat /\ Len(inbox') = n + 1
      /\ inbox'[n + 1] = new /\ \A i \in 1 .. n : inbox'[i] = inbox[i]
  <2> HIDE DEF HookLines, new
  <2>1. inbox' = Append(inbox, new)
    BY DEF Hook, new
  <2> QED
    BY <1>1, <2>1
<1>3. /\ \A i \in 1 .. n : \A k \in HookName, d \in HookChan : Is(i, k, d)' <=> Is(i, k, d)
      /\ \A i \in {n + 1} : \A k \in HookName, d \in HookChan :
            Is(i, k, d)' <=> k = m /\ d = c
  BY <1>2 DEF Is
<1> HIDE DEF n
<1>4. ASSUME NEW k \in HookName, NEW d \in HookChan
      PROVE  InInbox(k, d)' <=> InInbox(k, d) \/ (k = m /\ d = c)
  <2>1. InInbox(k, d) <=> \E i \in 1 .. n : Is(i, k, d)
    BY DEF InInbox, Is, n
  <2>2. InInbox(k, d)' <=> \E i \in 1 .. n + 1 : Is(i, k, d)'
    BY <1>2 DEF InInbox, Is
  <2>3. \A i : i \in 1 .. n + 1 <=> i \in 1 .. n \/ i = n + 1
    BY <1>2
  <2>4. n + 1 \in {n + 1} /\ \A i \in {n + 1} : i = n + 1
    OBVIOUS
  <2>5. (\E i \in 1 .. n + 1 : Is(i, k, d)') <=>
            (\E i \in 1 .. n : Is(i, k, d)') \/ (\E i \in {n + 1} : Is(i, k, d)')
    BY <2>3, <2>4, Zenon
  <2> QED
    BY <1>3, <2>1, <2>2, <2>5, Zenon
<1>5. ASSUME NEW d \in HookChan
      PROVE  /\ OpenBeforeClose(d) /\ ~(m = "on_open" /\ d = c) => OpenBeforeClose(d)'
             /\ m = "on_close" /\ d = c => OpenBeforeClose(d)'
  <2>1. OpenBeforeClose(d) <=>
          \A i \in 1 .. n : Is(i, "on_open", d) => \E j \in i + 1 .. n : Is(j, "on_close", d)
    BY DEF OpenBeforeClose, n
  <2>2. OpenBeforeClose(d)' <=>
          \A i \in 1 .. n + 1 :
              Is(i, "on_open", d)' => \E j \in i + 1 .. n + 1 : Is(j, "on_close", d)'
    BY <1>2 DEF OpenBeforeClose
  <2> QED
    BY <2>1, <2>2, <1>2, <1>3 DEF HookName
<1> QED
  BY <1>2, <1>4, <1>5

(* A hook that is handled came first.                                       *)
LEMMA InboxShrinks ==
    ASSUME inbox \in Seq(HookLines), NEW m, Handles(m)
    PROVE  /\ inbox' \in Seq(HookLines) /\ Head(inbox) \in HookLines
           /\ \A d \in HookChan : m = "on_open" /\ d = Head(inbox).ch => InInbox("on_open", d)
           /\ \A n \in HookName, d \in HookChan :
                /\ InInbox(n, d)' => InInbox(n, d)
                /\ InInbox(n, d) => InInbox(n, d)' \/ (n = m /\ d = Head(inbox).ch)
           /\ \A d \in HookChan : OpenBeforeClose(d) =>
                /\ OpenBeforeClose(d)'
                /\ m = "on_open" /\ d = Head(inbox).ch => InInbox("on_close", d)'
<1> DEFINE n == Len(inbox)
<1>1. /\ inbox' \in Seq(HookLines) /\ Head(inbox) \in HookLines
      /\ n \in Nat /\ n >= 1 /\ Len(inbox') = n - 1
      /\ inbox[1] = Head(inbox) /\ Head(inbox).m = m
      /\ \A i \in 1 .. n - 1 : inbox'[i] = inbox[i + 1]
  <2> HIDE DEF HookLines
  <2> QED
    BY DEF Handles
<1>2. /\ \A i \in 1 .. n - 1 : \A k \in HookName, d \in HookChan : Is(i, k, d)' <=> Is(i + 1, k, d)
      /\ \A k \in HookName, d \in HookChan : Is(1, k, d) <=> k = m /\ d = Head(inbox).ch
  BY <1>1 DEF Is
<1>3. ASSUME NEW k \in HookName, NEW d \in HookChan
      PROVE  /\ InInbox(k, d) <=> \E i \in 1 .. n : Is(i, k, d)
             /\ InInbox(k, d)' <=> \E i \in 1 .. n - 1 : Is(i, k, d)'
  BY <1>1 DEF InInbox, Is
<1>4. ASSUME NEW d \in HookChan
      PROVE  /\ OpenBeforeClose(d) <=>
                  \A i \in 1 .. n :
                      Is(i, "on_open", d) => \E j \in i + 1 .. n : Is(j, "on_close", d)
             /\ OpenBeforeClose(d)' <=>
                  \A i \in 1 .. n - 1 :
                      Is(i, "on_open", d)' => \E j \in i + 1 .. n - 1 : Is(j, "on_close", d)'
  BY <1>1 DEF OpenBeforeClose
<1> HIDE DEF n
<1>5. ASSUME NEW k \in HookName, NEW d \in HookChan
      PROVE  /\ InInbox(k, d)' => InInbox(k, d)
             /\ InInbox(k, d) => InInbox(k, d)' \/ (k = m /\ d = Head(inbox).ch)
  <2>1. ASSUME NEW i \in 1 .. n, Is(i, k, d), ~Is(1, k, d) PROVE \E j \in 1 .. n - 1 : Is(j, k, d)'
    <3>1. i - 1 \in 1 .. n - 1 /\ (i - 1) + 1 = i
      BY <1>1, <2>1
    <3> QED
      BY <1>2, <2>1, <3>1
  <2>2. ASSUME NEW i \in 1 .. n - 1, Is(i, k, d)' PROVE \E j \in 1 .. n : Is(j, k, d)
    <3>1. i + 1 \in 1 .. n
      BY <1>1
    <3> QED
      BY <1>2, <2>2, <3>1
  <2> QED
    BY <1>2, <1>3, <2>1, <2>2
<1>6. ASSUME NEW d \in HookChan, OpenBeforeClose(d) PROVE OpenBeforeClose(d)'
  <2> SUFFICES ASSUME NEW i \in 1 .. n - 1, Is(i, "on_open", d)'
               PROVE  \E j \in i + 1 .. n - 1 : Is(j, "on_close", d)'
    BY <1>4
  <2>1. i + 1 \in 1 .. n /\ Is(i + 1, "on_open", d)
    BY <1>1, <1>2 DEF HookName
  <2>2. PICK j \in (i + 1) + 1 .. n : Is(j, "on_close", d)
    BY <1>4, <1>6, <2>1
  <2>3. j - 1 \in i + 1 .. n - 1 /\ j - 1 \in 1 .. n - 1 /\ (j - 1) + 1 = j
    BY <1>1
  <2> QED
    BY <1>2, <2>2, <2>3 DEF HookName
<1>7. ASSUME NEW d \in HookChan, OpenBeforeClose(d), m = "on_open", d = Head(inbox).ch
      PROVE  InInbox("on_close", d)'
  <2>1. 1 \in 1 .. n /\ Is(1, "on_open", d)
    BY <1>1, <1>2, <1>7 DEF HookName
  <2>2. PICK j \in 1 + 1 .. n : Is(j, "on_close", d)
    BY <1>4, <1>7, <2>1
  <2>3. j - 1 \in 1 .. n - 1 /\ (j - 1) + 1 = j
    BY <1>1
  <2> QED
    BY <1>2, <1>3, <2>2, <2>3 DEF HookName
<1>8. ASSUME NEW d \in HookChan, m = "on_open", d = Head(inbox).ch PROVE InInbox("on_open", d)
  BY <1>1, <1>2, <1>3, <1>8 DEF HookName
<1> QED
  BY <1>1, <1>5, <1>6, <1>7, <1>8

(* The checker's question and its timeout leave the hooks of the channels    *)
(* where they are.                                                          *)
LEMMA InboxKeeps ==
    ASSUME inbox \in Seq(HookLines), CheckAsks \/ CheckTimesOut
    PROVE  /\ inbox' \in Seq(HookLines)
           /\ \A n \in HookName, d \in HookChan : InInbox(n, d)' <=> InInbox(n, d)
           /\ \A d \in HookChan : OpenBeforeClose(d) => OpenBeforeClose(d)'
<1> DEFINE n == Len(inbox)
<1>1. CASE CheckAsks
  <2> DEFINE new == [m |-> "on_check", wanted |-> TRUE]
  <2>1. new \in HookLines /\ new.m \notin HookName
    BY DEF HookLines, HookName
  <2>2. /\ inbox' \in Seq(HookLines) /\ n \in Nat /\ Len(inbox') = n + 1
        /\ inbox'[n + 1] = new /\ \A i \in 1 .. n : inbox'[i] = inbox[i]
    <3> HIDE DEF HookLines, new
    <3>1. inbox' = Append(inbox, new)
      BY <1>1 DEF CheckAsks, new
    <3> QED
      BY <2>1, <3>1
  <2>3. /\ \A i \in 1 .. n : \A k \in HookName, d \in HookChan : Is(i, k, d)' <=> Is(i, k, d)
        /\ \A i \in {n + 1} : \A k \in HookName, d \in HookChan : ~Is(i, k, d)'
    BY <2>1, <2>2 DEF Is
  <2>4. /\ \A k \in HookName, d \in HookChan :
             /\ InInbox(k, d) <=> \E i \in 1 .. n : Is(i, k, d)
             /\ InInbox(k, d)' <=> \E i \in 1 .. n + 1 : Is(i, k, d)'
        /\ \A d \in HookChan :
             /\ OpenBeforeClose(d) <=>
                  \A i \in 1 .. n :
                      Is(i, "on_open", d) => \E j \in i + 1 .. n : Is(j, "on_close", d)
             /\ OpenBeforeClose(d)' <=>
                  \A i \in 1 .. n + 1 :
                      Is(i, "on_open", d)' => \E j \in i + 1 .. n + 1 : Is(j, "on_close", d)'
    BY <2>2 DEF InInbox, OpenBeforeClose, Is
  <2> HIDE DEF n
  <2>5. ASSUME NEW k \in HookName, NEW d \in HookChan PROVE InInbox(k, d)' <=> InInbox(k, d)
    <3>1. /\ \A i : i \in 1 .. n + 1 <=> i \in 1 .. n \/ i = n + 1
          /\ n + 1 \in {n + 1} /\ \A i \in {n + 1} : i = n + 1
      BY <2>2
    <3>2. (\E i \in 1 .. n + 1 : Is(i, k, d)') <=>
              (\E i \in 1 .. n : Is(i, k, d)') \/ (\E i \in {n + 1} : Is(i, k, d)')
      BY <3>1, Zenon
    <3>3. ~\E i \in {n + 1} : Is(i, k, d)'
      BY <2>3
    <3>4. (\E i \in 1 .. n : Is(i, k, d)') <=> (\E i \in 1 .. n : Is(i, k, d))
      BY <2>3
    <3> QED
      BY <2>4, <3>2, <3>3, <3>4
  <2>6. ASSUME NEW d \in HookChan, OpenBeforeClose(d) PROVE OpenBeforeClose(d)'
    BY <2>2, <2>3, <2>4, <2>6 DEF HookName
  <2> QED
    BY <2>2, <2>5, <2>6
<1>2. CASE CheckTimesOut
  <2>1. /\ inbox' = [i \in 1 .. n |-> [inbox[i] EXCEPT !.wanted = FALSE]]
        /\ n \in Nat /\ \A i \in 1 .. n : inbox[i] \in HookLines
    BY <1>2 DEF CheckTimesOut
  <2>2. ASSUME NEW l \in HookLines
        PROVE  /\ [l EXCEPT !.wanted = FALSE] \in HookLines
               /\ [l EXCEPT !.wanted = FALSE].m = l.m
               /\ l.m \in HookName => [l EXCEPT !.wanted = FALSE].ch = l.ch
    BY DEF HookLines, HookName
  <2>3. inbox' \in Seq(HookLines) /\ Len(inbox') = n
    <3> HIDE DEF HookLines, n
    <3> QED
      BY <2>1, <2>2
  <2>4. \A i \in 1 .. n : \A k \in HookName, d \in HookChan : Is(i, k, d)' <=> Is(i, k, d)
    <3> SUFFICES ASSUME NEW i \in 1 .. n, NEW k \in HookName, NEW d \in HookChan
                 PROVE  Is(i, k, d)' <=> Is(i, k, d)
      OBVIOUS
    <3>1. inbox'[i] = [inbox[i] EXCEPT !.wanted = FALSE] /\ inbox[i] \in HookLines
      BY <2>1
    <3> HIDE DEF HookLines, n
    <3> QED
      BY <2>2, <3>1 DEF Is
  <2>5. /\ \A k \in HookName, d \in HookChan :
             /\ InInbox(k, d) <=> \E i \in 1 .. n : Is(i, k, d)
             /\ InInbox(k, d)' <=> \E i \in 1 .. n : Is(i, k, d)'
        /\ \A d \in HookChan :
             /\ OpenBeforeClose(d) <=>
                  \A i \in 1 .. n :
                      Is(i, "on_open", d) => \E j \in i + 1 .. n : Is(j, "on_close", d)
             /\ OpenBeforeClose(d)' <=>
                  \A i \in 1 .. n :
                      Is(i, "on_open", d)' => \E j \in i + 1 .. n : Is(j, "on_close", d)'
    BY <2>3 DEF InInbox, OpenBeforeClose, Is
  <2> HIDE DEF n
  <2>6. ASSUME NEW k \in HookName, NEW d \in HookChan PROVE InInbox(k, d)' <=> InInbox(k, d)
    BY <2>1, <2>4, <2>5
  <2>7. ASSUME NEW d \in HookChan, OpenBeforeClose(d) PROVE OpenBeforeClose(d)'
    BY <2>1, <2>4, <2>5, <2>7 DEF HookName
  <2> QED
    BY <2>3, <2>6, <2>7
<1> QED
  BY <1>1, <1>2

(* A step that leaves the pipe alone leaves all of that alone.              *)
LEMMA InboxSame ==
    ASSUME UNCHANGED inbox
    PROVE  /\ \A n \in HookName, d \in HookChan : InInbox(n, d)' <=> InInbox(n, d)
           /\ \A d \in HookChan : OpenBeforeClose(d) => OpenBeforeClose(d)'
BY DEF InInbox, OpenBeforeClose, Is

-----------------------------------------------------------------------------
HookStates == {"none", "opening", "open", "ending", "closed"}
AgeLimit   == IdleTicks + IdleTicks

IdleTypes ==
    /\ inbox \in Seq(HookLines)
    /\ state \in [HookChan -> HookStates]
    /\ tracked \subseteq HookChan /\ warned \subseteq HookChan
    /\ quiet \in [HookChan -> 0 .. AgeLimit]
    /\ idle \in [HookChan -> 0 .. IdleTicks] /\ sinceWarn \in [HookChan -> 0 .. IdleTicks]
    /\ checker # "closes" => closing = {}

\* The plugin has not heard of a channel that is not there yet.
NothingBeforeOpen ==
    \A c \in HookChan : state[c] = "none" => c \notin tracked /\ ~InInbox("on_open", c)

\* on_close is the last of a TCP channel, and on_open comes before it.
CloseComesLast ==
    \A c \in HookChan \ HookUdp :
        IF state[c] = "closed"
        THEN OpenBeforeClose(c) /\ (c \in tracked => InInbox("on_close", c))
        ELSE ~InInbox("on_close", c)

\* The plugin's clocks run behind the channel's, unless a hook that will set them
\* back is on its way.
ClocksBehind ==
    \A c \in tracked :
        \/ InInbox("on_data", c) \/ InInbox("on_close", c)
        \/ /\ idle[c] <= quiet[c]
           /\ c \in warned => IdleTicks + sinceWarn[c] <= quiet[c]

IdleInv == IdleTypes /\ NothingBeforeOpen /\ CloseComesLast /\ ClocksBehind

(* The hooks and the plugin's tables keep their types.                      *)
LEMMA IdleTypesStep == IdleTypes /\ [IdleNext]_hookVars => IdleTypes'
<1> SUFFICES ASSUME IdleTypes, [IdleNext]_hookVars PROVE IdleTypes'
  OBVIOUS
<1> USE IdleAssumption
    DEF IdleTypes, HookStates, AgeLimit, srvHookVars, idleVars, checkVars, hookVars
<1>0. IdleTicks \in Nat /\ 0 \in 0 .. IdleTicks /\ 0 \in 0 .. AgeLimit
  OBVIOUS
<1>1. ASSUME NEW c \in HookChan, OpenAsks(c) \/ OnData(c) \/ EndHook(c) PROVE IdleTypes'
  <2>1. PICK m \in HookName : Hook(m, c)
    BY <1>1 DEF OpenAsks, OnData, EndHook, HookName
  <2>2. inbox' \in Seq(HookLines)
    BY <2>1, InboxGrows
  <2>3. state' \in [HookChan -> HookStates]
    BY <1>1 DEF OpenAsks, OnData, EndHook
  <2>4. quiet' \in [HookChan -> 0 .. AgeLimit]
    BY <1>0, <1>1 DEF OpenAsks, OnData, EndHook
  <2> QED
    BY <1>1, <2>2, <2>3, <2>4 DEF OpenAsks, OnData, EndHook
<1>2. ASSUME NEW c \in HookChan,
             OpenRefused(c) \/ OpenReturns(c) \/ ChannelEnds(c) \/ SessionDropped(c)
      PROVE  IdleTypes'
  BY <1>2 DEF OpenRefused, OpenReturns, ChannelEnds, SessionDropped
<1>3. ASSUME NEW c \in HookChan, CheckCloses(c) PROVE IdleTypes'
  BY <1>3 DEF CheckCloses
<1>4. CASE CheckAsks
  BY <1>4, InboxKeeps DEF CheckAsks
<1>5. CASE CheckTimesOut
  BY <1>5, InboxKeeps DEF CheckTimesOut
<1>6. CASE CheckDone
  BY <1>6 DEF CheckDone
<1>7. ASSUME NEW m, Handles(m) PROVE inbox' \in Seq(HookLines)
  BY <1>7, InboxShrinks
<1>8. CASE PluginOpen
  <2>1. Head(inbox).ch \in HookChan
    BY <1>8, InboxShrinks DEF PluginOpen, Handles, HookLines, HookName
  <2> QED
    BY <1>7, <1>8, <2>1 DEF PluginOpen, Handles
<1>9. CASE PluginClose \/ PluginData
  <2>1. inbox' \in Seq(HookLines) /\ UNCHANGED srvHookVars
    BY <1>7, <1>9 DEF PluginClose, PluginData, Handles
  <2>2. idle' \in [HookChan -> 0 .. IdleTicks]
    BY <1>0, <1>9 DEF PluginClose, PluginData
  <2> QED
    BY <1>9, <2>1, <2>2 DEF PluginClose, PluginData
<1>10. CASE PluginCheck
  BY <1>7, <1>10 DEF PluginCheck, Handles, Answer, Due, Expired
<1>11. CASE HookTick
  <2>1. ASSUME NEW n \in Nat, NEW age \in [HookChan -> 0 .. n]
        PROVE  Older(age, n) \in [HookChan -> 0 .. n]
    BY DEF Older
  <2>2. idle' \in [HookChan -> 0 .. IdleTicks] /\ sinceWarn' \in [HookChan -> 0 .. IdleTicks]
    BY <1>0, <1>11, <2>1 DEF HookTick
  <2>3. quiet' \in [HookChan -> 0 .. AgeLimit]
    <3>1. 2 * IdleTicks = AgeLimit /\ AgeLimit \in Nat
      BY <1>0
    <3>2. quiet' = Older(quiet, AgeLimit)
      BY <1>11, <3>1 DEF HookTick
    <3> HIDE DEF AgeLimit
    <3> QED
      BY <2>1, <3>1, <3>2
  <2> QED
    BY <1>11, <2>2, <2>3 DEF HookTick
<1>12. CASE UNCHANGED hookVars
  BY <1>12
<1> QED
  BY <1>1, <1>2, <1>3, <1>4, <1>5, <1>6, <1>8, <1>9, <1>10, <1>11, <1>12
  DEF IdleNext, Channel, PluginHandles

(* A channel's first hook is its on_open, and the plugin tracks nothing it  *)
(* was not told of.                                                         *)
LEMMA NothingBeforeOpenStep ==
    IdleTypes /\ NothingBeforeOpen /\ [IdleNext]_hookVars => NothingBeforeOpen'
<1> SUFFICES ASSUME IdleTypes, NothingBeforeOpen, [IdleNext]_hookVars PROVE NothingBeforeOpen'
  OBVIOUS
<1> USE DEF IdleTypes, NothingBeforeOpen, srvHookVars, idleVars, checkVars, hookVars
<1>1. ASSUME NEW c \in HookChan, OpenAsks(c) PROVE NothingBeforeOpen'
  BY <1>1, InboxGrows DEF OpenAsks, HookName
<1>2. ASSUME NEW c \in HookChan, OnData(c) PROVE NothingBeforeOpen'
  BY <1>2, InboxGrows DEF OnData, HookName
<1>3. ASSUME NEW c \in HookChan, EndHook(c) PROVE NothingBeforeOpen'
  BY <1>3, InboxGrows DEF EndHook, HookName
<1>4. ASSUME NEW c \in HookChan,
             OpenRefused(c) \/ OpenReturns(c) \/ ChannelEnds(c) \/ SessionDropped(c)
      PROVE  NothingBeforeOpen'
  BY <1>4, InboxSame DEF OpenRefused, OpenReturns, ChannelEnds, SessionDropped, HookName
<1>5. ASSUME NEW c \in HookChan, CheckCloses(c) PROVE NothingBeforeOpen'
  BY <1>5, InboxSame DEF CheckCloses, HookName
<1>6. CASE CheckAsks \/ CheckTimesOut
  BY <1>6, InboxKeeps DEF CheckAsks, CheckTimesOut, HookName
<1>7. CASE CheckDone \/ HookTick \/ UNCHANGED hookVars
  BY <1>7, InboxSame DEF CheckDone, HookTick, HookName
<1>8. CASE PluginOpen
  BY <1>8, InboxShrinks DEF PluginOpen, Handles, HookName
<1>9. CASE PluginClose
  BY <1>9, InboxShrinks DEF PluginClose, Handles, HookName
<1>10. CASE PluginData
  BY <1>10, InboxShrinks DEF PluginData, Handles, HookName
<1>11. CASE PluginCheck
  BY <1>11, InboxShrinks DEF PluginCheck, Handles, HookName
<1> QED
  BY <1>1, <1>2, <1>3, <1>4, <1>5, <1>6, <1>7, <1>8, <1>9, <1>10, <1>11
  DEF IdleNext, Channel, PluginHandles

(* on_close of a TCP channel is written once, when it ends, behind all that *)
(* was written for it.                                                      *)
LEMMA CloseComesLastStep ==
    IdleTypes /\ CloseComesLast /\ [IdleNext]_hookVars => CloseComesLast'
<1> SUFFICES ASSUME IdleTypes, CloseComesLast, [IdleNext]_hookVars PROVE CloseComesLast'
  OBVIOUS
<1> USE DEF IdleTypes, CloseComesLast, srvHookVars, idleVars, checkVars, hookVars
<1>1. ASSUME NEW c \in HookChan, OpenAsks(c) PROVE CloseComesLast'
  BY <1>1, InboxGrows DEF OpenAsks, HookName
<1>2. ASSUME NEW c \in HookChan, OnData(c) PROVE CloseComesLast'
  BY <1>2, InboxGrows DEF OnData, HookName
<1>3. ASSUME NEW c \in HookChan, EndHook(c) PROVE CloseComesLast'
  BY <1>3, InboxGrows DEF EndHook, HookName
<1>4. ASSUME NEW c \in HookChan,
             OpenRefused(c) \/ OpenReturns(c) \/ ChannelEnds(c) \/ SessionDropped(c)
      PROVE  CloseComesLast'
  BY <1>4, InboxSame DEF OpenRefused, OpenReturns, ChannelEnds, SessionDropped, HookName
<1>5. ASSUME NEW c \in HookChan, CheckCloses(c) PROVE CloseComesLast'
  BY <1>5, InboxSame DEF CheckCloses, HookName
<1>6. CASE CheckAsks \/ CheckTimesOut
  BY <1>6, InboxKeeps DEF CheckAsks, CheckTimesOut, HookName
<1>7. CASE CheckDone \/ HookTick \/ UNCHANGED hookVars
  BY <1>7, InboxSame DEF CheckDone, HookTick, HookName
<1>8. CASE PluginOpen
  BY <1>8, InboxShrinks DEF PluginOpen, Handles, HookName
<1>9. CASE PluginClose
  BY <1>9, InboxShrinks DEF PluginClose, Handles, HookName
<1>10. CASE PluginData
  BY <1>10, InboxShrinks DEF PluginData, Handles, HookName
<1>11. CASE PluginCheck
  BY <1>11, InboxShrinks DEF PluginCheck, Handles, HookName
<1> QED
  BY <1>1, <1>2, <1>3, <1>4, <1>5, <1>6, <1>7, <1>8, <1>9, <1>10, <1>11
  DEF IdleNext, Channel, PluginHandles

(* Activity sets the channel's clock back when its hook is written and the  *)
(* plugin's when it is read; a warning is only given to a channel that was  *)
(* quiet for the timeout already.                                           *)
LEMMA ClocksBehindStep ==
    IdleTypes /\ NothingBeforeOpen /\ ClocksBehind /\ [IdleNext]_hookVars => ClocksBehind'
<1> SUFFICES ASSUME IdleTypes, NothingBeforeOpen, ClocksBehind, [IdleNext]_hookVars
             PROVE  ClocksBehind'
  OBVIOUS
<1> USE IdleAssumption
    DEF IdleTypes, ClocksBehind, AgeLimit, srvHookVars, idleVars, checkVars, hookVars
<1>1. ASSUME NEW c \in HookChan, OpenAsks(c) PROVE ClocksBehind'
  BY <1>1, InboxGrows DEF OpenAsks, NothingBeforeOpen, HookName
<1>2. ASSUME NEW c \in HookChan, OnData(c) PROVE ClocksBehind'
  BY <1>2, InboxGrows DEF OnData, HookName
<1>3. ASSUME NEW c \in HookChan, EndHook(c) PROVE ClocksBehind'
  BY <1>3, InboxGrows DEF EndHook, HookName
<1>4. ASSUME NEW c \in HookChan,
             \/ OpenRefused(c) \/ OpenReturns(c) \/ ChannelEnds(c) \/ SessionDropped(c)
             \/ CheckCloses(c)
      PROVE  ClocksBehind'
  BY <1>4, InboxSame
  DEF OpenRefused, OpenReturns, ChannelEnds, SessionDropped, CheckCloses, HookName
<1>5. CASE CheckAsks \/ CheckTimesOut
  BY <1>5, InboxKeeps DEF CheckAsks, CheckTimesOut, HookName
<1>6. CASE CheckDone \/ UNCHANGED hookVars
  BY <1>6, InboxSame DEF CheckDone, HookName
<1>7. CASE HookTick
  <2>1. /\ UNCHANGED <<tracked, warned>>
        /\ \A n \in {"on_data", "on_close"}, d \in HookChan : InInbox(n, d)' <=> InInbox(n, d)
    BY <1>7, InboxSame DEF HookTick, HookName
  <2>2. ASSUME NEW c \in tracked, idle[c] <= quiet[c],
               c \in warned => IdleTicks + sinceWarn[c] <= quiet[c]
        PROVE  /\ idle'[c] <= quiet'[c]
               /\ c \in warned => IdleTicks + sinceWarn'[c] <= quiet'[c]
    <3> DEFINE Aged(a, limit) == IF a < limit THEN a + 1 ELSE a
    <3>1. /\ idle'[c] = Aged(idle[c], IdleTicks) /\ sinceWarn'[c] = Aged(sinceWarn[c], IdleTicks)
          /\ quiet'[c] = Aged(quiet[c], 2 * IdleTicks)
      BY <1>7 DEF HookTick, Older
    <3>2. /\ idle[c] \in 0 .. IdleTicks /\ sinceWarn[c] \in 0 .. IdleTicks
          /\ quiet[c] \in Nat /\ IdleTicks \in Nat
      OBVIOUS
    <3> HIDE DEF IdleTypes, ClocksBehind
    <3> QED
      BY <2>2, <3>1, <3>2
  <2> QED
    BY <2>1, <2>2
<1>8. CASE PluginOpen
  <2>1. \A n \in {"on_data", "on_close"}, d \in HookChan : InInbox(n, d) => InInbox(n, d)'
    BY <1>8, InboxShrinks DEF PluginOpen, HookName
  <2>2. Head(inbox).ch \in HookChan
    BY <1>8, InboxShrinks DEF PluginOpen, Handles, HookLines, HookName
  <2>3. /\ tracked' = tracked \cup {Head(inbox).ch} /\ warned' = warned \ {Head(inbox).ch}
        /\ idle' = [idle EXCEPT ![Head(inbox).ch] = 0] /\ UNCHANGED <<quiet, sinceWarn>>
    BY <1>8 DEF PluginOpen, Handles
  <2> QED
    BY <2>1, <2>2, <2>3
<1>9. CASE PluginClose
  BY <1>9, InboxShrinks DEF PluginClose, Handles, HookName
<1>10. CASE PluginData
  BY <1>10, InboxShrinks DEF PluginData, Handles, HookName
<1>11. CASE PluginCheck
  <2>1. \A n \in {"on_data", "on_close"}, d \in HookChan : InInbox(n, d) => InInbox(n, d)'
    BY <1>11, InboxShrinks DEF PluginCheck, HookName
  <2>2. /\ warned' = (warned \ Expired) \cup Due
        /\ sinceWarn' = [d \in HookChan |-> IF d \in Due THEN 0 ELSE sinceWarn[d]]
        /\ UNCHANGED <<tracked, quiet, idle>>
    BY <1>11 DEF PluginCheck, Handles
  <2> QED
    BY <2>1, <2>2 DEF Due
<1> QED
  BY <1>1, <1>2, <1>3, <1>4, <1>5, <1>6, <1>7, <1>8, <1>9, <1>10, <1>11
  DEF IdleNext, Channel, PluginHandles

(* The invariant of the idle timeout.                                       *)
LEMMA IdleInvHolds == IdleSpec => []IdleInv
<1>1. IdleInit => IdleInv
  <2> SUFFICES ASSUME IdleInit PROVE IdleInv
    OBVIOUS
  <2>1. inbox \in Seq(HookLines) /\ Len(inbox) = 0
    BY DEF IdleInit
  <2>2. \A m, c : ~InInbox(m, c)
    BY <2>1 DEF InInbox
  <2>3. IdleTypes
    BY <2>1, IdleAssumption DEF IdleInit, IdleTypes, HookStates, AgeLimit
  <2> QED
    BY <2>2, <2>3
    DEF IdleInit, IdleInv, NothingBeforeOpen, CloseComesLast, ClocksBehind
<1>2. IdleInv /\ [IdleNext]_hookVars => IdleInv'
  BY IdleTypesStep, NothingBeforeOpenStep, CloseComesLastStep, ClocksBehindStep DEF IdleInv
<1> QED
  BY <1>1, <1>2, PTL DEF IdleSpec

(* A TCP channel the plugin tracks is still open, or its on_close is in the *)
(* pipe: the table does not grow with channels that are gone.               *)
THEOREM TrackedIsOpenHolds == IdleSpec => []TrackedIsOpen
<1>1. IdleInv => TrackedIsOpen
  BY DEF IdleInv, IdleTypes, CloseComesLast, TrackedIsOpen
<1> QED
  BY <1>1, IdleInvHolds, PTL

(* The plugin never has a channel closed that was active within the last    *)
(* two timeouts, as far as the hooks written before it decided show.        *)
THEOREM OnlyIdleIsClosedHolds == IdleSpec => OnlyIdleIsClosed
<1> DEFINE Quiet(c) == \/ quiet[c] >= 2 * IdleTicks
                       \/ InInbox("on_data", c) \/ InInbox("on_close", c)
           OnlyIdle == \A c \in HookChan : c \in closing' /\ checker = "asked" => Quiet(c)
<1>1. ASSUME IdleInv, [IdleNext]_hookVars PROVE OnlyIdle
  <2> SUFFICES ASSUME NEW c \in HookChan, c \in closing', checker = "asked" PROVE Quiet(c)
    OBVIOUS
  <2>1. closing = {}
    BY <1>1 DEF IdleInv, IdleTypes
  <2>2. PluginCheck
    BY <1>1, <2>1
    DEF IdleNext, Channel, PluginHandles, hookVars, checkVars, OpenAsks, OpenRefused,
        OpenReturns, OnData, ChannelEnds, EndHook, SessionDropped, CheckCloses, CheckAsks,
        CheckTimesOut, CheckDone, PluginOpen, PluginClose, PluginData, HookTick
  <2>3. c \in tracked /\ c \in warned /\ sinceWarn[c] >= IdleTicks
    BY <2>1, <2>2 DEF PluginCheck, Answer, Expired, checkVars
  <2> QED
    BY <1>1, <2>3, IdleAssumption DEF IdleInv, IdleTypes, ClocksBehind, AgeLimit
<1> QED
  BY <1>1, IdleInvHolds, PTL DEF IdleSpec, OnlyIdleIsClosed
=============================================================================
