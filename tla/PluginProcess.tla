--------------------------- MODULE PluginProcess ---------------------------
(***************************************************************************)
(* One dynamic plugin: an external process the server talks to over pipes, *)
(* one JSON line per request and per answer (dynplugin.PluginProcess).     *)
(* Goroutines of the server (acceptors, datagram loops, the checker) call  *)
(* it concurrently; the plugin may answer late, twice, or never, may die,  *)
(* and may stop reading its input.                                         *)
(***************************************************************************)
EXTENDS Naturals, Sequences, FiniteSets

CONSTANTS
    Caller,     \* goroutines of the server that call the plugin
    MaxID,      \* bound: requests made with Call
    MaxNotes,   \* bound: notifications made with Notify
    Cap,        \* lines the plugin's stdin pipe holds
    MaxDup      \* bound: answers the plugin sends to one request

ASSUME PluginAssumption ==
    /\ MaxID \in Nat /\ MaxNotes \in Nat /\ Cap \in Nat \ {0} /\ MaxDup \in Nat
    /\ 0 \notin Caller

VARIABLES
    alive,      \* the plugin process runs
    stopped,    \* stopCh and stdin are closed
    nextID,
    pending,    \* keys of the pending map
    chan,       \* what the (one-place) channel of each request holds
    pcs,        \* where each caller is
    ids,        \* the id of each caller's request, 0 for a notification
    asks,       \* history: how many calls were made, the matter of the next
    about,      \* history: the matter of each caller's last call
    result,     \* what the last Call of each caller returned
    notes,      \* notifications made so far
    writer,     \* holder of writeMu, 0 if free
    stdin,      \* requests in the pipe: [id, about]
    asked,      \* requests the plugin has read, with the answers it may send
    stdout,     \* answers in the pipe: [id, about]
    reader,     \* readLoop: "scan", "send", "done"
    line        \* the answer readLoop handles

callVars   == <<nextID, pending, chan, pcs, ids, asks, about, result, notes, writer>>
pluginVars == <<alive, stdin, asked, stdout>>
readVars   == <<reader, line>>
vars       == <<stopped, callVars, pluginVars, readVars>>

NoLine == [id |-> 0, about |-> 0]
Lines  == [id : 0 .. MaxID, about : 0 .. MaxID]
Empty  == 0
Error  == 0

Init ==
    /\ alive = TRUE /\ stopped = FALSE
    /\ nextID = 0 /\ pending = {}
    /\ chan = [i \in 1 .. MaxID |-> Empty]
    /\ pcs = [c \in Caller |-> "idle"]
    /\ ids = [c \in Caller |-> 0]
    /\ asks = 0 /\ about = [c \in Caller |-> 0]
    /\ result = [c \in Caller |-> Error]
    /\ notes = 0 /\ writer = 0
    /\ stdin = <<>> /\ stdout = <<>>
    /\ asked = [q \in {} |-> 0]
    /\ reader = "scan" /\ line = NoLine

-----------------------------------------------------------------------------
(* The callers: Call and Notify.                                            *)

\* Faulty variant: the id is the number of calls under way.
CallReusesId(c) ==
    /\ pcs[c] = "idle" /\ asks < MaxID
    /\ nextID' = Cardinality(pending) + 1
    /\ pending' = pending \cup {nextID'}
    /\ chan' = [chan EXCEPT ![nextID'] = Empty]
    /\ ids' = [ids EXCEPT ![c] = nextID']
    /\ asks' = asks + 1
    /\ about' = [about EXCEPT ![c] = asks']
    /\ pcs' = [pcs EXCEPT ![c] = "lock"]
    /\ UNCHANGED <<stopped, result, notes, writer, pluginVars, readVars>>

\* Call: a fresh id and its channel enter pending under p.mu.
Call(c) ==
    /\ pcs[c] = "idle" /\ asks < MaxID
    /\ nextID' = nextID + 1
    /\ pending' = pending \cup {nextID'}
    /\ chan' = [chan EXCEPT ![nextID'] = Empty]
    /\ ids' = [ids EXCEPT ![c] = nextID']
    /\ asks' = asks + 1
    /\ about' = [about EXCEPT ![c] = asks']
    /\ pcs' = [pcs EXCEPT ![c] = "lock"]
    /\ UNCHANGED <<stopped, result, notes, writer, pluginVars, readVars>>

\* Notify: a request with id 0 that nobody waits for.
Notify(c) ==
    /\ pcs[c] = "idle" /\ notes < MaxNotes
    /\ notes' = notes + 1
    /\ ids' = [ids EXCEPT ![c] = 0]
    /\ pcs' = [pcs EXCEPT ![c] = "lock"]
    /\ UNCHANGED <<stopped, nextID, pending, chan, asks, about, result, writer>>
    /\ UNCHANGED <<pluginVars, readVars>>

\* sendRaw takes writeMu ...
Lock(c) ==
    /\ pcs[c] = "lock" /\ writer = 0
    /\ writer' = c
    /\ pcs' = [pcs EXCEPT ![c] = "send"]
    /\ UNCHANGED <<stopped, nextID, pending, chan, ids, asks, about, result, notes>>
    /\ UNCHANGED <<pluginVars, readVars>>

\* ... and writes the line: it blocks, with writeMu held and no deadline, while
\* the pipe of a living plugin is full.
Send(c) ==
    /\ pcs[c] = "send" /\ alive /\ ~stopped /\ Len(stdin) < Cap
    /\ stdin' = Append(stdin, [id |-> ids[c], about |-> IF ids[c] = 0 THEN 0 ELSE about[c]])
    /\ writer' = 0
    /\ pcs' = [pcs EXCEPT ![c] = IF ids[c] = 0 THEN "idle" ELSE "wait"]
    /\ UNCHANGED <<stopped, nextID, pending, chan, ids, asks, about, result, notes>>
    /\ UNCHANGED <<alive, asked, stdout, readVars>>

\* The caller goes on: the ids in gone have left the pending map, and a Call
\* (not a Notify) returns res.
Return(c, gone, res) ==
    /\ pending' = pending \ gone
    /\ result' = IF ids[c] = 0 THEN result ELSE [result EXCEPT ![c] = res]
    /\ pcs' = [pcs EXCEPT ![c] = "idle"]
    /\ UNCHANGED <<stopped, nextID, ids, asks, about, notes, pluginVars, readVars>>

\* The write fails: the process is gone, or Stop closed the pipe.
SendFails(c) ==
    /\ pcs[c] = "send" /\ (~alive \/ stopped)
    /\ writer' = 0
    /\ Return(c, {ids[c]}, Error)
    /\ UNCHANGED chan

\* select: the answer is in the channel.
Answered(c) ==
    /\ pcs[c] = "wait" /\ chan[ids[c]] # Empty
    /\ chan' = [chan EXCEPT ![ids[c]] = Empty]
    /\ Return(c, {}, chan[ids[c]])
    /\ UNCHANGED writer

\* Faulty variants: the timeout leaves the id in pending; there is no timeout.
TimesOutKeepsId(c) ==
    /\ pcs[c] = "wait"
    /\ Return(c, {}, Error)
    /\ UNCHANGED <<chan, writer>>
TimesOutNever(c) ==
    /\ pcs[c] = "wait" /\ stopped
    /\ Return(c, {ids[c]}, Error)
    /\ UNCHANGED <<chan, writer>>

\* select: time.After(p.timeout) fired; the id leaves pending.  Nobody reads
\* the channel any more, whatever still comes into it.
TimesOut(c) ==
    /\ pcs[c] = "wait"
    /\ Return(c, {ids[c]}, Error)
    /\ UNCHANGED <<chan, writer>>

\* select: stopCh is closed; the id stays in pending.
SeesStop(c) ==
    /\ pcs[c] = "wait" /\ stopped
    /\ Return(c, {}, Error)
    /\ UNCHANGED <<chan, writer>>

-----------------------------------------------------------------------------
(* readLoop.                                                                *)

\* Faulty variant: the id stays in pending until the caller removes it.
ScanKeepsId ==
    /\ reader = "scan" /\ stdout # <<>>
    /\ line' = Head(stdout)
    /\ stdout' = Tail(stdout)
    /\ reader' = IF line'.id \in pending THEN "send" ELSE "scan"
    /\ UNCHANGED <<stopped, callVars, alive, stdin, asked>>

\* A line is scanned; its id is looked up in pending and removed, under p.mu.
Scan ==
    /\ reader = "scan" /\ stdout # <<>>
    /\ line' = Head(stdout)
    /\ stdout' = Tail(stdout)
    /\ reader' = IF line'.id \in pending THEN "send" ELSE "scan"
    /\ pending' = pending \ {line'.id}
    /\ UNCHANGED <<stopped, nextID, chan, pcs, ids, asks, about, result, notes, writer>>
    /\ UNCHANGED <<alive, stdin, asked>>

\* ch <- &resp: blocks while the one-place channel is full.
Deliver ==
    /\ reader = "send" /\ chan[line.id] = Empty
    /\ chan' = [chan EXCEPT ![line.id] = line.about]
    /\ reader' = "scan"
    /\ UNCHANGED <<stopped, nextID, pending, pcs, ids, asks, about, result, notes, writer>>
    /\ UNCHANGED <<pluginVars, line>>

\* Scan returns false at the end of the output, or stopCh is seen.
ReaderEnds ==
    /\ reader = "scan" /\ (stopped \/ (~alive /\ stdout = <<>>))
    /\ reader' = "done"
    /\ UNCHANGED <<stopped, callVars, pluginVars, line>>

-----------------------------------------------------------------------------
(* The plugin and Stop.                                                     *)

\* The plugin reads a line; a notification is handled and never answered.
PluginReads ==
    /\ alive /\ stdin # <<>>
    /\ LET q == Head(stdin) IN
         asked' = IF q.id = 0 THEN asked
                  ELSE [r \in DOMAIN asked \cup {q} |-> IF r = q THEN MaxDup ELSE asked[r]]
    /\ stdin' = Tail(stdin)
    /\ UNCHANGED <<stopped, callVars, alive, stdout, readVars>>

\* It answers a request with the request's id and on its matter: in any order,
\* late, and up to MaxDup times.
PluginAnswers ==
    /\ alive
    /\ \E q \in DOMAIN asked :
         /\ asked[q] > 0
         /\ asked' = [asked EXCEPT ![q] = @ - 1]
         /\ stdout' = Append(stdout, q)
    /\ UNCHANGED <<stopped, callVars, alive, stdin, readVars>>

\* The process exits by itself, or is killed by Stop.
PluginDies ==
    /\ alive
    /\ alive' = FALSE
    /\ UNCHANGED <<stopped, callVars, stdin, asked, stdout, readVars>>

\* Stop: stopCh and stdin are closed; the kill is PluginDies.
Stop ==
    /\ ~stopped
    /\ stopped' = TRUE
    /\ UNCHANGED <<callVars, pluginVars, readVars>>

-----------------------------------------------------------------------------
Returns(c) == SendFails(c) \/ Answered(c) \/ TimesOut(c) \/ SeesStop(c)
Reader     == Scan \/ Deliver \/ ReaderEnds

Next ==
    \/ \E c \in Caller : Call(c) \/ Notify(c) \/ Lock(c) \/ Send(c) \/ Returns(c)
    \/ Reader \/ PluginReads \/ PluginAnswers \/ PluginDies \/ Stop

Spec == Init /\ [][Next]_vars

(* The server's goroutines run, writeMu is granted in turn (Go's mutexes do   *)
(* not starve) and timers fire.  Nothing is asked of the plugin: that it      *)
(* reads, answers or ends is up to it.                                        *)
Fairness ==
    /\ \A c \in Caller : WF_vars(Send(c)) /\ WF_vars(Returns(c)) /\ SF_vars(Lock(c))
    /\ WF_vars(Reader)

FairSpec == Spec /\ Fairness

-----------------------------------------------------------------------------
(* Properties.                                                              *)

\* Every variable has its type; a request is asked and answered with its id.
TypeOK ==
    /\ alive \in BOOLEAN /\ stopped \in BOOLEAN
    /\ nextID \in 0 .. MaxID /\ pending \subseteq 1 .. MaxID
    /\ chan \in [1 .. MaxID -> 0 .. MaxID]
    /\ pcs \in [Caller -> {"idle", "lock", "send", "wait"}]
    /\ ids \in [Caller -> 0 .. MaxID]
    /\ asks \in 0 .. MaxID /\ about \in [Caller -> 0 .. MaxID]
    /\ result \in [Caller -> 0 .. MaxID]
    /\ notes \in 0 .. MaxNotes /\ writer \in Caller \cup {0}
    /\ stdin \in Seq(Lines) /\ stdout \in Seq(Lines)
    /\ DOMAIN asked \subseteq Lines /\ line \in Lines
    /\ reader \in {"scan", "send", "done"}

\* A hook never acts on the answer to another request: neither another
\* goroutine's nor an earlier one of its own whose answer came after the timeout.
AnswerIsMine ==
    \A c \in Caller : pcs[c] = "idle" => result[c] \in {about[c], Error}

\* readLoop never blocks on handing an answer over, even to a caller that is
\* gone and even if the plugin answers twice: one stuck hand-over would make
\* every later hook of the plugin time out.
ReaderNeverBlocks == reader = "send" => chan[line.id] = Empty

\* The pending map does not grow: while the plugin is not stopped an id in it
\* belongs to a call under way.
PendingIsInFlight ==
    ~stopped => \A i \in pending : \E c \in Caller : ids[c] = i /\ pcs[c] # "idle"

\* The plugin lives and has left its stdin pipe full.
PipeFull == alive /\ ~stopped /\ Len(stdin) = Cap

\* A hook is never held up for good, whether the plugin answers, answers late or
\* never, dies or is stopped while calls are under way: only a plugin that lets
\* its input pipe stay full for ever can hold a caller.
CallReturns == (\A c \in Caller : []<>(pcs[c] = "idle")) \/ <>[]PipeFull

\* What main.go says of -plugin-timeout ("keeps a plugin that is stuck from
\* blocking the main program") and PLUGIN_DEV.md of a plugin that times out:
\* every call returns, whatever the plugin does.  sendRaw writes to the pipe
\* before the timer of Call is started, so the code does not keep it.
TimeoutBoundsCall == \A c \in Caller : []<>(pcs[c] = "idle")
=============================================================================
