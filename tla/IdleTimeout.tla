---------------------------- MODULE IdleTimeout ----------------------------
(***************************************************************************)
(* The hooks of a channel's life as a dynamic plugin gets them, with the   *)
(* plugin that depends on them most: conn-timeout, which tracks channels   *)
(* from on_open to on_close, warns about one that was idle for the timeout *)
(* and, when it stayed idle as long again, has it closed through on_check. *)
(*                                                                         *)
(* Acceptors and datagram loops, pipes, the relay reader and the checker   *)
(* write their hooks into one pipe, in the order they get the write lock;  *)
(* the plugin handles one line at a time.  Another plugin, before or after *)
(* conn-timeout in the list, may close TCP channels at on_open (for UDP    *)
(* sessions see ServerChannels: that stops the client altogether).  Ages   *)
(* are counted in ticks, as far as something depends on them.              *)
(***************************************************************************)
EXTENDS Naturals, Sequences, FiniteSets

CONSTANTS
    HookChan,      \* channel ids
    HookUdp,       \* those that are UDP sessions
    IdleTicks,     \* timeout_seconds
    PipeCap,       \* lines the plugin's stdin pipe holds
    MaxLate        \* bound: answers to on_check that come after the timeout

ASSUME IdleAssumption ==
    /\ HookUdp \subseteq HookChan
    /\ IdleTicks \in Nat \ {0} /\ PipeCap \in Nat \ {0} /\ MaxLate \in Nat

VARIABLES
    state,      \* the channel at the server
    quiet,      \* history: ticks since its last hook that shows activity
    inbox,      \* hooks written to the plugin and not yet handled
    tracked,    \* plugin: keys of connections
    idle,       \* plugin: age of last_data
    warned,     \* plugin: keys of warned
    sinceWarn,  \* plugin: age of the warning
    checker,    \* runPluginChecker: waits for its ticker, for an answer, closes
    closing,    \* the channels the answer names, not yet dealt with
    late        \* answers that came too late so far

srvHookVars == <<state, quiet>>
idleVars    == <<tracked, idle, warned, sinceWarn>>
checkVars   == <<checker, closing, late>>
hookVars    == <<srvHookVars, inbox, idleVars, checkVars>>

IdleInit ==
    /\ state = [c \in HookChan |-> "none"]
    /\ quiet = [c \in HookChan |-> 0]
    /\ inbox = <<>>
    /\ tracked = {} /\ warned = {}
    /\ idle = [c \in HookChan |-> 0] /\ sinceWarn = [c \in HookChan |-> 0]
    /\ checker = "ticker" /\ closing = {} /\ late = 0

\* Call and Notify write a line; a full pipe makes them wait.
Hook(m, c) ==
    /\ Len(inbox) < PipeCap
    /\ inbox' = Append(inbox, [m |-> m, ch |-> c, wanted |-> TRUE])

InInbox(m, c) == \E i \in 1 .. Len(inbox) : inbox[i].m = m /\ inbox[i].ch = c

-----------------------------------------------------------------------------
(* The server: Manager's hooks where signal-server calls them.              *)

\* A channel is entered in its table and the plugins are asked in turn; the
\* ones before conn-timeout let it pass (or failed, and are skipped).
OpenAsks(c) ==
    /\ state[c] = "none"
    /\ Hook("on_open", c)
    /\ state' = [state EXCEPT ![c] = "opening"]
    /\ quiet' = [quiet EXCEPT ![c] = 0]
    /\ UNCHANGED <<idleVars, checkVars>>

\* Another plugin closes it, before conn-timeout is asked or after: the
\* acceptor has on_close sent to all of them.
OpenRefused(c) ==
    /\ c \notin HookUdp /\ state[c] \in {"none", "opening"}
    /\ state' = [state EXCEPT ![c] = "ending"]
    /\ UNCHANGED <<quiet, inbox, idleVars, checkVars>>

\* Call returns, with the answer or at the timeout; only now is the channel
\* announced to the client and its pipe started.
OpenReturns(c) ==
    /\ state[c] = "opening"
    /\ state' = [state EXCEPT ![c] = "open"]
    /\ UNCHANGED <<quiet, inbox, idleVars, checkVars>>

\* Data in either direction; a pipe may still report some after another actor
\* removed the channel.
OnData(c) ==
    /\ state[c] \in {"open", "ending"}
    /\ Hook("on_data", c)
    /\ quiet' = [quiet EXCEPT ![c] = 0]
    /\ UNCHANGED <<state, idleVars, checkVars>>

\* The pipe, the relay reader or the session cleanup takes the channel out of
\* its table (the one that finds it there) ...
ChannelEnds(c) ==
    /\ state[c] = "open"
    /\ state' = [state EXCEPT ![c] = "ending"]
    /\ UNCHANGED <<quiet, inbox, idleVars, checkVars>>

\* Faulty variant: the plugins are not told.
EndHookSilent(c) ==
    /\ state[c] = "ending"
    /\ state' = [state EXCEPT ![c] = "closed"]
    /\ UNCHANGED <<quiet, inbox, idleVars, checkVars>>

\* ... and then tells the plugins.
EndHook(c) ==
    /\ state[c] = "ending"
    /\ Hook("on_close", c)
    /\ state' = [state EXCEPT ![c] = "closed"]
    /\ UNCHANGED <<quiet, idleVars, checkVars>>

\* The teardown of the client drops its UDP sessions without on_close.
SessionDropped(c) ==
    /\ c \in HookUdp /\ state[c] = "open"
    /\ state' = [state EXCEPT ![c] = "closed"]
    /\ UNCHANGED <<quiet, inbox, idleVars, checkVars>>

\* runPluginChecker: the ticker fires, Manager.OnCheck calls the plugin.
CheckAsks ==
    /\ checker = "ticker"
    /\ Len(inbox) < PipeCap
    /\ inbox' = Append(inbox, [m |-> "on_check", wanted |-> TRUE])
    /\ checker' = "asked"
    /\ UNCHANGED <<srvHookVars, idleVars, closing, late>>

\* -plugin-timeout is over: an answer that still comes is not wanted any more.
CheckTimesOut ==
    /\ checker = "asked" /\ late < MaxLate
    /\ checker' = "ticker"
    /\ late' = late + 1
    /\ inbox' = [i \in 1 .. Len(inbox) |-> [inbox[i] EXCEPT !.wanted = FALSE]]
    /\ UNCHANGED <<srvHookVars, idleVars, closing>>

\* A channel the answer names is removed if some client still has it (a UDP
\* session that is being opened is behind udpMu).
CheckCloses(c) ==
    /\ checker = "closes" /\ c \in closing
    /\ ~(c \in HookUdp /\ state[c] = "opening")
    /\ closing' = closing \ {c}
    /\ state' = IF state[c] \in {"opening", "open"}
                THEN [state EXCEPT ![c] = "ending"] ELSE state
    /\ UNCHANGED <<quiet, inbox, idleVars, checker, late>>

CheckDone ==
    /\ checker = "closes" /\ closing = {}
    /\ checker' = "ticker"
    /\ UNCHANGED <<srvHookVars, inbox, idleVars, closing, late>>

-----------------------------------------------------------------------------
(* conn-timeout.                                                            *)

\* The plugin reads the next line, a hook m.
Handles(m) ==
    /\ inbox # <<>> /\ Head(inbox).m = m
    /\ inbox' = Tail(inbox)
    /\ UNCHANGED srvHookVars

PluginOpen ==
    /\ Handles("on_open")
    /\ LET c == Head(inbox).ch IN
         /\ tracked' = tracked \cup {c}
         /\ idle' = [idle EXCEPT ![c] = 0]
         /\ warned' = warned \ {c}
    /\ UNCHANGED <<sinceWarn, checkVars>>

PluginClose ==
    /\ Handles("on_close")
    /\ tracked' = tracked \ {Head(inbox).ch}
    /\ warned' = warned \ {Head(inbox).ch}
    /\ UNCHANGED <<idle, sinceWarn, checkVars>>

\* Faulty variant: the warning stands although there was data again.
PluginDataKeepsWarning ==
    /\ Handles("on_data")
    /\ idle' = [idle EXCEPT ![Head(inbox).ch] = 0]
    /\ UNCHANGED <<tracked, warned, sinceWarn, checkVars>>

PluginData ==
    /\ Handles("on_data")
    /\ idle' = [idle EXCEPT ![Head(inbox).ch] = 0]
    /\ warned' = warned \ {Head(inbox).ch}
    /\ UNCHANGED <<tracked, sinceWarn, checkVars>>

\* The warned channels whose second timeout is over, and the idle ones that have
\* no warning yet.
Expired == {c \in tracked \cap warned : sinceWarn[c] >= IdleTicks}
Due     == {c \in tracked \ warned : idle[c] >= IdleTicks}

\* What becomes of the answer: runPluginChecker waits for it, or not any more.
Answer(channels) ==
    IF Head(inbox).wanted
    THEN checker' = "closes" /\ closing' = channels /\ UNCHANGED late
    ELSE UNCHANGED checkVars

\* Faulty variant: the plugin forgets a channel when it asks to close it.
PluginCheckForgets ==
    /\ Handles("on_check")
    /\ tracked' = tracked \ Expired
    /\ warned' = (warned \ Expired) \cup Due
    /\ sinceWarn' = [c \in HookChan |-> IF c \in Due THEN 0 ELSE sinceWarn[c]]
    /\ Answer(Expired)
    /\ UNCHANGED idle

\* on_check: an expired warning is dropped and the channel named in the answer,
\* but it stays tracked until on_close comes.
PluginCheck ==
    /\ Handles("on_check")
    /\ warned' = (warned \ Expired) \cup Due
    /\ sinceWarn' = [c \in HookChan |-> IF c \in Due THEN 0 ELSE sinceWarn[c]]
    /\ Answer(Expired)
    /\ UNCHANGED <<tracked, idle>>

-----------------------------------------------------------------------------
\* Time passes.
Older(age, limit) == [c \in HookChan |-> IF age[c] < limit THEN age[c] + 1 ELSE age[c]]
HookTick ==
    /\ \E c \in HookChan : state[c] # "none"
    /\ idle' = Older(idle, IdleTicks)
    /\ sinceWarn' = Older(sinceWarn, IdleTicks)
    /\ quiet' = Older(quiet, 2 * IdleTicks)
    /\ UNCHANGED <<state, inbox, tracked, warned, checkVars>>

PluginHandles == PluginOpen \/ PluginClose \/ PluginData \/ PluginCheck
Channel(c)    == \/ OpenAsks(c) \/ OpenRefused(c) \/ OpenReturns(c) \/ OnData(c)
                 \/ ChannelEnds(c) \/ EndHook(c) \/ SessionDropped(c)

IdleNext ==
    \/ \E c \in HookChan : Channel(c) \/ CheckCloses(c)
    \/ CheckAsks \/ CheckTimesOut \/ CheckDone
    \/ PluginHandles \/ HookTick

IdleSpec == IdleInit /\ [][IdleNext]_hookVars

(* The server's goroutines and the plugin run, time passes, and the checker, *)
(* as long as there is something to check, is not kept out of the pipe by    *)
(* the hooks of others for ever (writeMu is granted in turn).  Answers are   *)
(* late MaxLate times at most.  A channel the checker is told to close is    *)
(* closed: chanMu and udpMu are taken to be free some time (a session that   *)
(* another plugin refuses, or a client that does not read, can keep udpMu    *)
(* locked and stops the checker for every client; ServerShutdown has it).    *)
IdleFairness ==
    /\ WF_hookVars(PluginHandles) /\ WF_hookVars(HookTick)
    /\ SF_hookVars(tracked # {} /\ CheckAsks) /\ WF_hookVars(CheckDone)
    /\ \A c \in HookChan : WF_hookVars(OpenReturns(c)) /\ WF_hookVars(CheckCloses(c))

-----------------------------------------------------------------------------
(* Properties.                                                              *)

\* An active channel is never cut: the checker is only told to close what was
\* quiet for twice the timeout, counting all data whose hook was written before
\* the plugin decided (data after that cannot be known to it).
OnlyIdleIsClosed ==
    [][\A c \in HookChan :
          (c \in closing' /\ checker = "asked") =>
              \/ quiet[c] >= 2 * IdleTicks
              \/ InInbox("on_data", c) \/ InInbox("on_close", c)]_hookVars

\* No channel stays open and quiet for good: it is closed in the end, also when
\* answers of the plugin come too late and are thrown away (as long as nothing
\* keeps the checker from the client's locks, see IdleFairness).
IdleGetsClosed ==
    \A c \in HookChan : []<>~(state[c] = "open" /\ quiet[c] >= 2 * IdleTicks)

\* The plugin's table does not grow: a TCP channel it tracks is still there, or
\* the hook that ends it is on its way.  on_close never overtakes on_open.
TrackedIsOpen ==
    \A c \in tracked \ HookUdp :
        state[c] # "closed" \/ InInbox("on_close", c)
=============================================================================
